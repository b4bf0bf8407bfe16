---- MODULE Camera ----
(***************************************************************************)
(* The client's camera (server/camera.cpp, apps/farland-server/            *)
(* session_camera.cpp): the enumerator's channel, one device channel at a  *)
(* time, the stream and its samples, the events the session's loop takes,  *)
(* and the local camera they end in.  The client plugs and unplugs         *)
(* cameras; messages are in flight both ways.  Pictures are the camera     *)
(* they come from; names and layouts are left out.                         *)
(***************************************************************************)
EXTENDS Integers, Sequences, SequencesExt, FiniteSetsExt

CONSTANTS
    Webcams,        \* the cameras a client may have
    WebcamTurns,    \* bound: cameras plugged in and things that fail, together
    WebcamTransit   \* bound: messages of the client on the way when it acts by itself

VARIABLES webcam, webLocal, webUp, webClient

webVars == <<webcam, webLocal, webUp, webClient>>

\* ---- CameraServer ------------------------------------------------------

\* choose_media_type, format_rank: whether there is one it can use.  Which of
\* several it prefers is left out.
UsableMedia(m) == m.side <= 3 /\ m.rank > 0
ChooseMedia(offered) == SelectSeq(offered, UsableMedia)

Enumerator == 1
\* `id' is the device's channel, 0 without one; `out' is on its way.
NewWebcam == [state |-> "connecting", closed |-> FALSE, id |-> 0, name |-> 0, spare |-> << >>, pending |-> FALSE,
              stopped |-> FALSE, events |-> << >>, next |-> 2, out |-> <<[id |-> Enumerator, kind |-> "create", name |-> 0]>>]
NewWebClient == [version |-> FALSE, plugged |-> {}, open |-> {}, asked |-> {}, turns |-> 0]
WebInit == webcam = NewWebcam /\ webLocal = [name |-> 0, wrong |-> FALSE] /\ webUp = << >> /\ webClient = NewWebClient

\* send_device, send_enumerator
SendOn(c, id, kind) == IF id = 0 \/ c.closed THEN c ELSE [c EXCEPT !.out = Append(@, [id |-> id, kind |-> kind, name |-> 0])]
\* DynamicChannels::close
CloseOn(c) == IF c.id = 0 THEN c ELSE [c EXCEPT !.out = Append(@, [id |-> c.id, kind |-> "close", name |-> 0]), !.id = 0]
\* The event is queued for the session.
Tells(c, event) == [c EXCEPT !.events = Append(@, [kind |-> event, name |-> c.name])]
OpenDevice(c, name) ==
    [c EXCEPT !.state = "opening", !.pending = FALSE, !.name = name, !.id = c.next, !.next = @ + 1,
              !.out = Append(@, [id |-> c.next, kind |-> "create", name |-> name])]
\* The spare cameras are left where they are.
DropDeviceOnly(c) ==
    [Tells([CloseOn(c) EXCEPT !.state = "listening", !.pending = FALSE], "closed") EXCEPT !.name = 0]
\* drop_device: then the next of the spare cameras, if there is one
DropDevice(c) ==
    LET without == DropDeviceOnly(c)
    IN  IF c.spare = << >> THEN without ELSE OpenDevice([without EXCEPT !.spare = Tail(@)], c.spare[1])
\* close
CloseCamera(c) ==
    LET all == CloseOn(c)
    IN  Tells([all EXCEPT !.closed = TRUE, !.out = Append(@, [id |-> Enumerator, kind |-> "close", name |-> 0])], "closed")
\* request_frame
RequestFrame(c) ==
    IF c.state /= "streaming" \/ c.pending THEN c ELSE SendOn([c EXCEPT !.pending = TRUE], c.id, "sample")
\* stop
StopCamera(c) ==
    IF c.id = 0 THEN c
    ELSE LET streaming == IF c.state \in {"streaming", "starting"} THEN SendOn(c, c.id, "stop") ELSE c
         IN  [CloseOn(SendOn(streaming, c.id, "deactivate")) EXCEPT
                 !.pending = FALSE, !.stopped = TRUE, !.state = IF c.closed THEN @ ELSE "listening"]

\* on_enumerator
OnEnumerator(c, m) ==
    CASE m.kind = "version" -> SendOn([c EXCEPT !.state = "listening"], Enumerator, "version")
      [] m.kind = "added" -> IF c.state = "listening" THEN OpenDevice(c, m.name) ELSE [c EXCEPT !.spare = Append(@, m.name)]
      [] m.kind = "removed" ->
            LET left == [c EXCEPT !.spare = SelectSeq(@, LAMBDA name : name /= m.name)]
            IN  IF c.id /= 0 /\ c.name = m.name THEN DropDevice(left) ELSE left
      [] m.kind \in {"error", "refused"} -> CloseCamera(c)
      [] m.kind = "closed" -> Tells([c EXCEPT !.closed = TRUE], "closed")
      [] m.kind = "opened" -> c
\* on_device, and what happens to a device's channel
OnDevice(c, m) ==
    CASE m.kind = "opened" -> SendOn(SendOn([c EXCEPT !.state = "streams"], c.id, "activate"), c.id, "streams")
      [] m.kind \in {"refused", "closed", "error"} -> DropDevice(c)
      [] m.kind = "streams" ->
            IF c.state /= "streams" THEN c
            ELSE IF m.whole THEN SendOn([c EXCEPT !.state = "types"], c.id, "types") ELSE DropDevice(c)
      [] m.kind = "types" ->
            IF c.state /= "types" THEN c
            ELSE IF ChooseMedia(m.types) = << >> THEN DropDevice(c)
            ELSE SendOn([c EXCEPT !.state = "starting"], c.id, "start")
      [] m.kind = "success" ->
            IF c.state /= "starting" THEN c
            ELSE RequestFrame(Tells([c EXCEPT !.state = "streaming"], "opened"))
      [] m.kind = "sample" ->
            IF c.state /= "streaming" THEN c
            ELSE IF m.whole THEN Tells([c EXCEPT !.pending = FALSE], "frame") ELSE DropDevice([c EXCEPT !.pending = FALSE])
\* handle's is_device
IsDevice(c, m) == c.id /= 0 /\ m.id = c.id
\* handle: one dynamic channel event
HandleCamera ==
    /\ webUp /= << >> /\ webUp' = Tail(webUp) /\ UNCHANGED <<webLocal, webClient>>
    /\ LET m == webUp[1]
       IN  webcam' = IF webcam.closed THEN webcam
                     ELSE IF m.id = Enumerator THEN OnEnumerator(webcam, m)
                     ELSE IF IsDevice(webcam, m) THEN OnDevice(webcam, m) ELSE webcam

\* ---- SessionCamera -----------------------------------------------------

\* A camera's end leaves the local one.
TakeEventKeeping(acc, event, made) ==
    [c |-> RequestFrame(acc.c),
     local |-> CASE event.kind = "opened" -> [acc.local EXCEPT !.name = IF made THEN event.name ELSE 0]
                 [] event.kind = "closed" -> acc.local
                 [] event.kind = "frame" -> [acc.local EXCEPT !.wrong = @ \/ acc.local.name \notin {0, event.name}]]
\* open_local_camera, close_local_camera, and the frame written; asking for
\* the next one follows whatever the event was.
TakeEvent(acc, event, made) ==
    [c |-> RequestFrame(acc.c),
     local |-> CASE event.kind = "opened" -> [acc.local EXCEPT !.name = IF made THEN event.name ELSE 0]
                 [] event.kind = "closed" -> [acc.local EXCEPT !.name = 0]
                 [] event.kind = "frame" -> [acc.local EXCEPT !.wrong = @ \/ acc.local.name \notin {0, event.name}]]
\* service: every event there is, then the local camera
ServiceCamera(made, fails) ==
    LET taken == FoldLeft(LAMBDA acc, event : TakeEvent(acc, event, made),
                          [c |-> [webcam EXCEPT !.events = << >>], local |-> webLocal], webcam.events)
    IN  /\ webcam.events /= << >> \/ fails
        /\ fails => taken.local.name /= 0 /\ webClient.turns < WebcamTurns
        /\ made \/ (webClient.turns < WebcamTurns /\ \E i \in DOMAIN webcam.events : webcam.events[i].kind = "opened")
        /\ webcam' = IF fails THEN StopCamera(taken.c) ELSE taken.c
        /\ webLocal' = IF fails THEN [taken.local EXCEPT !.name = 0] ELSE taken.local
        /\ webClient' = IF fails \/ ~made THEN [webClient EXCEPT !.turns = @ + 1] ELSE webClient
        /\ UNCHANGED webUp

\* ---- the client --------------------------------------------------------

WebSays(id, kind) == [id |-> id, kind |-> kind, name |-> 0]
SaysOf(id, kind, name) == [id |-> id, kind |-> kind, name |-> name]
\* A camera's media types: one it can be used in, or none
WebcamTypes(usable) ==
    <<[side |-> 4, fps |-> 2, rank |-> 5], [side |-> 3, fps |-> 2, rank |-> IF usable THEN 1 ELSE 0]>>
\* Its streams or media types, of use or (a turn) not
CamerasOffered(id, kind) ==
    \E useful \in BOOLEAN :
        /\ useful \/ webClient.turns < WebcamTurns
        /\ webClient' = [webClient EXCEPT !.turns = IF useful THEN @ ELSE @ + 1]
        /\ webUp' = Append(webUp, [id |-> id, kind |-> kind, name |-> 0, whole |-> useful, types |-> WebcamTypes(useful)])
\* What a request of the server brings about, when its channel is open
WebClientAnswers(m) ==
    LET on == \E ch \in webClient.open : ch.id = m.id
    IN  CASE m.kind = "create" ->
                IF m.id = Enumerator \/ m.name \in webClient.plugged
                THEN /\ webClient' = [webClient EXCEPT !.open = @ \cup {[id |-> m.id, name |-> m.name]}]
                     /\ webUp' = Append(webUp, WebSays(m.id, "opened"))
                ELSE webUp' = Append(webUp, WebSays(m.id, "refused")) /\ UNCHANGED webClient
          [] m.kind = "close" ->
                /\ webClient' = [webClient EXCEPT !.open = {ch \in @ : ch.id /= m.id}, !.asked = @ \ {m.id}]
                /\ UNCHANGED webUp
          [] m.kind \in {"activate", "start", "stop", "deactivate"} ->
                webUp' = (IF on THEN Append(webUp, WebSays(m.id, "success")) ELSE webUp) /\ UNCHANGED webClient
          [] m.kind \in {"streams", "types"} -> IF on THEN CamerasOffered(m.id, m.kind) ELSE UNCHANGED <<webClient, webUp>>
          [] m.kind = "sample" ->
                webClient' = (IF on THEN [webClient EXCEPT !.asked = @ \cup {m.id}] ELSE webClient) /\ UNCHANGED webUp
          [] m.kind = "version" -> UNCHANGED <<webClient, webUp>>
WebClientReads ==
    /\ webcam.out /= << >>
    /\ webcam' = [webcam EXCEPT !.out = Tail(@)] /\ WebClientAnswers(webcam.out[1]) /\ UNCHANGED webLocal
\* The picture asked for, whole or not
ClientSample(id, whole) ==
    /\ id \in webClient.asked /\ (whole \/ webClient.turns < WebcamTurns)
    /\ webClient' = [webClient EXCEPT !.asked = @ \ {id}, !.turns = IF whole THEN @ ELSE @ + 1]
    /\ webUp' = Append(webUp, [id |-> id, kind |-> "sample", name |-> 0, whole |-> whole])
    /\ UNCHANGED <<webcam, webLocal>>
\* It speaks first on the enumerator.
ClientVersion ==
    /\ ~webClient.version /\ [id |-> Enumerator, name |-> 0] \in webClient.open
    /\ webClient' = [webClient EXCEPT !.version = TRUE] /\ webUp' = Append(webUp, WebSays(Enumerator, "version"))
    /\ UNCHANGED <<webcam, webLocal>>
ClientPlugs(name) ==
    /\ webClient.version /\ Len(webUp) < WebcamTransit /\ name \notin webClient.plugged /\ webClient.turns < WebcamTurns
    /\ [id |-> Enumerator, name |-> 0] \in webClient.open
    /\ webClient' = [webClient EXCEPT !.plugged = @ \cup {name}, !.turns = @ + 1]
    /\ webUp' = Append(webUp, SaysOf(Enumerator, "added", name)) /\ UNCHANGED <<webcam, webLocal>>
\* It closes the camera's channel itself, or leaves that to the server.
ClientUnplugs(name, closes) ==
    LET chans == {ch \in webClient.open : ch.name = name}
    IN  /\ name \in webClient.plugged /\ Len(webUp) < WebcamTransit /\ (closes => chans /= {})
        /\ webClient' = [webClient EXCEPT !.plugged = @ \ {name}, !.open = @ \ chans,
                                          !.asked = @ \ {ch.id : ch \in chans}]
        /\ webUp' = Append(webUp, SaysOf(Enumerator, "removed", name)) \o
                    (IF closes THEN SetToSeq({WebSays(ch.id, "closed") : ch \in chans}) ELSE << >>)
        /\ UNCHANGED <<webcam, webLocal>>
\* An error, or its channel closed
ClientFails(ch, how) ==
    /\ webClient.turns < WebcamTurns /\ webClient.version /\ Len(webUp) < WebcamTransit
    /\ webClient' = [webClient EXCEPT !.turns = @ + 1, !.open = IF how = "closed" THEN @ \ {ch} ELSE @,
                                      !.asked = @ \ {ch.id}]
    /\ webUp' = Append(webUp, WebSays(ch.id, how)) /\ UNCHANGED <<webcam, webLocal>>

WebNext ==
    \/ HandleCamera \/ WebClientReads \/ ClientVersion
    \/ \E made \in BOOLEAN, fails \in BOOLEAN : ServiceCamera(made, fails)
    \/ \E id \in webClient.asked, whole \in BOOLEAN : ClientSample(id, whole)
    \/ \E name \in Webcams : ClientPlugs(name) \/ \E closes \in BOOLEAN : ClientUnplugs(name, closes)
    \/ \E ch \in webClient.open, how \in {"closed", "error"} : ClientFails(ch, how)

WebSpec == WebInit /\ [][WebNext]_webVars

\* ---- properties --------------------------------------------------------

\* No picture reaches a local camera made for another one; and once the
\* session took what there was to tell, its local camera is the one that
\* streams, however cameras came and went in between.
ShowsTheStreamingCamera ==
    /\ ~webLocal.wrong
    /\ webcam.events = << >> /\ webLocal.name /= 0 /\ ~webcam.closed =>
          webcam.state = "streaming" /\ webcam.name = webLocal.name

\* A stream never stalls: while a camera streams, a picture is asked of this
\* very camera and unanswered, or there is an event after which the session
\* asks; and the client never has two requests for one.
StreamGoesOn ==
    LET requests == Cardinality({i \in DOMAIN webcam.out : webcam.out[i].id = webcam.id /\ webcam.out[i].kind = "sample"})
                    + (IF webcam.id \in webClient.asked THEN 1 ELSE 0)
                    + Cardinality({i \in DOMAIN webUp : webUp[i].id = webcam.id /\ webUp[i].kind = "sample"})
        gone == (\A ch \in webClient.open : ch.id /= webcam.id) \/
                \E i \in DOMAIN webUp : webUp[i].id = webcam.id /\ webUp[i].kind \in {"error", "closed"}
    IN  webcam.state = "streaming" /\ ~webcam.closed =>
            /\ requests <= 1
            /\ gone \/ webcam.events /= << >> \/ requests = 1

\* A camera offered while another one is in use is taken up when that one
\* goes away, unless it is unplugged before: no camera is kept waiting while
\* none is used.  (After the local camera failed the server waits to be
\* offered another one.)
NoCameraIsForgotten ==
    webcam.state = "listening" /\ ~webcam.stopped /\ ~webcam.closed => webcam.spare = << >>

\* The local camera shows the remote one that streams, its stream goes on
\* as long as both want it, and no announced camera is forgotten.
CameraCorrect ==
    /\ ShowsTheStreamingCamera
    /\ StreamGoesOn
    /\ NoCameraIsForgotten
====
