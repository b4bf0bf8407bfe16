---- MODULE DynamicChannels ----
(***************************************************************************)
(* The server's dynamic channels (channels/dvc_server.cpp,                 *)
(* server/dynamic_channels.cpp) and a client that keeps to [MS-RDPEDYC]:   *)
(* the capabilities exchange, channels opened and closed by either side    *)
(* while what the other side sent is still on its way, and messages of one *)
(* or two PDUs, plain or compressed with the channel's own history.        *)
(***************************************************************************)
EXTENDS Integers, Sequences, FiniteSets

CONSTANTS
    LastChannelId, \* the largest channel id
    ChannelOpens,  \* bound: channels the server opens in one behaviour, at most LastChannelId
    ChannelTalk    \* bound: messages of either side, and refusals and closes of the client

VARIABLES
    dvcs,     \* the DvcServer
    dvcUp,    \* PDUs on their way to the server
    dvcDown,  \* PDUs on their way to the client
    dvcPeer   \* the client

dvcVars == <<dvcs, dvcUp, dvcDown, dvcPeer>>
ChannelIds == 1..LastChannelId
NoChannel == [state |-> "none", nth |-> 0, part |-> FALSE, history |-> 0]

\* nth numbers the open() calls, so that a late PDU is told from one for the
\* channel that has its id now; got counts the messages of each.
DvcInit ==
    /\ dvcs = [state |-> "idle", version |-> 0, next |-> 1, opened |-> 0, channels |-> [id \in ChannelIds |-> NoChannel],
               pending |-> << >>, error |-> FALSE, got |-> [n \in 1..ChannelOpens |-> 0], mixed |-> FALSE]
    /\ dvcUp = << >> /\ dvcDown = << >>
    /\ dvcPeer = [channels |-> [id \in ChannelIds |-> NoChannel], left |-> {}, refused |-> {}, sent |-> [n \in 1..ChannelOpens |-> 0],
                  talk |-> 0, surprised |-> FALSE]

\* ---- the server --------------------------------------------------------

\* start
StartDvc ==
    /\ dvcs.state = "idle" /\ dvcs' = [dvcs EXCEPT !.state = "waiting_caps"]
    /\ dvcDown' = Append(dvcDown, [kind |-> "caps_request"]) /\ UNCHANGED <<dvcUp, dvcPeer>>

\* allocate_id: the next id that no channel has.
allocate_id(d) ==
    CHOOSE id \in ChannelIds :
        /\ d.channels[id].state = "none"
        /\ \A j \in ChannelIds : (d.channels[j].state = "none") => (id - d.next) % LastChannelId <= (j - d.next) % LastChannelId
CreatePdu(d, id) == [kind |-> "create", id |-> id, nth |-> d.channels[id].nth]
\* open: the Create Request at once, or after the capabilities exchange.
Open ==
    /\ ~dvcs.error /\ dvcs.opened < ChannelOpens
    /\ \E id \in ChannelIds : dvcs.channels[id].state = "none"
    /\ LET id == allocate_id(dvcs)
           ready == dvcs.state = "ready"
           d == [dvcs EXCEPT !.next = (id % LastChannelId) + 1, !.opened = @ + 1,
                             !.channels[id] = [NoChannel EXCEPT !.nth = dvcs.opened + 1,
                                                                !.state = IF ready THEN "opening" ELSE "pending"],
                             !.pending = IF ready THEN @ ELSE Append(@, id)]
       IN  dvcs' = d /\ dvcDown' = IF ready THEN Append(dvcDown, CreatePdu(d, id)) ELSE dvcDown
    /\ UNCHANGED <<dvcUp, dvcPeer>>
\* send: only on an open channel.
MaySend(d, id) == ~d.error /\ d.channels[id].state = "open"
Send(id) ==
    /\ MaySend(dvcs, id) /\ dvcPeer.talk < ChannelTalk
    /\ dvcDown' = Append(dvcDown, [kind |-> "data", id |-> id]) /\ dvcPeer' = [dvcPeer EXCEPT !.talk = @ + 1]
    /\ UNCHANGED <<dvcs, dvcUp>>
\* A channel still waiting for its answer is closed without a word.
TellsCloseOfOpen(d, id) == d.channels[id].state = "open"
\* close: the id is forgotten at once; a channel that was never requested
\* leaves the queue.
TellsClose(d, id) == d.channels[id].state \in {"opening", "open"}
Close(id) ==
    /\ dvcs.channels[id].state /= "none"
    /\ dvcs' = [dvcs EXCEPT !.channels[id] = NoChannel, !.pending = SelectSeq(@, LAMBDA j : j /= id)]
    /\ dvcDown' = IF TellsClose(dvcs, id) THEN Append(dvcDown, [kind |-> "close", id |-> id]) ELSE dvcDown
    /\ UNCHANGED <<dvcUp, dvcPeer>>

DvcFailed(d) == [d EXCEPT !.error = TRUE]
\* handle(CapsResponse): the channels opened so far are requested in order.
OnCaps(d, pdu) ==
    IF d.state /= "waiting_caps" \/ pdu.version = 0 THEN DvcFailed(d)
    ELSE [d EXCEPT !.state = "ready", !.version = pdu.version, !.pending = << >>,
                   !.channels = [id \in ChannelIds |-> IF @[id].state = "pending" THEN [@[id] EXCEPT !.state = "opening"]
                                                       ELSE @[id]]]
\* handle(CreateResponse)
OnCreate(d, pdu) ==
    CASE d.channels[pdu.id].state = "none" -> d
      [] d.channels[pdu.id].state \in {"pending", "open"} -> DvcFailed(d)
      [] d.channels[pdu.id].state = "opening" ->
           [d EXCEPT !.channels[pdu.id] = IF pdu.ok THEN [@ EXCEPT !.state = "open"] ELSE NoChannel,
                     !.mixed = @ \/ d.channels[pdu.id].nth /= pdu.nth]
\* MessageReassembler::first and next, deliver
Deliver(d, pdu) ==
    LET c == d.channels[pdu.id]
    IN  IF pdu.first THEN (IF c.part THEN DvcFailed(d) ELSE [d EXCEPT !.channels[pdu.id].part = TRUE])
        ELSE [d EXCEPT !.channels[pdu.id].part = FALSE, !.got[c.nth] = @ + 1,
                       !.mixed = @ \/ c.nth /= pdu.nth \/ pdu.message /= d.got[c.nth] + 1]
\* decompress: version 3, and a history for each channel.
Decompressed(d, pdu) ==
    IF ~pdu.compressed THEN d
    ELSE IF d.version < 3 \/ d.channels[pdu.id].history /= pdu.history THEN DvcFailed(d)
    ELSE [d EXCEPT !.channels[pdu.id].history = @ + 1]
\* data_channel, handle(Data), handle(DataFirst) and their compressed forms
OnData(d, pdu) ==
    CASE d.channels[pdu.id].state = "none" -> d
      [] d.channels[pdu.id].state \in {"pending", "opening"} -> DvcFailed(d)
      [] d.channels[pdu.id].state = "open" ->
           IF Decompressed(d, pdu).error THEN DvcFailed(d) ELSE Deliver(Decompressed(d, pdu), pdu)
\* handle(Close)
OnClose(d, pdu) ==
    CASE d.channels[pdu.id].state = "none" -> d
      [] d.channels[pdu.id].state \in {"pending", "opening"} -> DvcFailed(d)
      [] d.channels[pdu.id].state = "open" -> [d EXCEPT !.channels[pdu.id] = NoChannel,
                                                        !.mixed = @ \/ d.channels[pdu.id].nth /= pdu.nth]
\* receive, require_ready; the answers are flushed.
Received(d, pdu) ==
    IF pdu.kind = "caps_response" THEN OnCaps(d, pdu)
    ELSE IF d.state /= "ready" THEN DvcFailed(d)
    ELSE CASE pdu.kind = "created" -> OnCreate(d, pdu) [] pdu.kind = "data" -> OnData(d, pdu)
           [] pdu.kind = "close" -> OnClose(d, pdu)
ReceiveDvc ==
    /\ ~dvcs.error /\ dvcUp /= << >>
    /\ LET pdu == Head(dvcUp)
           d == Received(dvcs, pdu)
       IN  /\ dvcs' = d
           /\ dvcDown' = IF pdu.kind = "caps_response" /\ ~d.error
                         THEN dvcDown \o [i \in DOMAIN dvcs.pending |-> CreatePdu(dvcs, dvcs.pending[i])]
                         ELSE dvcDown
    /\ dvcUp' = Tail(dvcUp) /\ UNCHANGED dvcPeer

\* ---- the client (external) ----------------------------------------------

\* It answers in order; a Close is answered with a Close; what comes for a
\* channel it has closed itself is dropped.
ClientReads ==
    /\ dvcDown /= << >>
    /\ LET pdu == Head(dvcDown)
           mine == IF pdu.kind = "caps_request" THEN NoChannel ELSE dvcPeer.channels[pdu.id]
       IN  CASE pdu.kind = "caps_request" ->
                  \E version \in {2, 3} : dvcUp' = Append(dvcUp, [kind |-> "caps_response", version |-> version])
                                           /\ UNCHANGED dvcPeer
             [] pdu.kind = "create" ->
                  \E ok \in {TRUE, dvcPeer.talk = ChannelTalk} :
                    /\ dvcUp' = Append(dvcUp, [kind |-> "created", id |-> pdu.id, ok |-> ok, nth |-> pdu.nth])
                    /\ dvcPeer' = IF ok THEN [dvcPeer EXCEPT !.channels[pdu.id] = [NoChannel EXCEPT !.state = "open",
                                                                                                    !.nth = pdu.nth]]
                                  ELSE [dvcPeer EXCEPT !.talk = @ + 1, !.refused = @ \cup {pdu.id}]
             [] pdu.kind = "data" ->
                  /\ dvcPeer' = [dvcPeer EXCEPT !.surprised = @ \/ (mine.state = "none" /\ pdu.id \notin dvcPeer.left)]
                  /\ UNCHANGED dvcUp
             [] pdu.kind = "close" ->
                  /\ dvcPeer' = [dvcPeer EXCEPT !.channels[pdu.id] = NoChannel,
                                   !.surprised = @ \/ (mine.state = "none" /\ pdu.id \notin dvcPeer.left \cup dvcPeer.refused)]
                  /\ dvcUp' = IF mine.state = "none" THEN dvcUp
                              ELSE Append(dvcUp, [kind |-> "close", id |-> pdu.id, nth |-> mine.nth])
    /\ dvcDown' = Tail(dvcDown) /\ UNCHANGED dvcs
\* A message in one PDU or two, and compressed where version 3 allows it.
ClientTalks(id, pieces, compressed) ==
    /\ dvcPeer.channels[id].state = "open" /\ dvcPeer.talk < ChannelTalk
    /\ compressed => dvcs.version = 3
    /\ LET c == dvcPeer.channels[id]
           Piece(k) == [kind |-> "data", id |-> id, nth |-> c.nth, first |-> k < pieces, compressed |-> compressed,
                        message |-> dvcPeer.sent[c.nth] + 1, history |-> c.history + k - 1]
       IN  /\ dvcUp' = dvcUp \o [k \in 1..pieces |-> Piece(k)]
           /\ dvcPeer' = [dvcPeer EXCEPT !.talk = @ + 1, !.sent[c.nth] = @ + 1,
                                         !.channels[id].history = IF compressed THEN @ + pieces ELSE @]
    /\ UNCHANGED <<dvcs, dvcDown>>
ClientCloses(id) ==
    /\ dvcPeer.channels[id].state = "open" /\ dvcPeer.talk < ChannelTalk
    /\ dvcUp' = Append(dvcUp, [kind |-> "close", id |-> id, nth |-> dvcPeer.channels[id].nth])
    /\ dvcPeer' = [dvcPeer EXCEPT !.channels[id] = NoChannel, !.left = @ \cup {id}, !.talk = @ + 1]
    /\ UNCHANGED <<dvcs, dvcDown>>

DvcNext ==
    \/ StartDvc \/ Open \/ ReceiveDvc \/ ClientReads
    \/ \E id \in ChannelIds : Send(id) \/ Close(id) \/ ClientCloses(id)
    \/ \E id \in ChannelIds, pieces \in 1..2, compressed \in BOOLEAN : ClientTalks(id, pieces, compressed)

DvcSpec == DvcInit /\ [][DvcNext]_dvcVars

\* ---- properties --------------------------------------------------------

\* A client that keeps to the protocol is never cut off: whatever was on its
\* way when the server opened or closed channels, receive() does not fail.
GoodClientIsKept == ~dvcs.error

\* Late PDUs never hit a new channel ("Channel ids are allocated
\* monotonically ... so late PDUs never hit a new channel"), and what a
\* channel delivers is its client's messages, whole and in order.
LateIsNotTaken == ~dvcs.mixed

\* The server sends nothing on a channel the client has not accepted, and
\* closes none it never asked for; only a channel the client itself left can
\* still get something.
ClientIsNotSurprised == ~dvcPeer.surprised

\* When nothing is on its way both ends have the same channels.
ChannelsAgree ==
    (dvcs.state = "ready" /\ dvcUp = << >> /\ dvcDown = << >>) =>
        \A id \in ChannelIds :
            /\ dvcs.channels[id].state \in {"none", "open"}
            /\ dvcs.channels[id].state = dvcPeer.channels[id].state
            /\ dvcs.channels[id].nth = dvcPeer.channels[id].nth

\* Dynamic channels: a correct client is never cut off, data of a closed
\* channel reaches no later one, the client is sent nothing it did not
\* open, and both ends agree on what is open.
ChannelsCorrect ==
    /\ GoodClientIsKept
    /\ LateIsNotTaken
    /\ ClientIsNotSurprised
    /\ ChannelsAgree
====
