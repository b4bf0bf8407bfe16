----------------------------- MODULE Connection -----------------------------
(***************************************************************************)
(* One RDP connection after pre-authentication: server::Connection with    *)
(* the session loop that drives it, the desktop thread's side of a layout  *)
(* change, DisplayControl, and a client on an ordered byte stream.         *)
(*                                                                         *)
(* A PDU is a record with a kind k; the share a PDU belongs to and the     *)
(* desktop size are small numbers.  A layout is its bounding box.  Jobs    *)
(* and outbox are the queues between the connection and desktop threads.   *)
(* PDUs that change nothing at the client (license, join confirmations,    *)
(* synchronize, control) are left out.                                     *)
(***************************************************************************)
EXTENDS Naturals, Sequences

CONSTANTS
    DesktopSizes,      \* bounding boxes of layouts, 1 the client's first
    EarlyFlags,        \* what clients say in the Connect Initial, a set of sets
    ClientActs         \* bound: layouts a client asks for, and PDUs it sends out of turn

VARIABLES conn, up, down, cl, dt, jobs, outbox

connVars == <<conn, up, down, cl, dt, jobs, outbox>>

NoSize == 0

-----------------------------------------------------------------------------
(* Types *)

\* What DisplayControl remembers of the channel.
NewDisplay == [open |-> FALSE, current |-> NoSize, pending |-> NoSize]

NewConnection ==
    [state |-> "wait_connect_initial", flags |-> {}, joined |-> FALSE, share |-> 0, size |-> NoSize, confirmed |-> 0,
     reactivating |-> FALSE, late |-> FALSE, dvc |-> FALSE, display |-> NewDisplay]
NewClient == [at |-> "start", flags |-> {}, share |-> 0, size |-> NoSize, acts |-> ClientActs]
NewPicture == [session |-> NoSize, layout |-> NoSize, output |-> NoSize, gfx |-> FALSE]

ConnectionInit ==
    /\ conn = NewConnection
    /\ up = << >>
    /\ down = << >>
    /\ cl = NewClient
    /\ dt = NewPicture
    /\ jobs = << >>
    /\ outbox = << >>

-----------------------------------------------------------------------------
(* The connection *)

Pdu(k) == [k |-> k]
Sent(pdus) == down' = down \o pdus
Posted(j) == jobs' = jobs \o j

\* fail() and close(): the Closed event ends the session's loop, and everything of the session
\* goes with it.
ConnectionEnded ==
    /\ conn' = [NewConnection EXCEPT !.state = "closed"]
    /\ cl' = NewClient /\ dt' = NewPicture
    /\ up' = << >> /\ jobs' = << >> /\ outbox' = << >>
Closed == ConnectionEnded /\ down' = << >>

\* disconnect(): an error info where a share exists, then the ultimatum.
ShareExists == conn.state \in {"wait_confirm_active", "finalizing", "active"}
DisconnectPdus ==
    (IF ShareExists THEN <<Pdu("error_info")>> ELSE << >>)
        \o (IF conn.state = "wait_connect_initial" THEN << >> ELSE <<Pdu("ultimatum")>>)
Disconnect == ConnectionEnded /\ down' = DisconnectPdus

\* send_demand_active(), for a record of the connection with its share and size.
Demand(c) == <<[k |-> "demand", share |-> c.share, size |-> c.size]>>
StartLicensing(c) ==
    /\ conn' = [c EXCEPT !.state = "wait_confirm_active", !.share = 1]
    /\ Sent(Demand([c EXCEPT !.share = 1]))

\* receive(): the PDUs a state accepts.  Everything else is an error.
Accepts(state) ==
    CASE state = "wait_connect_initial" -> {"initial", "disconnect"}
      [] state = "wait_erect_domain" -> {"erect", "disconnect"}
      [] state = "wait_attach_user" -> {"attach", "disconnect"}
      [] state = "wait_channel_joins" -> {"join", "info", "detect", "channel", "disconnect"}
      [] state = "connect_time_autodetect" -> {"detect", "channel", "confirm", "data", "disconnect"}
      [] state \in {"wait_confirm_active", "finalizing", "active"} ->
             {"detect", "channel", "confirm", "data", "fast", "disconnect"}
      [] state = "closed" -> {}

\* run(): every turn of the session's loop starts with a look at the activation timeout, which
\* counts from the accept.
InTime == conn.state = "active" \/ ~conn.late

\* The next PDU of the stream, of kind k.
Arrived(k) == InTime /\ up # << >> /\ Head(up).k = k /\ k \in Accepts(conn.state)
Takes(k) == Arrived(k) /\ up' = Tail(up)

Unexpected ==
    /\ InTime /\ conn.state # "closed" /\ up # << >> /\ Head(up).k \notin Accepts(conn.state)
    /\ Closed

OnDisconnect == Arrived("disconnect") /\ Closed

\* choose_desktop_size() waits for the desktop thread's answer, the client's own size here.
OnConnectInitial ==
    /\ Takes("initial")
    /\ conn' = [conn EXCEPT !.state = "wait_erect_domain", !.flags = Head(up).flags, !.size = 1]
    /\ Sent(<<Pdu("response")>>)
    /\ UNCHANGED <<cl, dt, jobs, outbox>>

OnErectDomain ==
    /\ Takes("erect")
    /\ conn' = [conn EXCEPT !.state = "wait_attach_user"]
    /\ UNCHANGED <<down, cl, dt, jobs, outbox>>

OnAttachUser ==
    /\ Takes("attach")
    /\ conn' = [conn EXCEPT !.state = "wait_channel_joins"]
    /\ Sent(<<Pdu("attach_confirm")>>)
    /\ UNCHANGED <<cl, dt, jobs, outbox>>

OnChannelJoin ==
    /\ Takes("join")
    /\ conn' = [conn EXCEPT !.joined = @ \/ "message" \in conn.flags]
    /\ UNCHANGED <<down, cl, dt, jobs, outbox>>

MessageChannelJoined == "message" \in conn.flags /\ ("skip_join" \in conn.flags \/ conn.joined)

\* on_client_info(): connect-time auto-detect first, for clients that support it.
OnClientInfo ==
    /\ Takes("info")
    /\ IF MessageChannelJoined /\ "netchar" \in conn.flags
       THEN conn' = [conn EXCEPT !.state = "connect_time_autodetect"] /\ Sent(<<Pdu("probe")>>)
       ELSE StartLicensing(conn)
    /\ UNCHANGED <<cl, dt, jobs, outbox>>

\* on_message_channel() with the answers that complete the detection.
OnMessageChannel ==
    /\ Takes("detect")
    /\ IF conn.state = "connect_time_autodetect" THEN StartLicensing(conn) ELSE UNCHANGED <<conn, down>>
    /\ UNCHANGED <<cl, dt, jobs, outbox>>

\* tick(): the detection does not wait for ever.
ConnectTimeTimeout ==
    /\ InTime /\ conn.state = "connect_time_autodetect"
    /\ StartLicensing(conn)
    /\ UNCHANGED <<up, cl, dt, jobs, outbox>>

\* on_confirm_active(): one nobody waits for is ignored, one for another share is an error.
OnConfirmActive ==
    /\ Takes("confirm")
    /\ conn.state = "wait_confirm_active" => Head(up).share = conn.share
    /\ conn' = IF conn.state = "wait_confirm_active"
               THEN [conn EXCEPT !.state = "finalizing", !.confirmed = Head(up).share] ELSE conn
    /\ UNCHANGED <<down, cl, dt, jobs, outbox>>
OnConfirmOther ==
    /\ Arrived("confirm") /\ conn.state = "wait_confirm_active" /\ Head(up).share # conn.share
    /\ Closed

-----------------------------------------------------------------------------
(* Activation, and what the session does of it *)

\* on_event(Activated): the desktop thread first, then the channels, once.
Activated(c) == [c EXCEPT !.state = "active", !.reactivating = FALSE, !.dvc = TRUE]

\* Mutant: a Font List activates whatever state the connection is in.
AlwaysActivates(pdu) ==
    IF pdu.what = "font_list"
    THEN /\ Sent(<<[k |-> "font_map", share |-> conn.share]>>)
         /\ conn' = Activated(conn) /\ Posted(<<[k |-> "activated", size |-> conn.size]>>)
    ELSE UNCHANGED <<conn, down, jobs>>

\* on_data_pdu(), in the share the PDU names.
OnSharePdu(pdu) ==
    CASE pdu.what = "font_list" ->
             /\ Sent(<<[k |-> "font_map", share |-> conn.share]>>)
             /\ IF conn.state = "finalizing"
                THEN conn' = Activated(conn) /\ Posted(<<[k |-> "activated", size |-> conn.size]>>)
                ELSE UNCHANGED <<conn, jobs>>
      [] pdu.what = "input" -> Posted(<<Pdu("input")>>) /\ UNCHANGED <<conn, down>>

\* on_io_data(): a share that is gone gets no answer.
OfOldShare == conn.state = "wait_confirm_active" \/ Head(up).share # conn.share
Shutdown == Head(up).what = "shutdown" /\ ~OfOldShare
OnDataPdu ==
    /\ Takes("data") /\ ~Shutdown
    /\ IF OfOldShare THEN UNCHANGED <<conn, down, jobs>> ELSE OnSharePdu(Head(up))
    /\ UNCHANGED <<cl, dt, outbox>>
OnShutdownRequest == Arrived("data") /\ Shutdown /\ Disconnect

OnFastpathInput ==
    /\ Takes("fast")
    /\ IF conn.state = "wait_confirm_active" THEN UNCHANGED jobs ELSE Posted(<<Pdu("input")>>)
    /\ UNCHANGED <<conn, down, cl, dt, outbox>>

\* DisplayControl::on_message(): a burst of layouts, of which the last counts.
AskedFor(d, size) ==
    IF size = (IF d.pending # NoSize THEN d.pending ELSE d.current) THEN d
    ELSE [d EXCEPT !.pending = IF size = d.current THEN NoSize ELSE size]

\* poll_dynamic_channels(): the channels come up, and layouts arrive on one of them.
OnChannelData ==
    /\ Takes("channel")
    /\ CASE ~conn.dvc -> UNCHANGED <<conn, down, jobs>>
         [] conn.dvc /\ Head(up).what = "dvc_ready" ->
                /\ UNCHANGED <<conn, down>>
                /\ IF "gfx" \in conn.flags THEN Posted(<<Pdu("start_graphics")>>) ELSE UNCHANGED jobs
         [] conn.dvc /\ Head(up).what = "layout" ->
                /\ conn' = [conn EXCEPT !.display = IF conn.display.open THEN AskedFor(@, Head(up).size) ELSE @]
                /\ UNCHANGED <<down, jobs>>
    /\ UNCHANGED <<cl, dt, outbox>>

\* service_display(): the layout that settled goes to the desktop thread.
ServiceDisplay ==
    /\ conn.state = "active" /\ conn.display.pending # NoSize
    /\ conn' = [conn EXCEPT !.display.current = conn.display.pending, !.display.pending = NoSize]
    /\ Posted(<<[k |-> "layout", size |-> conn.display.pending]>>)
    /\ UNCHANGED <<up, down, cl, dt, outbox>>

\* reactivate(): a new share of the new size, and nothing while one is on its way.
Reactivated(size) ==
    LET c == [conn EXCEPT !.state = "wait_confirm_active", !.share = @ + 1, !.size = size, !.reactivating = TRUE]
    IN IF conn.state # "active" THEN UNCHANGED <<conn, down>>
       ELSE conn' = c /\ Sent(<<Pdu("deactivate")>> \o Demand(c))

\* carry_out_desktop_output(), one output; the first layout shown opens display control.
CarryOut ==
    /\ InTime /\ conn.state # "closed" /\ outbox # << >>
    /\ outbox' = Tail(outbox)
    /\ CASE Head(outbox).k = "reactivate" -> Reactivated(Head(outbox).size)
         [] Head(outbox).k = "graphics" -> Sent(<<[k |-> "reset", size |-> Head(outbox).size]>>) /\ UNCHANGED conn
         [] Head(outbox).k = "shown" ->
                /\ conn' = [conn EXCEPT !.display.open = TRUE, !.display.current = Head(outbox).size]
                /\ UNCHANGED down
    /\ UNCHANGED <<up, cl, dt, jobs>>

TimePasses == ~conn.late /\ conn.state # "closed" /\ conn' = [conn EXCEPT !.late = TRUE] /\ UNCHANGED <<up, down, cl, dt, jobs, outbox>>
ActivationTimeout ==
    /\ ~InTime /\ conn.state # "closed"
    /\ Closed

\* The daemon stops the session, or the desktop went away.
Stopped ==
    /\ conn.state # "closed"
    /\ Disconnect

-----------------------------------------------------------------------------
(* The desktop thread *)

Shown(size) == [k |-> "shown", size |-> size]

\* show_layout() and update_output(): with GFX the surfaces are laid out again.
ShowLayout(d, size) ==
    /\ dt' = [d EXCEPT !.layout = size, !.output = size]
    /\ outbox' = outbox \o <<Shown(size)>>
                        \o (IF d.gfx /\ d.output # size THEN <<[k |-> "graphics", size |-> size]>> ELSE << >>)

\* activated(): the size the connection has wins over the layout.
DesktopActivated(size) == LET d == [dt EXCEPT !.session = size] IN ShowLayout(d, size)

\* apply_layout(): without GFX another size needs another share first.
ApplyLayout(size) ==
    IF ~dt.gfx /\ size # dt.session
    THEN /\ dt' = [dt EXCEPT !.layout = size]
         /\ outbox' = outbox \o <<Shown(size), [k |-> "reactivate", size |-> size]>>
    ELSE ShowLayout(dt, size)

\* run(): the next job.
RunJob ==
    /\ jobs # << >> /\ conn.state # "closed"
    /\ jobs' = Tail(jobs)
    /\ CASE Head(jobs).k = "activated" -> DesktopActivated(Head(jobs).size)
         [] Head(jobs).k = "layout" -> ApplyLayout(Head(jobs).size)
         [] Head(jobs).k = "start_graphics" ->
                /\ dt' = [dt EXCEPT !.gfx = TRUE]
                /\ outbox' = outbox \o <<[k |-> "graphics", size |-> dt.output]>>
         [] Head(jobs).k = "input" -> UNCHANGED <<dt, outbox>>
    /\ UNCHANGED <<conn, up, down, cl>>

\* poll_pipeline(), Closed: back to bitmap updates, which may need another desktop size.
GraphicsClosed ==
    /\ dt.gfx /\ conn.state # "closed"
    /\ IF dt.layout # dt.session
       THEN /\ dt' = [dt EXCEPT !.gfx = FALSE]
            /\ outbox' = outbox \o <<Shown(dt.layout), [k |-> "reactivate", size |-> dt.layout]>>
       ELSE ShowLayout([dt EXCEPT !.gfx = FALSE], dt.layout)
    /\ UNCHANGED <<conn, up, down, cl, jobs>>

-----------------------------------------------------------------------------
(* External: a client *)

Says(pdus) == up' = up \o pdus

ClientConnects(flags) ==
    /\ cl.at = "start"
    /\ cl' = [cl EXCEPT !.at = "connecting", !.flags = flags]
    /\ Says(<<[k |-> "initial", flags |-> flags]>>)

\* What a PDU of the server makes the client say.
Answer(pdu, joins) ==
    CASE pdu.k = "response" -> <<Pdu("erect"), Pdu("attach")>>
      [] pdu.k = "attach_confirm" -> (IF joins THEN <<Pdu("join")>> ELSE << >>) \o <<Pdu("info")>>
      [] pdu.k = "probe" -> IF joins THEN <<Pdu("detect")>> ELSE << >>
      [] pdu.k = "demand" -> <<[k |-> "confirm", share |-> pdu.share],
                               [k |-> "data", what |-> "font_list", share |-> pdu.share]>>
      [] pdu.k = "font_map" -> IF cl.at = "connecting" THEN <<[k |-> "channel", what |-> "dvc_ready"]>> ELSE << >>
      [] OTHER -> << >>

ClientReceives(joins) ==
    /\ down # << >>
    /\ down' = Tail(down)
    /\ Says(Answer(Head(down), joins))
    /\ cl' = CASE Head(down).k = "demand" -> [cl EXCEPT !.share = Head(down).share, !.size = Head(down).size]
               [] Head(down).k = "reset" -> [cl EXCEPT !.size = Head(down).size]
               [] Head(down).k = "font_map" -> [cl EXCEPT !.at = "active"]
               [] OTHER -> cl

ClientResizes(size) ==
    /\ cl.at = "active" /\ cl.acts > 0
    /\ cl' = [cl EXCEPT !.acts = @ - 1]
    /\ Says(<<[k |-> "channel", what |-> "layout", size |-> size]>>)

\* Input, a request, or a PDU the state does not expect.
Strays == {Pdu("fast"), Pdu("join"), Pdu("disconnect"), [k |-> "confirm", share |-> cl.share]}
              \union {[k |-> "data", what |-> w, share |-> cl.share] :
                         w \in {"font_list", "shutdown", "input"}}
ClientStrays(pdu) ==
    /\ cl.at # "start" /\ cl.acts > 0
    /\ cl' = [cl EXCEPT !.acts = @ - 1]
    /\ Says(<<pdu>>)

Client ==
    /\ \/ \E flags \in EarlyFlags : ClientConnects(flags) /\ UNCHANGED down
       \/ \E joins \in BOOLEAN : ClientReceives(joins)
       \/ \E size \in DesktopSizes : ClientResizes(size) /\ UNCHANGED down
       \/ \E pdu \in Strays : ClientStrays(pdu) /\ UNCHANGED down
    /\ conn.state # "closed"
    /\ UNCHANGED <<conn, dt, jobs, outbox>>

-----------------------------------------------------------------------------

Receive ==
    \/ Unexpected
    \/ OnDisconnect
    \/ OnConnectInitial
    \/ OnErectDomain
    \/ OnAttachUser
    \/ OnChannelJoin
    \/ OnClientInfo
    \/ OnMessageChannel
    \/ OnConfirmActive
    \/ OnConfirmOther
    \/ OnDataPdu
    \/ OnShutdownRequest
    \/ OnFastpathInput
    \/ OnChannelData

Threads == ServiceDisplay \/ CarryOut \/ RunJob

Timers == ConnectTimeTimeout \/ TimePasses \/ ActivationTimeout

ConnectionNext == Receive \/ Threads \/ Timers \/ Stopped \/ GraphicsClosed \/ Client

ClientAnswers == conn.state # "closed" /\ (\E joins \in BOOLEAN : ClientReceives(joins)) /\ UNCHANGED <<conn, dt, jobs, outbox>>

\* Both threads poll with timeouts, the clock goes on, and a client reads
\* what it is sent.
ConnectionSpec ==
    /\ ConnectionInit /\ [][ConnectionNext]_connVars
    /\ WF_connVars(Receive) /\ WF_connVars(Threads) /\ WF_connVars(Timers)
    /\ WF_connVars(ClientAnswers)

-----------------------------------------------------------------------------
(* Properties *)

\* The session becomes active, and stays so, only in a share whose Demand Active the client
\* confirmed; late PDUs of an earlier share or of an earlier phase do not count.
ActiveIsConfirmed == conn.state = "active" => conn.confirmed = conn.share /\ conn.share > 0

\* Once a client has begun, and after every burst of layouts, the connection, the desktop
\* thread's layout, the picture it encodes and the client agree on one desktop size, or the
\* connection is over.
SizesSettle ==
    conn.state = "wait_erect_domain" ~>
        [](\/ conn.state = "closed"
           \/ conn.state = "active" /\ cl.size = dt.layout /\ dt.output = dt.layout /\ (dt.gfx \/ conn.size = dt.layout))
=============================================================================
