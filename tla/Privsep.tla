------------------------------- MODULE Privsep -------------------------------
(***************************************************************************)
(* Privilege separation: one network process per client does the           *)
(* pre-authentication and TLS and relays the decrypted stream to the       *)
(* session's thread (farland-server/privsep_process.cpp, transport.cpp),   *)
(* asking the monitor to verify what it cannot (server/privsep.cpp).       *)
(*                                                                         *)
(* Client and session exchange numbered pieces; a socket pair holds        *)
(* PipeRoom of them in each direction, and send_all blocks while it is     *)
(* full.  The process may die at any time (a system call the sandbox       *)
(* forbids), the client may close at any time or stop reading.             *)
(***************************************************************************)
EXTENDS Naturals, Sequences

CONSTANTS
    PipeRoom,       \* pieces a socket buffer holds
    ReadRoom,       \* pieces one read of the client's takes
    ClientPieces,   \* bound: pieces the client sends after its login
    SessionPieces   \* bound: pieces the session sends

VARIABLES
    child,      \* the network process: state, what it is doing, what it still has to ask, what it has to pass on
    mon,        \* the monitor's thread, and the session it becomes
    peer,       \* the client
    control,    \* the control channel: the process's message, the monitor's answer
    plainUp,    \* the plaintext stream, to the session
    plainDown   \* how many pieces are in the plaintext stream to the process

privsepVars == <<child, mon, peer, control, plainUp, plainDown>>

(* What a login asks of the monitor.  Kerberos is driven one operation at a *)
(* time; a connection without NLA asks nothing.                             *)
Logins ==
    [ntlm |-> <<"verify_ntlm", "verify_password">>,
     kerberos |-> <<"kerberos_step", "kerberos_unwrap", "kerberos_wrap", "kerberos_unwrap">>,
     tls |-> << >>]

Nothing == [ask |-> "none", answer |-> "none"]

PrivsepInit ==
    /\ child = [state |-> "none", doing |-> "poll", asks |-> << >>, have |-> << >>, nla |-> FALSE]
    /\ mon = [state |-> "accepted", verified |-> FALSE, context |-> FALSE, owes |-> 0, made |-> 0, got |-> 0]
    /\ peer = [open |-> TRUE, sent |-> 0, taken |-> 0, reading |-> TRUE]
    /\ control = Nothing
    /\ plainUp = << >>
    /\ plainDown = 0

Alive == child.state \in {"preauth", "relay"}

(* The end of run_network_child, or the process's death: all its            *)
(* descriptors close, the client's socket among them.                       *)
Exits ==
    /\ child' = [child EXCEPT !.state = "exited", !.doing = "poll", !.asks = << >>, !.have = << >>]
    /\ peer' = [peer EXCEPT !.open = FALSE, !.reading = TRUE]

-----------------------------------------------------------------------------
(* The monitor                                                               *)

(* authenticate_monitored: the socket pairs and the process, or neither.    *)
SpawnChild ==
    /\ mon.state = "accepted"
    /\ \/ \E login \in DOMAIN Logins :
            /\ child' = [child EXCEPT !.state = "preauth", !.asks = Logins[login], !.nla = login # "tls"]
            /\ mon' = [mon EXCEPT !.state = "await"]
            /\ UNCHANGED peer
       \/ /\ mon' = [mon EXCEPT !.state = "done"]
          /\ peer' = [peer EXCEPT !.open = FALSE]
          /\ UNCHANGED child
    /\ UNCHANGED <<control, plainUp, plainDown>>

(* MonitorService::handle and handle_kerberos: a verification succeeds or   *)
(* not; an identity is believed only after one that did, and an operation   *)
(* on a context only after its first step.                                  *)
MonitorAnswers ==
    /\ mon.state = "await" /\ control.ask \in {"verify_ntlm", "verify_password", "kerberos_step", "kerberos_wrap", "kerberos_unwrap"}
    /\ \E ok \in BOOLEAN :
        /\ control' = [ask |-> "none", answer |-> IF ok THEN "yes" ELSE "no"]
        /\ mon' = [mon EXCEPT !.verified = @ \/ (ok /\ control.ask \in {"verify_ntlm", "kerberos_step"}),
                              !.context = @ \/ control.ask = "kerberos_step"]
    /\ control.ask \in {"kerberos_wrap", "kerberos_unwrap"} => mon.context
    /\ UNCHANGED <<child, peer, plainUp, plainDown>>

(* The report of a finished pre-authentication starts the session.          *)
TakeAuthenticated ==
    /\ mon.state = "await" /\ control.ask = "authenticated"
    /\ mon' = [mon EXCEPT !.state = IF child.nla /\ ~mon.verified THEN "refused" ELSE "session"]
    /\ control' = Nothing
    /\ UNCHANGED <<child, peer, plainUp, plainDown>>

(* await_authentication gives up: the process ended, it took too long, or   *)
(* the server stops.                                                        *)
AwaitEnds ==
    /\ mon.state = "await" /\ control.ask = "none"
    /\ mon' = [mon EXCEPT !.state = "refused"]
    /\ UNCHANGED <<child, peer, control, plainUp, plainDown>>

LeaveAtOnce ==
    /\ mon.state \in {"refused", "closed"}
    /\ mon' = [mon EXCEPT !.state = "done"]
    /\ UNCHANGED <<child, peer, control, plainUp, plainDown>>

(* ~ChildProcess: reaped when it exits, killed after two seconds.           *)
ReapChild ==
    /\ mon.state \in {"refused", "closed"}
    /\ mon' = [mon EXCEPT !.state = "done"]
    /\ child' = [child EXCEPT !.state = "reaped", !.doing = "poll", !.asks = << >>, !.have = << >>]
    /\ peer' = [peer EXCEPT !.open = FALSE, !.reading = TRUE]
    /\ control' = Nothing
    /\ plainUp' = << >> /\ plainDown' = 0

-----------------------------------------------------------------------------
(* The session's thread on a PlainTransport                                 *)

Polling == mon.state = "session" /\ mon.owes = 0

SessionReads ==
    /\ Polling /\ plainUp # << >>
    /\ mon' = [mon EXCEPT !.got = Head(plainUp)]
    /\ plainUp' = Tail(plainUp)
    /\ UNCHANGED <<child, peer, control, plainDown>>

(* pump: what the turn of the loop produced goes out before the next read.  *)
SessionProduces ==
    /\ Polling /\ mon.made < SessionPieces
    /\ \E n \in 1..(SessionPieces - mon.made) : mon' = [mon EXCEPT !.owes = n, !.made = @ + n]
    /\ UNCHANGED <<child, peer, control, plainUp, plainDown>>

(* send_all on the session's end: blocks while the buffer is full, fails    *)
(* once the process is gone.                                                *)
SessionPushes ==
    /\ mon.state = "session" /\ mon.owes > 0
    /\ \/ /\ Alive /\ plainDown < PipeRoom
          /\ plainDown' = plainDown + 1
          /\ mon' = [mon EXCEPT !.owes = @ - 1]
       \/ /\ ~Alive
          /\ mon' = [mon EXCEPT !.state = "closed", !.owes = 0]
          /\ UNCHANGED plainDown
    /\ UNCHANGED <<child, peer, control, plainUp>>

(* The stream ended, or the server stops: the session closes its end.       *)
SessionEnds ==
    /\ Polling
    /\ mon' = [mon EXCEPT !.state = "closed"]
    /\ UNCHANGED <<child, peer, control, plainUp, plainDown>>

SessionNoticesEnd == ~Alive /\ plainUp = << >> /\ SessionEnds

-----------------------------------------------------------------------------
(* The network process                                                       *)

AtPoll == child.doing = "poll"

(* The client's next token makes the acceptor ask the monitor, and wait.    *)
ChildAsks ==
    /\ child.state = "preauth" /\ AtPoll /\ child.asks # << >> /\ peer.open /\ control = Nothing
    /\ control' = [ask |-> Head(child.asks), answer |-> "none"]
    /\ child' = [child EXCEPT !.doing = "ask", !.asks = Tail(@)]
    /\ UNCHANGED <<mon, peer, plainUp, plainDown>>

(* read_frame: the answer, or the monitor is gone or slow.                  *)
ChildTakesAnswer ==
    /\ child.state = "preauth" /\ child.doing = "ask"
    /\ \/ control.answer = "yes" /\ child' = [child EXCEPT !.doing = "poll"] /\ UNCHANGED peer
       \/ (control.answer = "no" \/ mon.state # "await") /\ Exits
    /\ control' = Nothing
    /\ UNCHANGED <<mon, plainUp, plainDown>>

(* Pieces of the client's a read takes, having been sent after its login.   *)
Pieces(n) == [i \in 1..n |-> peer.taken + i]

(* The read that completes pre-authentication reports it and passes on the  *)
(* bytes behind it.                                                         *)
ChildReports(n) ==
    /\ child.state = "preauth" /\ AtPoll /\ child.asks = << >> /\ peer.open /\ control = Nothing
    /\ peer.taken + n <= peer.sent
    /\ IF mon.state = "await"
       THEN /\ control' = [ask |-> "authenticated", answer |-> "none"]
            /\ child' = [child EXCEPT !.state = "relay", !.doing = IF n = 0 THEN "poll" ELSE "up", !.have = Pieces(n)]
            /\ peer' = [peer EXCEPT !.taken = @ + n]
       ELSE Exits /\ UNCHANGED control
    /\ UNCHANGED <<mon, plainUp, plainDown>>

(* A turn of the relay's loop with bytes from the client.                   *)
ChildReads(n) ==
    /\ child.state = "relay" /\ AtPoll /\ n > 0 /\ peer.taken + n <= peer.sent
    /\ child' = [child EXCEPT !.doing = "up", !.have = Pieces(n)]
    /\ peer' = [peer EXCEPT !.taken = @ + n]
    /\ UNCHANGED <<mon, control, plainUp, plainDown>>

SessionOpen == mon.state \in {"await", "session"}

(* send_all on the process's end of the plaintext stream.                   *)
ChildPushes ==
    /\ child.state = "relay" /\ child.doing = "up"
    /\ \/ /\ SessionOpen /\ Len(plainUp) < PipeRoom
          /\ plainUp' = Append(plainUp, Head(child.have))
          /\ child' = [child EXCEPT !.have = Tail(@), !.doing = IF Len(child.have) = 1 THEN "poll" ELSE "up"]
          /\ UNCHANGED peer
       \/ ~SessionOpen /\ Exits /\ UNCHANGED plainUp
    /\ UNCHANGED <<mon, control, plainDown>>

(* A turn with bytes from the session: TLS to the client, which blocks      *)
(* while a client does not read.                                            *)
ChildWrites ==
    /\ child.state = "relay" /\ AtPoll
    /\ \/ /\ plainDown > 0
          /\ plainDown' = plainDown - 1
          /\ child' = [child EXCEPT !.doing = "down"]
          /\ UNCHANGED peer
       \/ plainDown = 0 /\ ~SessionOpen /\ Exits /\ UNCHANGED plainDown
    /\ UNCHANGED <<mon, control, plainUp>>

ChildDelivers ==
    /\ child.state = "relay" /\ child.doing = "down"
    /\ \/ peer.open /\ peer.reading /\ child' = [child EXCEPT !.doing = "poll"] /\ UNCHANGED peer
       \/ ~peer.open /\ Exits
    /\ UNCHANGED <<mon, control, plainUp, plainDown>>

DeafToClient ==
    /\ Alive /\ AtPoll /\ child.state = "preauth"
    /\ Exits
    /\ UNCHANGED <<mon, control, plainUp, plainDown>>

(* network.read finds the client gone, or pre-authentication took too long. *)
ChildEnds ==
    /\ Alive /\ AtPoll
    /\ child.state = "preauth" \/ (~peer.open /\ peer.taken = peer.sent)
    /\ Exits
    /\ UNCHANGED <<mon, control, plainUp, plainDown>>

-----------------------------------------------------------------------------
(* The client, and faults                                                   *)

PeerSends ==
    /\ peer.open /\ child.state \in {"preauth", "relay"} /\ child.asks = << >> /\ peer.sent < ClientPieces
    /\ peer' = [peer EXCEPT !.sent = @ + 1]
    /\ UNCHANGED <<child, mon, control, plainUp, plainDown>>

PeerCloses ==
    /\ peer.open /\ Alive
    /\ peer' = [peer EXCEPT !.open = FALSE, !.reading = TRUE]
    /\ UNCHANGED <<child, mon, control, plainUp, plainDown>>

PeerStalls ==
    /\ peer.open /\ child.state = "relay"
    /\ peer' = [peer EXCEPT !.reading = ~@]
    /\ UNCHANGED <<child, mon, control, plainUp, plainDown>>

ChildDies ==
    /\ Alive /\ Exits
    /\ UNCHANGED <<mon, control, plainUp, plainDown>>

NetworkProcess ==
    \/ ChildAsks \/ ChildTakesAnswer \/ ChildPushes \/ ChildWrites \/ ChildDelivers \/ ChildEnds
    \/ \E n \in 0..ReadRoom : ChildReports(n) \/ ChildReads(n)

SessionThread == SessionReads \/ SessionPushes \/ SessionNoticesEnd

Monitor == SpawnChild \/ MonitorAnswers \/ TakeAuthenticated \/ AwaitEnds \/ ReapChild

PrivsepNext ==
    \/ NetworkProcess \/ SessionThread \/ Monitor
    \/ SessionProduces \/ SessionEnds
    \/ PeerSends \/ PeerCloses \/ PeerStalls \/ ChildDies

PrivsepSpec ==
    /\ PrivsepInit /\ [][PrivsepNext]_privsepVars
    /\ WF_<<child, plainDown>>(NetworkProcess) /\ WF_<<mon, plainUp>>(SessionThread)
    /\ WF_<<mon, control>>(Monitor)

(* The scheduler runs both processes; SIGKILL and the time-outs come.       *)

-----------------------------------------------------------------------------
(* The session receives what the client sent after its login, in order and  *)
(* without a gap, wherever the pieces are between the two processes.        *)
RelayInOrder ==
    LET under_way == plainUp \o child.have
    IN /\ \A i \in DOMAIN under_way : under_way[i] = mon.got + i
       /\ child.state = "relay" => peer.taken = mon.got + Len(under_way)

(* A monitor that is done with a client left no process behind.             *)
NoOrphan == mon.state = "done" => child.state \in {"none", "reaped"}

(* Both ends in send_all with both buffers full: neither reads, so neither  *)
(* can go on, and the client's end is not noticed.                          *)
BothBlocked ==
    /\ child.doing = "up" /\ Len(plainUp) = PipeRoom
    /\ mon.state = "session" /\ mon.owes > 0 /\ plainDown = PipeRoom

(* "Nothing lingers: a network process ends with its client or its agent"   *)
(* (docs/ROADMAP.md), unless the two block each other.                      *)
NothingLingers ==
    [](~peer.open \/ mon.state \in {"refused", "closed"} => <>(child.state \in {"none", "reaped"} \/ BothBlocked))

\* Parent and child: what the child relays arrives in order and without a
\* gap, and a monitor that is done with a client left no process behind.
PrivsepCorrect ==
    /\ RelayInOrder
    /\ NoOrphan
=============================================================================
