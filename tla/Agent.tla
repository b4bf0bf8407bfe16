-------------------------------- MODULE Agent --------------------------------
(***************************************************************************)
(* farland-agent (apps/farland-agent/agent.cpp), one per session: it owns  *)
(* the desktop and the client's socket, asks the user the questions        *)
(* farlandd sends, and looks for the next farlandd when this one is gone.  *)
(***************************************************************************)
EXTENDS Integers, Sequences, Broker, ConsentBroker

CONSTANTS
    KeepsDesktop,  \* Desktop::keep_when_released()
    MayLock,       \* the session may be locked at the machine
    MayFail,       \* agents may crash, hang, or fail to make a desktop
    MayIdle,       \* a client's user may be idle for as long as idle_timeout
    Heartbeats     \* agents send Stats; without restarts and idle_timeout
                   \* nothing depends on them

ASSUME AgentAssumption == {KeepsDesktop, MayLock, MayFail, MayIdle, Heartbeats} \subseteq BOOLEAN

VARIABLES
    current,   \* the client of current_, or NoClient
    over,      \* its connection was stopped or its session thread ended
    prompt,    \* the connection prompt_ asks about, or 0
    desktop,   \* desktop_: never made, up, or released
    gone       \* daemon_gone_

agentVars == <<current, over, prompt, desktop, gone>>

AgentInit ==
    /\ current = [t \in Agents |-> NoClient]
    /\ over = [t \in Agents |-> FALSE]
    /\ prompt = [t \in Agents |-> 0]
    /\ desktop = [t \in Agents |-> "never"]
    /\ gone = [t \in Agents |-> FALSE]

AgentTypeOK ==
    /\ current \in [Agents -> Clients \cup {NoClient}]
    /\ over \in [Agents -> BOOLEAN]
    /\ prompt \in [Agents -> Int]
    /\ desktop \in [Agents -> {"never", "up", "released"}]
    /\ gone \in [Agents -> BOOLEAN]

(* send(): a message reaches farlandd while its end is open, and the first *)
(* one that does not says that farlandd is gone.                           *)
Connected(t) == agentEnd[t] /\ daemonEnd[t] # "none" /\ ~gone[t]

Send(t, messages) ==
    /\ toDaemon' = [toDaemon EXCEPT ![t] = IF Connected(t) THEN @ \o messages ELSE @]
    /\ gone' = [gone EXCEPT ![t] = @ \/ (messages # << >> /\ ~Connected(t))]

Serving(t) == Clients \cap {current[t]}

(* Clients whose descriptor is under way to an agent.                      *)
UnderWay(t) ==
    {c \in Clients : \E i \in DOMAIN toAgent[t] : toAgent[t][i] = NewConnection(c)}

EndClients(cs) == [c \in Clients |-> IF c \in cs THEN "ended" ELSE client[c]]

(* What join_connection() tells farlandd.                                  *)
Leaving(t) == IF current[t] # NoClient THEN <<Disconnect(connOf[current[t]])>> ELSE << >>

AfterRelease(t) == IF desktop[t] = "up" /\ ~KeepsDesktop THEN "released" ELSE desktop[t]

-----------------------------------------------------------------------------
(* finish() and what ends the process.  `said' went out before.            *)
Finish(t, said) ==
    /\ toDaemon' = [toDaemon EXCEPT ![t] =
                      IF Connected(t) THEN @ \o said \o <<SessionEnded>> ELSE @]
    /\ process' = [process EXCEPT ![t] = "exited"]
    /\ agentEnd' = [agentEnd EXCEPT ![t] = FALSE]
    /\ toAgent' = [toAgent EXCEPT ![t] = << >>]
    /\ client' = EndClients(Serving(t) \cup UnderWay(t))
    /\ current' = [current EXCEPT ![t] = NoClient]
    /\ over' = [over EXCEPT ![t] = FALSE]
    /\ prompt' = [prompt EXCEPT ![t] = 0]
    /\ desktop' = [desktop EXCEPT ![t] = "released"]
    /\ gone' = [gone EXCEPT ![t] = TRUE]
    /\ UNCHANGED <<connOf, signalled, daemonEnd, inbox>>

Running(t) == process[t] = "running"

(* SIGTERM; an agent that has not connected yet just exits.                *)
StopAgent(t) ==
    /\ t \in signalled
    /\ \/ Running(t) /\ Finish(t, Leaving(t))
       \/ /\ process[t] \in {"starting", "hung"}
          /\ process' = [process EXCEPT ![t] = "exited"]
          /\ agentEnd' = [agentEnd EXCEPT ![t] = FALSE]
          /\ client' = EndClients(Serving(t) \cup UnderWay(t))
          /\ current' = [current EXCEPT ![t] = NoClient]
          /\ toAgent' = [toAgent EXCEPT ![t] = << >>]
          /\ UNCHANGED <<connOf, signalled, daemonEnd, toDaemon, inbox>>
          /\ UNCHANGED <<over, prompt, desktop, gone>>

(* The process dies, or stops running with its socket open.                *)
AgentDies(t) ==
    /\ MayFail /\ process[t] \in {"starting", "running", "hung"}
    /\ process' = [process EXCEPT ![t] = "exited"]
    /\ agentEnd' = [agentEnd EXCEPT ![t] = FALSE]
    /\ client' = EndClients(Serving(t) \cup UnderWay(t))
    /\ current' = [current EXCEPT ![t] = NoClient]
    /\ toAgent' = [toAgent EXCEPT ![t] = << >>]
    /\ UNCHANGED <<connOf, signalled, daemonEnd, toDaemon, inbox>>
    /\ UNCHANGED <<over, prompt, desktop, gone>>

AgentHangs(t) ==
    /\ MayFail /\ Running(t)
    /\ process' = [process EXCEPT ![t] = "hung"]
    /\ UNCHANGED <<client, connOf, signalled, agentEnd, daemonEnd, toAgent, toDaemon, inbox>>
    /\ UNCHANGED agentVars

(* main() and run(): connect and greet, or exit.                           *)
OpenSocket(t) ==
    /\ agentEnd' = [agentEnd EXCEPT ![t] = TRUE]
    /\ daemonEnd' = [daemonEnd EXCEPT ![t] = "queued"]
    /\ toAgent' = [toAgent EXCEPT ![t] = << >>]
    /\ inbox' = [inbox EXCEPT ![t] = 0]
    /\ gone' = [gone EXCEPT ![t] = FALSE]

Greet(t, listening) ==
    /\ process[t] = "starting" /\ t \notin signalled
    /\ \/ /\ listening
          /\ process' = [process EXCEPT ![t] = "running"]
          /\ OpenSocket(t)
       \/ /\ ~listening
          /\ process' = [process EXCEPT ![t] = "exited"]
          /\ UNCHANGED <<agentEnd, daemonEnd, toAgent, inbox, gone>>
    /\ UNCHANGED <<client, connOf, signalled, toDaemon, current, over, prompt, desktop>>

-----------------------------------------------------------------------------
(* The connection's own thread, and the loop's turns without a message.    *)

(* run_session() returns: the client left, or was told to.                 *)
ConnectionEnds(t) ==
    /\ process[t] \in {"running", "hung"} /\ current[t] # NoClient /\ ~over[t]
    /\ over' = [over EXCEPT ![t] = TRUE]
    /\ UNCHANGED <<sharedVars, current, prompt, desktop, gone>>

JoinConnection(t) ==
    /\ Running(t) /\ current[t] # NoClient /\ over[t]
    /\ Send(t, Leaving(t))
    /\ client' = EndClients(Serving(t))
    /\ current' = [current EXCEPT ![t] = NoClient]
    /\ over' = [over EXCEPT ![t] = FALSE]
    /\ desktop' = [desktop EXCEPT ![t] = AfterRelease(t)]
    /\ UNCHANGED <<connOf, process, signalled, agentEnd, daemonEnd, toAgent, inbox, prompt>>

FinishPrompt(t) ==
    /\ Running(t) /\ agentEnd[t] /\ prompt[t] # 0
    /\ \E answer \in Answers : Send(t, <<ConsentReply(prompt[t], answer)>>)
    /\ prompt' = [prompt EXCEPT ![t] = 0]
    /\ UNCHANGED <<client, connOf, process, signalled, agentEnd, daemonEnd, toAgent, inbox>>
    /\ UNCHANGED <<current, over, desktop>>

DesktopCloses(t) ==
    /\ Running(t) /\ desktop[t] = "up"
    /\ Finish(t, Leaving(t))

Idleness == {FALSE} \cup {b \in {TRUE} : MayIdle}

(* Bound: one Stats under way at a time that farlandd has not taken.        *)
SendStats(t) ==
    /\ Heartbeats /\ Running(t) /\ agentEnd[t]
    /\ \A i \in (inbox[t] + 1)..Len(toDaemon[t]) : toDaemon[t][i].type # "stats"
    /\ \/ /\ current[t] # NoClient
          /\ \E idle \in Idleness : Send(t, <<Stats(connOf[current[t]], idle)>>)
       \/ current[t] = NoClient /\ Send(t, <<Stats(0, FALSE)>>)
    /\ UNCHANGED <<client, connOf, process, signalled, agentEnd, daemonEnd, toAgent, inbox>>
    /\ UNCHANGED <<current, over, prompt, desktop>>

-----------------------------------------------------------------------------
(* Messages from farlandd, one per turn.                                   *)

Message(t, type) ==
    /\ Running(t) /\ agentEnd[t] /\ toAgent[t] # << >>
    /\ Head(toAgent[t]).type = type

Taken(t) == toAgent' = [toAgent EXCEPT ![t] = Tail(@)]

(* Messages that change nothing here: the settings, the seat's decision.   *)
OnNotice(t) ==
    /\ Message(t, "settings") \/ Message(t, "seat_takeover")
    /\ Taken(t)
    /\ UNCHANGED <<client, connOf, process, signalled, agentEnd, daemonEnd, toDaemon, inbox>>
    /\ UNCHANGED agentVars

(* on_new_connection(): a connection that is there is stopped and joined   *)
(* first; without a desktop one is made, which may fail.                   *)
OnNewConnection(t) ==
    LET c == Head(toAgent[t]).client
        made == IF current[t] = NoClient THEN desktop[t] ELSE AfterRelease(t)
    IN
    /\ Message(t, "new_connection")
    /\ \/ /\ Taken(t)
          /\ Send(t, Leaving(t))
          /\ client' = EndClients(Serving(t))
          /\ current' = [current EXCEPT ![t] = c]
          /\ over' = [over EXCEPT ![t] = FALSE]
          /\ desktop' = [desktop EXCEPT ![t] = "up"]
          /\ UNCHANGED <<connOf, process, signalled, agentEnd, daemonEnd, inbox, prompt>>
       \/ /\ made = "released" /\ MayLock
          /\ Taken(t)
          /\ Send(t, Leaving(t) \o <<Disconnect(connOf[c])>>)
          /\ client' = EndClients(Serving(t) \cup {c})
          /\ current' = [current EXCEPT ![t] = NoClient]
          /\ over' = [over EXCEPT ![t] = FALSE]
          /\ desktop' = [desktop EXCEPT ![t] = made]
          /\ UNCHANGED <<connOf, process, signalled, agentEnd, daemonEnd, inbox, prompt>>
       \/ /\ made # "up" /\ MayFail
          /\ Finish(t, Leaving(t))

OnDisconnect(t) ==
    /\ Message(t, "disconnect")
    /\ Taken(t)
    /\ over' = [over EXCEPT ![t] =
                  @ \/ (current[t] # NoClient
                        /\ connOf[current[t]] = Head(toAgent[t]).connection)]
    /\ UNCHANGED <<client, connOf, process, signalled, agentEnd, daemonEnd, toDaemon, inbox>>
    /\ UNCHANGED <<current, prompt, desktop, gone>>

(* start_prompt(): one question at a time, the newest.                     *)
OnConsentRequest(t) ==
    /\ Message(t, "consent_request")
    /\ Taken(t)
    /\ prompt' = [prompt EXCEPT ![t] = Head(toAgent[t]).connection]
    /\ UNCHANGED <<client, connOf, process, signalled, agentEnd, daemonEnd, toDaemon, inbox>>
    /\ UNCHANGED <<current, over, desktop, gone>>

OnConsentCancel(t) ==
    /\ Message(t, "consent_cancel")
    /\ Taken(t)
    /\ prompt' = [prompt EXCEPT ![t] = IF @ = Head(toAgent[t]).connection THEN 0 ELSE @]
    /\ UNCHANGED <<client, connOf, process, signalled, agentEnd, daemonEnd, toDaemon, inbox>>
    /\ UNCHANGED <<current, over, desktop, gone>>

OnTerminate(t) ==
    /\ Message(t, "terminate")
    /\ Finish(t, Leaving(t))

-----------------------------------------------------------------------------
(* farlandd went away: reattach().                                         *)

LoseDaemon(t) ==
    /\ Running(t) /\ agentEnd[t]
    /\ gone[t] \/ (toAgent[t] = << >> /\ daemonEnd[t] = "none")
    /\ agentEnd' = [agentEnd EXCEPT ![t] = FALSE]
    /\ toAgent' = [toAgent EXCEPT ![t] = << >>]
    /\ client' = EndClients(UnderWay(t))
    /\ gone' = [gone EXCEPT ![t] = TRUE]
    /\ UNCHANGED <<connOf, process, signalled, daemonEnd, toDaemon, inbox>>
    /\ UNCHANGED <<current, over, prompt, desktop>>

(* Who is connected has to be reported again.                              *)
Reattach(t, listening) ==
    /\ Running(t) /\ ~agentEnd[t] /\ listening
    /\ OpenSocket(t)
    /\ \E idle \in Idleness :
         toDaemon' = [toDaemon EXCEPT ![t] =
             IF current[t] # NoClient THEN <<Stats(connOf[current[t]], idle)>> ELSE << >>]
    /\ UNCHANGED <<client, connOf, process, signalled, current, over, prompt, desktop>>

(* It tries twice a second for two minutes.                                *)
GiveUp(t, listening) ==
    /\ Running(t) /\ ~agentEnd[t] /\ ~listening
    /\ Finish(t, << >>)

AgentNext(t, listening) ==
    \/ StopAgent(t) \/ AgentDies(t) \/ AgentHangs(t) \/ Greet(t, listening)
    \/ ConnectionEnds(t) \/ JoinConnection(t) \/ FinishPrompt(t) \/ DesktopCloses(t)
    \/ SendStats(t)
    \/ OnNotice(t) \/ OnNewConnection(t) \/ OnDisconnect(t) \/ OnConsentRequest(t)
    \/ OnConsentCancel(t) \/ OnTerminate(t)
    \/ LoseDaemon(t) \/ Reattach(t, listening) \/ GiveUp(t, listening)
=============================================================================
