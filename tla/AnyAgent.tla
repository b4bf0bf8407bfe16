------------------------------ MODULE AnyAgent ------------------------------
(***************************************************************************)
(* farlandd with agents that say whatever the protocol lets an agent say,  *)
(* in any order and about any connection, stay silent, or go away at any   *)
(* moment: an agent of another version, one that repeats itself or answers *)
(* late.  What farlandd keeps in order by itself it keeps in order here.   *)
(***************************************************************************)
EXTENDS Farlandd

CONSTANTS
    Numbers,   \* the connections an agent may talk about
    Replies,   \* the answers it may give
    MaxSaid    \* bound: messages under way from one agent

ASSUME AnyAgentAssumption == Numbers \subseteq Int /\ Replies \subseteq Answers /\ MaxSaid \in Nat

anyVars == <<farlanddVars, sharedVars, gateVars, busVars>>

Sayable ==
    {Hello, SessionEnded}
    \cup [type: {"disconnect"}, connection: Numbers \cap Nat]
    \cup [type: {"stats"}, connection: Numbers \cap Nat, idle: {FALSE, IdleTimeout}]
    \cup [type: {"consent_reply"}, connection: Numbers, answer: Replies]

AgentConnects(t) ==
    /\ process[t] = "starting" /\ running \in {"up", "stopping"}
    /\ process' = [process EXCEPT ![t] = "running"]
    /\ agentEnd' = [agentEnd EXCEPT ![t] = TRUE]
    /\ daemonEnd' = [daemonEnd EXCEPT ![t] = "queued"]
    /\ toAgent' = [toAgent EXCEPT ![t] = << >>]
    /\ toDaemon' = [toDaemon EXCEPT ![t] = << >>]
    /\ inbox' = [inbox EXCEPT ![t] = 0]
    /\ UNCHANGED <<client, connOf, signalled>>

AgentSays(t) ==
    /\ agentEnd[t] /\ daemonEnd[t] # "none" /\ Len(toDaemon[t]) < MaxSaid
    /\ \E m \in Sayable : toDaemon' = [toDaemon EXCEPT ![t] = Append(@, m)]
    /\ UNCHANGED <<client, connOf, process, signalled, agentEnd, daemonEnd, toAgent, inbox>>

(* What farlandd says changes nothing about what such an agent does.       *)
AgentHears(t) ==
    /\ toAgent[t] # << >>
    /\ toAgent' = [toAgent EXCEPT ![t] = << >>]
    /\ UNCHANGED <<client, connOf, process, signalled, agentEnd, daemonEnd, toDaemon, inbox>>

(* It exits, with what it said last still under way.                       *)
AgentLeaves(t) ==
    /\ agentEnd[t]
    /\ agentEnd' = [agentEnd EXCEPT ![t] = FALSE]
    /\ process' = [process EXCEPT ![t] = "exited"]
    /\ UNCHANGED <<client, connOf, signalled, daemonEnd, toAgent, toDaemon, inbox>>

AnyAgentStep(t) ==
    AgentConnects(t) \/ AgentSays(t) \/ AgentLeaves(t)

AnyInit == BrokerInit /\ GateInit /\ FarlanddInit

Quiet == \A t \in Agents : toAgent[t] = << >>

(* Bound: what farlandd says is read before anything else happens.         *)
AnyNext ==
    \/ Quiet /\ FarlanddNext
    \/ \E t \in Agents :
         /\ AgentHears(t) \/ (Quiet /\ AnyAgentStep(t))
         /\ UNCHANGED <<farlanddVars, gateVars, busVars>>

AnySpec == AnyInit /\ [][AnyNext]_anyVars
=============================================================================
