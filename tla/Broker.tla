------------------------------- MODULE Broker -------------------------------
(***************************************************************************)
(* What farlandd and the farland-agent processes share: the agents'        *)
(* processes, the broker socket of each with the messages of the broker    *)
(* protocol under way on it (src/farland/server/broker.hpp), and the       *)
(* clients whose connections go from one to the other.  An agent is named  *)
(* by the token it was started with.  A hello is part of connecting:       *)
(* toDaemon holds what the agent said after it.                            *)
(***************************************************************************)
EXTENDS Integers, Sequences

CONSTANTS
    Clients,    \* RDP clients; each connects once
    NoClient,   \* no client
    Agents      \* agent processes

ASSUME BrokerAssumption == NoClient \notin Clients

VARIABLES
    client,     \* what became of each client
    connOf,     \* the connection number accept_client() gave a client, or 0
    process,    \* the state of each agent's process
    signalled,  \* agents that were sent SIGTERM or whose unit was stopped
    agentEnd,   \* the agent holds its end of the socket open
    daemonEnd,  \* where farlandd keeps its end of the socket
    toAgent,    \* messages under way to the agent
    toDaemon,   \* messages under way to farlandd
    inbox       \* how many of these farlandd took with the hello, unparsed

sharedVars == <<client, connOf, process, signalled, agentEnd, daemonEnd,
                toAgent, toDaemon, inbox>>

ClientStates == {
    "new", "logging_in",  \* not accepted yet; in the network process
    "posted",             \* Authenticated in farlandd's mailbox
    "kept",               \* waiting for an agent or for an answer
    "given",              \* handed to an agent
    "refused", "dropped", \* told why, or just closed
    "ended"}              \* its agent is done with it

ProcessStates == {"none", "launching", "starting", "running", "hung", "exited"}

(* Messages from farlandd.                                                 *)
Settings == [type |-> "settings"]
NewConnection(c) == [type |-> "new_connection", client |-> c]
Disconnect(n) == [type |-> "disconnect", connection |-> n]
ConsentRequest(n) == [type |-> "consent_request", connection |-> n]
ConsentCancel(n) == [type |-> "consent_cancel", connection |-> n]
SeatTakeover(b) == [type |-> "seat_takeover", allowed |-> b]
Terminate == [type |-> "terminate"]

(* Messages from an agent; both sides send Disconnect.                     *)
ConsentReply(n, answer) ==
    [type |-> "consent_reply", connection |-> n, answer |-> answer]
SessionEnded == [type |-> "session_ended"]
Stats(n, idle) == [type |-> "stats", connection |-> n, idle |-> idle]
Hello == [type |-> "hello"]

AgentMessage ==
    [type: {"hello", "session_ended"}]
    \cup [type: {"disconnect"}, connection: Nat]
    \cup [type: {"stats"}, connection: Nat, idle: BOOLEAN]
    \cup [type: {"consent_reply"}, connection: Int,
          answer: {"allowed", "denied", "timed_out", "unavailable"}]

BrokerInit ==
    /\ client = [c \in Clients |-> "new"]
    /\ connOf = [c \in Clients |-> 0]
    /\ process = [t \in Agents |-> "none"]
    /\ signalled = {}
    /\ agentEnd = [t \in Agents |-> FALSE]
    /\ daemonEnd = [t \in Agents |-> "none"]
    /\ toAgent = [t \in Agents |-> << >>]
    /\ toDaemon = [t \in Agents |-> << >>]
    /\ inbox = [t \in Agents |-> 0]

BrokerTypeOK ==
    /\ client \in [Clients -> ClientStates]
    /\ connOf \in [Clients -> Nat]
    /\ process \in [Agents -> ProcessStates]
    /\ signalled \subseteq Agents
    /\ agentEnd \in [Agents -> BOOLEAN]
    /\ daemonEnd \in [Agents -> {"none", "queued", "unclaimed", "session"}]
    /\ DOMAIN toAgent = Agents
    /\ toDaemon \in [Agents -> Seq(AgentMessage)]
    /\ inbox \in [Agents -> Nat]
=============================================================================
