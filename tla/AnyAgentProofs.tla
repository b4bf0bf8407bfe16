--------------------------- MODULE AnyAgentProofs ---------------------------
(***************************************************************************)
(* farlandd keeps FInv with agents that say whatever the protocol lets     *)
(* them say, for every number of clients, agents and restarts.             *)
(***************************************************************************)
EXTENDS AnyAgent, FarlanddProofs

(* A step that is not farlandd's and leaves its variables, the gate and    *)
(* the clients alone.                                                      *)
LEMMA OutsideOK ==
    ASSUME FInv, BrokerTypeOK', UNCHANGED <<farlanddVars, gateVars, busVars, client, connOf>>
    PROVE  FInv'
<1>1. RestTypeOK'
  BY DEF FInv, RestTypeOK, farlanddVars, gateVars
<1>2. GateTypeOK'
  BY DEF FInv, GateTypeOK, gateVars, busVars
<1>3. Sound(live', registry', connOf') /\ GivenTo(client', connOf') /\ TableOK'
  BY DEF FInv, TableOK, farlanddVars
<1>. QED  BY <1>1, <1>2, <1>3 DEF FInv

LEMMA SayableOK == Sayable \subseteq AgentMessage
<1>1. Hello \in AgentMessage /\ SessionEnded \in AgentMessage
  BY DEF Hello, SessionEnded, AgentMessage
<1>2. [type: {"disconnect"}, connection: Numbers \cap Nat] \subseteq AgentMessage
  BY DEF AgentMessage
<1>3. [type: {"stats"}, connection: Numbers \cap Nat, idle: {FALSE, IdleTimeout}]
        \subseteq AgentMessage
  <2>1. {FALSE, IdleTimeout} \subseteq BOOLEAN
    BY RegistryAssumption
  <2>. QED  BY <2>1 DEF AgentMessage
<1>4. [type: {"consent_reply"}, connection: Numbers, answer: Replies] \subseteq AgentMessage
  BY AnyAgentAssumption DEF AgentMessage, Answers
<1>. QED  BY <1>1, <1>2, <1>3, <1>4 DEF Sayable

LEMMA AnyAgentStepOK ==
    ASSUME FInv, NEW t \in Agents, AnyAgentStep(t) \/ AgentHears(t),
           UNCHANGED <<farlanddVars, gateVars, busVars>>
    PROVE  FInv'
<1>1. BrokerTypeOK
  BY DEF FInv
<1>2. << >> \in Seq(AgentMessage)
  OBVIOUS
<1>3. CASE AgentConnects(t)
  <2>1. process' \in [Agents -> ProcessStates] /\ agentEnd' \in [Agents -> BOOLEAN]
    BY <1>1, <1>3 DEF AgentConnects, BrokerTypeOK, ProcessStates
  <2>2. daemonEnd' \in [Agents -> {"none", "queued", "unclaimed", "session"}]
    BY <1>1, <1>3 DEF AgentConnects, BrokerTypeOK
  <2>3. toDaemon' \in [Agents -> Seq(AgentMessage)]
    BY <1>1, <1>2, <1>3, EntryOK DEF AgentConnects, BrokerTypeOK
  <2>4. inbox' \in [Agents -> Nat]
    BY <1>1, <1>3 DEF AgentConnects, BrokerTypeOK
  <2>5. BrokerTypeOK'
    BY <1>1, <1>3, <2>1, <2>2, <2>3, <2>4 DEF AgentConnects, BrokerTypeOK
  <2>. QED  BY <1>3, <2>5, OutsideOK DEF AgentConnects
<1>4. CASE AgentSays(t)
  <2>1. PICK m \in Sayable : toDaemon' = [toDaemon EXCEPT ![t] = Append(toDaemon[t], m)]
    BY <1>4 DEF AgentSays
  <2>2. Append(toDaemon[t], m) \in Seq(AgentMessage)
    BY <1>1, SayableOK DEF BrokerTypeOK
  <2>3. toDaemon' \in [Agents -> Seq(AgentMessage)]
    BY <1>1, <2>1, <2>2, EntryOK DEF BrokerTypeOK
  <2>4. BrokerTypeOK'
    BY <1>1, <1>4, <2>3 DEF AgentSays, BrokerTypeOK
  <2>. QED  BY <1>4, <2>4, OutsideOK DEF AgentSays
<1>5. CASE AgentHears(t)
  <2>1. BrokerTypeOK'
    BY <1>1, <1>5 DEF AgentHears, BrokerTypeOK
  <2>. QED  BY <1>5, <2>1, OutsideOK DEF AgentHears
<1>6. CASE AgentLeaves(t)
  <2>1. process' \in [Agents -> ProcessStates] /\ agentEnd' \in [Agents -> BOOLEAN]
    BY <1>1, <1>6 DEF AgentLeaves, BrokerTypeOK, ProcessStates
  <2>2. BrokerTypeOK'
    BY <1>1, <1>6, <2>1 DEF AgentLeaves, BrokerTypeOK
  <2>. QED  BY <1>6, <2>2, OutsideOK DEF AgentLeaves
<1>. QED  BY <1>3, <1>4, <1>5, <1>6 DEF AnyAgentStep

LEMMA AnyNextOK ==
    ASSUME FInv, [AnyNext]_anyVars
    PROVE  FInv'
<1>1. CASE FarlanddNext
  BY <1>1, FarlanddNextOK
<1>2. ASSUME NEW t \in Agents, AgentHears(t) \/ AnyAgentStep(t),
             UNCHANGED <<farlanddVars, gateVars, busVars>>
      PROVE  FInv'
  BY <1>2, AnyAgentStepOK
<1>3. CASE UNCHANGED anyVars
  <2>1. UNCHANGED <<farlanddVars, gateVars, busVars, client, connOf>>
    BY <1>3 DEF anyVars, sharedVars
  <2>2. BrokerTypeOK'
    BY <1>3 DEF anyVars, sharedVars, FInv, BrokerTypeOK
  <2>. QED  BY <2>1, <2>2, OutsideOK
<1>. QED  BY <1>1, <1>2, <1>3 DEF AnyNext

(* FInv is inductive: whatever the agents say or leave unsaid, farlandd    *)
(* keeps its types, its two lists of sessions and its table in step.       *)
THEOREM AnyAgentInvariant == AnySpec => []FInv
<1>1. AnyInit => FInv
  BY FarlanddInitOK DEF AnyInit
<1>2. FInv /\ [AnyNext]_anyVars => FInv'
  BY AnyNextOK
<1>. QED  BY <1>1, <1>2, PTL DEF AnySpec

(* farlandd's registry and its live sessions are in step in every state,   *)
(* with any number of clients and agents, any policy, and agents that      *)
(* answer late, twice or not at all (daemon.cpp, registry.cpp).            *)
THEOREM RegistryMirrorsLiveAlways == AnySpec => []RegistryMirrorsLive
<1>1. FInv => RegistryMirrorsLive
  BY FInvImplies
<1>. QED  BY <1>1, AnyAgentInvariant, PTL

(* farlandd may crash in any state: the table on disk has every session    *)
(* with an agent that was not told to end (remember_sessions()).           *)
THEOREM LinkedIsRememberedAlways == AnySpec => []LinkedIsRemembered
<1>1. FInv => LinkedIsRemembered
  BY FInvImplies
<1>. QED  BY <1>1, AnyAgentInvariant, PTL

(* Every variable of farlandd has its type in every state.                 *)
THEOREM FarlanddTypeAlways == AnySpec => []FarlanddTypeOK
<1>1. FInv => FarlanddTypeOK
  BY FInvImplies
<1>. QED  BY <1>1, AnyAgentInvariant, PTL
=============================================================================
