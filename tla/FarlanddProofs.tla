--------------------------- MODULE FarlanddProofs ---------------------------
(***************************************************************************)
(* What farlandd keeps in order by itself, proved for every number of      *)
(* clients, agents, sessions and restarts and every policy: its own        *)
(* variables keep their types, the registry mirrors the live sessions, and *)
(* every session with an agent is in the table on disk.  FInv is the       *)
(* inductive invariant; FarlanddNext preserves it, whatever the agents     *)
(* said before.                                                            *)
(***************************************************************************)
EXTENDS FarlanddAgents, FarlanddClients, FarlanddTick,
        NaturalsInduction, WellFoundedInduction

-----------------------------------------------------------------------------
(* The process itself.                                                     *)

LEMMA EndAllOK ==
    ASSUME FInv, NEW ss, ss \subseteq DOMAIN live, EndAll(ss)
    PROVE  /\ Sound(live', registry', connOf) /\ prompts' \subseteq Prompt
           /\ client' \in [Clients -> ClientStates] /\ GivenTo(client', connOf)
           /\ signalled' \subseteq Agents
           /\ daemonEnd' \in [Agents -> {"none", "queued", "unclaimed", "session"}]
           /\ toDaemon' \in [Agents -> Seq(AgentMessage)] /\ inbox' \in [Agents -> Nat]
<1>1. Sound(live', registry', connOf)
  BY SoundRemove DEF EndAll, FInv
<1>2. prompts' \subseteq Prompt
  BY DEF EndAll, FInv, RestTypeOK
<1>3. client' \in [Clients -> ClientStates] /\ GivenTo(client', connOf)
  BY DEF EndAll, FInv, BrokerTypeOK, GivenTo, ClientStates
<1>4. signalled' \subseteq Agents
  <2>1. \A s \in ss : Stopped(live[s]) \subseteq Agents
    BY DEF FInv, Sound, LiveSession, Stopped
  <2>2. signalled' = signalled \cup UNION {Stopped(live[s]) : s \in ss} /\ signalled \subseteq Agents
    BY DEF EndAll, FInv, BrokerTypeOK
  <2>. QED  BY <2>1, <2>2
<1>5. daemonEnd' \in [Agents -> {"none", "queued", "unclaimed", "session"}]
  BY DEF EndAll, FInv, BrokerTypeOK
<1>6. toDaemon' \in [Agents -> Seq(AgentMessage)]
  <2>1. << >> \in Seq(AgentMessage) /\ toDaemon \in [Agents -> Seq(AgentMessage)]
    BY DEF FInv, BrokerTypeOK
  <2>2. PICK T : toDaemon' = [t \in Agents |-> IF t \in T THEN << >> ELSE toDaemon[t]]
    BY DEF EndAll
  <2>. QED  BY <2>1, <2>2
<1>7. inbox' \in [Agents -> Nat]
  <2>1. inbox \in [Agents -> Nat]
    BY DEF FInv, BrokerTypeOK
  <2>2. PICK T : inbox' = [t \in Agents |-> IF t \in T THEN 0 ELSE inbox[t]]
    BY DEF EndAll
  <2>. QED  BY <2>1, <2>2
<1>. QED  BY <1>1, <1>2, <1>3, <1>4, <1>5, <1>6, <1>7

LEMMA ShutdownBeginStep ==
    ASSUME FInv, ShutdownBegin
    PROVE  FInv'
<1>1. Unstarted \subseteq DOMAIN live /\ EndAll(Unstarted)
  BY DEF Unstarted, ShutdownBegin
<1>2. /\ Sound(live', registry', connOf) /\ prompts' \subseteq Prompt
      /\ client' \in [Clients -> ClientStates] /\ GivenTo(client', connOf)
      /\ signalled' \subseteq Agents
      /\ daemonEnd' \in [Agents -> {"none", "queued", "unclaimed", "session"}]
      /\ toDaemon' \in [Agents -> Seq(AgentMessage)] /\ inbox' \in [Agents -> Nat]
  BY <1>1, EndAllOK
<1>3. Table(table') /\ running' = "stopping" /\ connOf' = connOf
  BY RememberedWritten DEF ShutdownBegin, FInv, countVars
<1>4. BrokerTypeOK'
  BY <1>2 DEF ShutdownBegin, FInv, BrokerTypeOK, countVars
<1>5. GateTypeOK'
  BY DEF ShutdownBegin, ReleaseAll, FInv, GateTypeOK, Pending, busVars
<1>6. RestTypeOK'
  BY <1>2 DEF ShutdownBegin, ReleaseAll, FInv, RestTypeOK, mailVars, countVars
<1>. QED  BY <1>2, <1>3, <1>4, <1>5, <1>6 DEF FInv, TableOK

LEMMA ShutdownEndStep ==
    ASSUME FInv, ShutdownEnd
    PROVE  FInv'
<1>1. Terminating \subseteq DOMAIN live /\ EndAll(Terminating)
  BY DEF Terminating, ShutdownEnd
<1>2. /\ Sound(live', registry', connOf) /\ prompts' \subseteq Prompt
      /\ client' \in [Clients -> ClientStates] /\ GivenTo(client', connOf)
      /\ signalled' \subseteq Agents
      /\ daemonEnd' \in [Agents -> {"none", "queued", "unclaimed", "session"}]
      /\ toDaemon' \in [Agents -> Seq(AgentMessage)] /\ inbox' \in [Agents -> Nat]
  BY <1>1, EndAllOK
<1>3. Table(table') /\ running' = "draining" /\ connOf' = connOf
  BY DEF ShutdownEnd, FInv, TableOK, countVars
<1>4. BrokerTypeOK'
  BY <1>2 DEF ShutdownEnd, FInv, BrokerTypeOK, countVars
<1>5. GateTypeOK'
  BY SameGateOK DEF ShutdownEnd
<1>6. RestTypeOK'
  BY <1>2 DEF ShutdownEnd, FInv, RestTypeOK, seatVars, gateVars, mailVars, countVars
<1>. QED  BY <1>2, <1>3, <1>4, <1>5, <1>6 DEF FInv, TableOK

(* Lists without a session.                                                *)
LEMMA EmptyOK ==
    ASSUME NEW n
    PROVE  Sound(<< >>, << >>, n) /\ Table(<< >>)
<1>1. /\ DOMAIN << >> = {} /\ << >> \in [{} -> LiveSession] /\ << >> \in [{} -> Session]
      /\ << >> \in [{} -> StoredSession]
  OBVIOUS
<1>2. Bounded({})
  BY DEF Bounded
<1>. QED  BY <1>1, <1>2 DEF Sound, Table

LEMMA VanishStep ==
    ASSUME FInv, Vanish
    PROVE  FInv'
<1>1. /\ live' = << >> /\ registry' = << >> /\ connOf' = connOf /\ table' = table
      /\ running' = "down"
  BY DEF Vanish
<1>2. Sound(live', registry', connOf') /\ TableOK'
  BY <1>1, EmptyOK DEF FInv, TableOK
<1>3. client' \in [Clients -> ClientStates] /\ GivenTo(client', connOf')
  BY DEF Vanish, FInv, BrokerTypeOK, GivenTo, ClientStates
<1>4. process' \in [Agents -> ProcessStates]
  BY DEF Vanish, FInv, BrokerTypeOK, ProcessStates
<1>5. /\ daemonEnd' \in [Agents -> {"none", "queued", "unclaimed", "session"}]
      /\ toDaemon' \in [Agents -> Seq(AgentMessage)]
  <2>. << >> \in Seq(AgentMessage)
    OBVIOUS
  <2>. QED  BY DEF Vanish
<1>6. inbox' \in [Agents -> Nat]
  BY DEF Vanish
<1>7. BrokerTypeOK'
  BY <1>3, <1>4, <1>5, <1>6 DEF Vanish, FInv, BrokerTypeOK
<1>8. GateTypeOK'
  <2>. << >> \in Seq(Calls) /\ << >> \in [{} -> Pending] /\ DOMAIN << >> = {}
    OBVIOUS
  <2>. QED  BY DEF Vanish, GateTypeOK
<1>9. RestTypeOK'
  BY DEF Vanish, FInv, RestTypeOK, AtSettle
<1>. QED  BY <1>2, <1>3, <1>7, <1>8, <1>9 DEF FInv

(* The id after the largest one of the table.                              *)
LEMMA NextIdAfterOK ==
    ASSUME NEW tb, Table(tb)
    PROVE  NextIdAfter(tb) \in Nat \ {0}
<1>. DEFINE above == {n \in Nat : n > 0 /\ \A s \in DOMAIN tb : s < n}
<1>1. PICK b \in Nat : \A s \in DOMAIN tb : s < b
  BY DEF Table, Bounded
<1>2. b + 1 \in above
  BY <1>1 DEF Table
<1>3. PICK m \in above : \A n \in above : ~(n < m)
  <2>1. IsWellFoundedOn(OpToRel(<, Nat), Nat)
    BY NatLessThanWellFounded
  <2>2. PICK m \in above : \A n \in above : ~(<<n, m>> \in OpToRel(<, Nat))
    BY <1>2, <2>1, WFMin
  <2>. QED  BY <2>2 DEF OpToRel
<1>4. m = 1 \/ \E s \in DOMAIN tb : m = s + 1
  <2>1. CASE m = 1
    BY <2>1
  <2>2. CASE m # 1
    <3>1. m - 1 \in Nat /\ m - 1 > 0 /\ m - 1 \notin above
      BY <1>3, <2>2
    <3>2. PICK s \in DOMAIN tb : ~(s < m - 1)
      BY <3>1
    <3>. QED  BY <1>3, <3>2 DEF Table
  <2>. QED  BY <2>1, <2>2
<1>5. \E n \in {1} \cup {s + 1 : s \in DOMAIN tb} : \A s \in DOMAIN tb : s < n
  BY <1>3, <1>4
<1>6. NextIdAfter(tb) \in {1} \cup {s + 1 : s \in DOMAIN tb}
  BY <1>5 DEF NextIdAfter
<1>. QED  BY <1>6 DEF Table

LEMMA StartStep ==
    ASSUME FInv, Start
    PROVE  FInv'
<1>1. /\ connOf' = connOf /\ table' = table /\ Table(table) /\ NextIdAfter(table) \in Nat \ {0}
      /\ foreign' \subseteq Agents
  BY NextIdAfterOK DEF Start, FInv, TableOK, RestTypeOK
<1>2. DOMAIN live' = DOMAIN table /\ DOMAIN registry' = DOMAIN table
  BY DEF Start, Restore
<1>3. ASSUME NEW s \in DOMAIN table
      PROVE  /\ live'[s] \in LiveSession /\ registry'[s] \in Session
             /\ Mirrors(live'[s], registry'[s]) /\ Numbered(live'[s], connOf)
             /\ ~live'[s].link
  <2>1. table[s] \in StoredSession
    BY <1>1 DEF Table
  <2>2. live'[s] = [token |-> table[s].token, link |-> FALSE, waiting |-> NoClient,
                    asking |-> NoClient, terminated |-> FALSE, reattach |-> TRUE,
                    kind |-> table[s].kind, child |-> FALSE, login |-> table[s].login,
                    ended |-> FALSE]
    BY DEF Start
  <2>3. registry'[s] = NewSession(table[s].account, table[s].attached)
    BY DEF Start, Restore
  <2>4. live'[s] \in LiveSession
    BY <2>1, <2>2 DEF StoredSession, LiveSession
  <2>5. registry'[s] \in Session
    BY <2>1, <2>3 DEF StoredSession, NewSession, Session
  <2>6. Mirrors(live'[s], registry'[s]) /\ Numbered(live'[s], connOf) /\ ~live'[s].link
    BY <2>2, <2>3 DEF Mirrors, Numbered, NewSession
  <2>. QED  BY <2>4, <2>5, <2>6
<1>4. /\ live' = [s \in DOMAIN live' |-> live'[s]]
      /\ registry' = [s \in DOMAIN registry' |-> registry'[s]]
  BY DEF Start, Restore
<1>5. Sound(live', registry', connOf')
  BY <1>1, <1>2, <1>3, <1>4 DEF Sound, Table
<1>6. TableOK'
  BY <1>1, <1>2, <1>3 DEF TableOK, Written
<1>7. BrokerTypeOK' /\ GivenTo(client', connOf')
  BY DEF Start, FInv, BrokerTypeOK, socketVars
<1>8. GateTypeOK'
  BY SameGateOK DEF Start
<1>9. RestTypeOK'
  BY <1>1 DEF Start, FInv, RestTypeOK, seatVars, gateVars, mailVars
<1>. QED  BY <1>5, <1>6, <1>7, <1>8, <1>9 DEF FInv

-----------------------------------------------------------------------------
(* farlandd as a whole.                                                    *)

(* farlandd starts with no session and an empty table.                     *)
LEMMA FarlanddInitOK ==
    ASSUME BrokerInit, GateInit, FarlanddInit
    PROVE  FInv
<1>1. Sound(live, registry, connOf) /\ Table(table)
  BY EmptyOK DEF FarlanddInit
<1>2. Written(live, registry, table)
  <2>. DOMAIN << >> = {}
    OBVIOUS
  <2>. QED  BY DEF FarlanddInit, Written
<1>3. BrokerTypeOK
  <2>. << >> \in Seq(AgentMessage)
    OBVIOUS
  <2>. QED  BY DEF BrokerInit, BrokerTypeOK, ClientStates, ProcessStates
<1>4. GivenTo(client, connOf)
  BY DEF BrokerInit, GivenTo
<1>5. GateTypeOK
  <2>. << >> \in Seq(Calls) /\ << >> \in [{} -> Pending] /\ DOMAIN << >> = {}
    OBVIOUS
  <2>. QED  BY DEF GateInit, GateTypeOK
<1>6. RestTypeOK
  BY DEF FarlanddInit, GateInit, RestTypeOK, AtSettle
<1>. QED  BY <1>1, <1>2, <1>3, <1>4, <1>5, <1>6 DEF FInv, TableOK

(* Every handler of farlandd preserves FInv.                               *)
LEMMA FarlanddNextOK ==
    ASSUME FInv, FarlanddNext
    PROVE  FInv'
<1>1. CASE \E s \in DOMAIN live : ReadAgent(s)
  BY <1>1, ReadAgentStep
<1>2. CASE \E t \in Agents : AcceptAgent(t)
  BY <1>2, AcceptAgentStep
<1>3. CASE \E t \in Agents : HelloTimeout(t) \/ HelloUnknown(t) \/ HelloRefused(t)
  BY <1>3, DropUnclaimedStep DEF HelloTimeout, HelloUnknown, HelloRefused
<1>4. CASE \E t \in Agents, s \in DOMAIN live : HelloAccepted(t, s)
  BY <1>4, HelloAcceptedStep
<1>5. CASE \E c \in Clients : AcceptClient(c) \/ Authenticate(c) \/ NetworkProcessEnds(c)
  BY <1>5, AcceptClientStep, AuthenticateStep
<1>6. CASE \E c \in Clients : HandleAuthenticated(c)
  BY <1>6, HandleAuthenticatedStep
<1>7. CASE \E job \in launching : LaunchThread(job)
  BY <1>7, LaunchThreadStep
<1>8. CASE \E item \in launched : HandleLaunched(item)
  BY <1>8, HandleLaunchedStep
<1>9. CASE RefreshHeld \/ \E k \in Logins : AskTheSeat(k)
  BY <1>9, RefreshHeldStep, AskTheSeatStep
<1>10. CASE \E s \in Terminable : RequestTerminate(s) \/ TerminateRequested(s)
  BY <1>10, RequestTerminateStep, TerminateRequestedStep
<1>11. CASE Settle \/ \E p \in prompts : ConsentDue(p)
  BY <1>11, SettleStep, ConsentDueStep
<1>12. CASE \E s \in DOMAIN live : PolicyDisconnectIdle(s) \/ PolicyTerminate(s)
                                   \/ LostReattach(s) \/ Expire(s) \/ ReapChild(s)
  BY <1>12, PolicyDisconnectIdleStep, PolicyTerminateStep, LostReattachStep, ExpireStep,
     ReapChildStep
<1>13. CASE \E account \in SeatUsers : UnlockWindowEnds(account)
  BY <1>13, UnlockWindowEndsStep
<1>14. CASE ShutdownBegin \/ ShutdownEnd \/ Exit \/ Crash \/ Start
  BY <1>14, ShutdownBeginStep, ShutdownEndStep, VanishStep, StartStep DEF Exit, Crash
<1>. QED  BY <1>1, <1>2, <1>3, <1>4, <1>5, <1>6, <1>7, <1>8, <1>9, <1>10, <1>11, <1>12,
             <1>13, <1>14 DEF FarlanddNext

(* What FInv says in the words of the properties.                          *)
LEMMA FInvImplies ==
    ASSUME FInv
    PROVE  FarlanddTypeOK /\ RegistryMirrorsLive /\ LinkedIsRemembered
<1>1. FarlanddTypeOK
  BY DEF FInv, RestTypeOK, Sound, TableOK, Table, FarlanddTypeOK
<1>2. RegistryMirrorsLive
  BY DEF FInv, Sound, RegistryMirrorsLive
<1>3. LinkedIsRemembered
  BY DEF FInv, TableOK, Written, LinkedIsRemembered
<1>. QED  BY <1>1, <1>2, <1>3
=============================================================================
