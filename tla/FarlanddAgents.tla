--------------------------- MODULE FarlanddAgents ---------------------------
(***************************************************************************)
(* The steps of farlandd that begin at an agent or at the launcher keep    *)
(* FInv.                                                                   *)
(***************************************************************************)
EXTENDS FarlanddInvariant

-----------------------------------------------------------------------------
(* read_agent().                                                           *)

LEMMA FrameOK ==
    ASSUME FInv, NEW s \in DOMAIN live, NEW type, Frame(s, type)
    PROVE  /\ Head(toDaemon[live[s].token]) \in AgentMessage
           /\ Head(toDaemon[live[s].token]).type = type
           /\ toDaemon' \in [Agents -> Seq(AgentMessage)] /\ inbox' \in [Agents -> Nat]
<1>. DEFINE t == live[s].token
<1>1. t \in Agents
  BY DEF FInv, Sound, LiveSession
<1>2. toDaemon[t] \in Seq(AgentMessage) /\ toDaemon[t] # << >>
  BY <1>1 DEF Frame, FInv, BrokerTypeOK
<1>3. Head(toDaemon[t]) \in AgentMessage /\ Tail(toDaemon[t]) \in Seq(AgentMessage)
  BY <1>2
<1>4. toDaemon' = [toDaemon EXCEPT ![t] = Tail(toDaemon[t])] /\ inbox' = [inbox EXCEPT ![t] = 0]
  BY DEF Frame
<1>5. toDaemon' \in [Agents -> Seq(AgentMessage)]
  BY <1>1, <1>3, <1>4, EntryOK DEF FInv, BrokerTypeOK
<1>6. inbox' \in [Agents -> Nat]
  BY <1>1, <1>4 DEF FInv, BrokerTypeOK
<1>. QED  BY <1>3, <1>5, <1>6 DEF Frame

LEMMA AnsweredOK ==
    ASSUME NEW p \in Prompt, NEW answer
    PROVE  Answered(p, answer) \in Resolved
BY ResolveOK, OnDefaultOK DEF Answered

LEMMA ReleasedOK ==
    ASSUME NEW ps, ps \subseteq Prompt, NEW s
    PROVE  Released(ps, s) \subseteq Resolved /\ NotOf(ps, s) \subseteq Prompt
BY ResolveOK DEF Released, Of, NotOf

LEMMA ReadDisconnectStep ==
    ASSUME FInv, NEW s \in DOMAIN live, ReadDisconnect(s)
    PROVE  FInv'
<1>. DEFINE n == Head(toDaemon[live[s].token]).connection
<1>1. /\ toDaemon' \in [Agents -> Seq(AgentMessage)] /\ inbox' \in [Agents -> Nat]
  BY FrameOK DEF ReadDisconnect
<1>2. registry' = Disconnected(registry, s, n) /\ live' = live /\ connOf' = connOf
      /\ table' = table /\ running' = running
  BY DEF ReadDisconnect, countVars, processVars
<1>3. Sound(live', registry', connOf')
  BY <1>2, DisconnectedOK DEF FInv
<1>4. TableOK'
  BY <1>2, DisconnectedOK DEF FInv, TableOK
<1>5. BrokerTypeOK' /\ GivenTo(client', connOf')
  BY <1>1 DEF ReadDisconnect, FInv, BrokerTypeOK, processVars, countVars
<1>6. GateTypeOK'
  BY DEF ReadDisconnect, FInv, GateTypeOK, seatVars, gateVars, busVars
<1>7. prompts' \subseteq Prompt /\ resolutions' \subseteq Resolved
  BY ReleasedOK DEF ReadDisconnect, FInv, RestTypeOK
<1>8. turn' \in 0..AtSettle
  BY TurnOK DEF ReadDisconnect, AtAgents, AtSettle
<1>9. RestTypeOK'
  BY <1>7, <1>8 DEF ReadDisconnect, FInv, RestTypeOK, processVars, seatVars, gateVars, mailVars, countVars
<1>. QED  BY <1>3, <1>4, <1>5, <1>6, <1>9 DEF FInv

LEMMA ReadConsentReplyStep ==
    ASSUME FInv, NEW s \in DOMAIN live, ReadConsentReply(s)
    PROVE  FInv'
<1>1. /\ toDaemon' \in [Agents -> Seq(AgentMessage)] /\ inbox' \in [Agents -> Nat]
  BY FrameOK DEF ReadConsentReply
<1>2. BrokerTypeOK' /\ GivenTo(client', connOf')
  BY <1>1 DEF ReadConsentReply, FInv, BrokerTypeOK, processVars, countVars
<1>3. Sound(live', registry', connOf')
  BY DEF ReadConsentReply, FInv, countVars
<1>4. TableOK'
  BY DEF ReadConsentReply, FInv, TableOK, processVars
<1>5. GateTypeOK'
  BY DEF ReadConsentReply, FInv, GateTypeOK, seatVars, gateVars, busVars
<1>6. prompts' \subseteq Prompt /\ resolutions' \subseteq Resolved
  BY AnsweredOK DEF ReadConsentReply, FInv, RestTypeOK, AnsweredBy
<1>7. turn' \in 0..AtSettle
  BY TurnOK DEF ReadConsentReply, AtAgents, AtSettle
<1>8. RestTypeOK'
  BY <1>6, <1>7 DEF ReadConsentReply, FInv, RestTypeOK, processVars, seatVars, gateVars,
                    mailVars, countVars
<1>. QED  BY <1>2, <1>3, <1>4, <1>5, <1>8 DEF FInv

LEMMA ReadSessionEndedStep ==
    ASSUME FInv, NEW s \in DOMAIN live, ReadSessionEnded(s)
    PROVE  FInv'
<1>1. /\ toDaemon' \in [Agents -> Seq(AgentMessage)] /\ inbox' \in [Agents -> Nat]
  BY FrameOK DEF ReadSessionEnded
<1>. DEFINE e == [live[s] EXCEPT !.ended = TRUE]
            r == SetEnding(registry, s)
<1>2. /\ Sound(live, r, connOf)
      /\ \A tb : Written(live, registry, tb) => Written(live, r, tb)
  BY SetEndingOK DEF FInv
<1>3. /\ live[s] \in LiveSession /\ live \in [DOMAIN live -> LiveSession]
      /\ Mirrors(live[s], r[s]) /\ Numbered(live[s], connOf)
  BY <1>2 DEF Sound
<1>4. /\ e \in LiveSession /\ e.token = live[s].token /\ e.link = live[s].link
      /\ e.terminated = live[s].terminated
  BY <1>3 DEF LiveSession
<1>5. Mirrors(e, r[s]) /\ Numbered(e, connOf)
  BY <1>3 DEF Mirrors, Numbered, LiveSession
<1>6. live' = [live EXCEPT ![s] = e] /\ registry' = r /\ connOf' = connOf /\ table' = table
      /\ running' = running
  BY <1>3 DEF ReadSessionEnded, countVars, processVars
<1>. HIDE DEF e, r
<1>7. /\ Sound([live EXCEPT ![s] = e], r, connOf)
      /\ \A tb : Written(live, r, tb) => Written([live EXCEPT ![s] = e], r, tb)
  BY <1>2, <1>4, <1>5, LiveChange
<1>8. Sound(live', registry', connOf') /\ TableOK'
  BY <1>2, <1>6, <1>7 DEF FInv, TableOK
<1>9. BrokerTypeOK' /\ GivenTo(client', connOf')
  BY <1>1 DEF ReadSessionEnded, FInv, BrokerTypeOK, processVars, countVars
<1>10. GateTypeOK'
  BY DEF ReadSessionEnded, FInv, GateTypeOK, seatVars, gateVars, busVars
<1>11. turn' \in 0..AtSettle
  BY TurnOK DEF ReadSessionEnded, AtAgents, AtSettle
<1>12. RestTypeOK'
  BY <1>11 DEF ReadSessionEnded, FInv, RestTypeOK, processVars, seatVars, gateVars, mailVars,
               countVars
<1>. QED  BY <1>8, <1>9, <1>10, <1>12 DEF FInv

LEMMA ReadStatsStep ==
    ASSUME FInv, NEW s \in DOMAIN live, ReadStats(s)
    PROVE  FInv'
<1>. DEFINE stats == Head(toDaemon[live[s].token])
            r == AdoptConnection(registry, s, stats.connection)
<1>1. /\ stats \in AgentMessage /\ stats.type = "stats"
      /\ toDaemon' \in [Agents -> Seq(AgentMessage)] /\ inbox' \in [Agents -> Nat]
  BY FrameOK DEF ReadStats
<1>2. stats.connection \in Nat /\ stats.idle \in BOOLEAN
  BY <1>1 DEF AgentMessage
<1>3. /\ registry' = UpdateIdle(r, s, stats.connection, stats.idle)
      /\ next_connection' = NextConnection(stats.connection)
      /\ live' = live /\ connOf' = connOf /\ table' = table /\ running' = running
  BY DEF ReadStats, processVars
<1>. HIDE DEF stats
<1>4. /\ Sound(live, r, connOf)
      /\ \A tb : Written(live, registry, tb) => Written(live, r, tb)
  BY <1>2, AdoptConnectionOK DEF FInv
<1>. HIDE DEF r
<1>5. Sound(live', registry', connOf') /\ TableOK'
  BY <1>2, <1>3, <1>4, UpdateIdleOK DEF FInv, TableOK
<1>6. BrokerTypeOK' /\ GivenTo(client', connOf')
  BY <1>1 DEF ReadStats, FInv, BrokerTypeOK, processVars
<1>7. GateTypeOK'
  BY DEF ReadStats, FInv, GateTypeOK, seatVars, gateVars, busVars
<1>8. turn' \in 0..AtSettle
  BY TurnOK DEF ReadStats, AtAgents, AtSettle
<1>9. next_connection' \in Nat \ {0}
  BY <1>2, <1>3 DEF FInv, RestTypeOK, NextConnection
<1>10. RestTypeOK'
  BY <1>8, <1>9 DEF ReadStats, FInv, RestTypeOK, processVars, seatVars, gateVars, mailVars
<1>. QED  BY <1>5, <1>6, <1>7, <1>10 DEF FInv

LEMMA ReadAgentStep ==
    ASSUME FInv, NEW s \in DOMAIN live, ReadAgent(s)
    PROVE  FInv'
<1>1. CASE ReadMisbehaved(s)
  <2>. turn' \in 0..AtSettle
    BY <1>1, TurnOK DEF ReadMisbehaved, AtAgents, AtSettle
  <2>. QED  BY <1>1, EndStep, WithoutOK DEF ReadMisbehaved
<1>2. CASE ReadEof(s)
  <2>. turn' \in 0..AtSettle
    BY <1>2, TurnOK DEF ReadEof, AtAgents, AtSettle
  <2>. QED  BY <1>2, EndStep, WithoutOK DEF ReadEof
<1>. QED  BY <1>1, <1>2, ReadDisconnectStep, ReadConsentReplyStep, ReadSessionEndedStep,
             ReadStatsStep DEF ReadAgent

-----------------------------------------------------------------------------
(* Agents that connect.                                                    *)

LEMMA AcceptAgentStep ==
    ASSUME FInv, NEW t \in Agents, AcceptAgent(t)
    PROVE  FInv'
<1>1. BrokerTypeOK' /\ GivenTo(client', connOf')
  <2>. daemonEnd' \in [Agents -> {"none", "queued", "unclaimed", "session"}]
    BY EntryOK DEF AcceptAgent, FInv, BrokerTypeOK
  <2>. QED  BY DEF AcceptAgent, FInv, BrokerTypeOK, processVars, countVars
<1>2. Sound(live', registry', connOf') /\ TableOK'
  BY DEF AcceptAgent, FInv, TableOK, processVars, countVars
<1>3. GateTypeOK'
  BY DEF AcceptAgent, FInv, GateTypeOK, seatVars, gateVars, busVars
<1>4. turn' \in 0..AtSettle
  BY TurnOK DEF AcceptAgent, AtAccept, AtSettle
<1>5. RestTypeOK'
  BY <1>4 DEF AcceptAgent, FInv, RestTypeOK, processVars, seatVars, gateVars, mailVars, countVars
<1>. QED  BY <1>1, <1>2, <1>3, <1>5 DEF FInv

LEMMA DropUnclaimedStep ==
    ASSUME FInv, NEW t \in Agents, NEW said, DropUnclaimed(t, said)
    PROVE  FInv'
<1>1. daemonEnd' \in [Agents -> {"none", "queued", "unclaimed", "session"}]
  BY EntryOK DEF DropUnclaimed, FInv, BrokerTypeOK
<1>2. toDaemon' \in [Agents -> Seq(AgentMessage)]
  <2>. << >> \in Seq(AgentMessage)
    OBVIOUS
  <2>. QED  BY EntryOK DEF DropUnclaimed, FInv, BrokerTypeOK
<1>3. DOMAIN toAgent' = Agents
  BY SayOK DEF DropUnclaimed, FInv, BrokerTypeOK
<1>4. BrokerTypeOK' /\ GivenTo(client', connOf')
  BY <1>1, <1>2, <1>3 DEF DropUnclaimed, FInv, BrokerTypeOK, processVars, countVars
<1>5. Sound(live', registry', connOf') /\ TableOK'
  BY DEF DropUnclaimed, FInv, TableOK, processVars, countVars
<1>6. GateTypeOK'
  BY DEF DropUnclaimed, FInv, GateTypeOK, seatVars, gateVars, busVars
<1>7. turn' \in 0..AtSettle
  BY TurnOK DEF DropUnclaimed, AtHello, AtSettle
<1>8. RestTypeOK'
  BY <1>7 DEF DropUnclaimed, FInv, RestTypeOK, processVars, seatVars, gateVars, mailVars, countVars
<1>. QED  BY <1>4, <1>5, <1>6, <1>8 DEF FInv

LEMMA HelloAcceptedStep ==
    ASSUME FInv, NEW t \in Agents, NEW s \in DOMAIN live, HelloAccepted(t, s)
    PROVE  FInv'
<1>. DEFINE linked == [live EXCEPT ![s].link = TRUE, ![s].reattach = FALSE]
            served == [linked EXCEPT ![s].waiting = NoClient]
            ready == SetRunning(registry, s)
            c == live[s].waiting
            e == [live[s] EXCEPT !.link = TRUE, !.reattach = FALSE, !.waiting = NoClient]
            q == [registry[s] EXCEPT !.state = IF registry[s].state = "starting"
                                               THEN "running" ELSE registry[s].state]
<1>1. /\ live \in [DOMAIN live -> LiveSession] /\ registry \in [DOMAIN live -> Session]
      /\ live[s] \in LiveSession /\ registry[s] \in Session
      /\ Mirrors(live[s], registry[s]) /\ Numbered(live[s], connOf)
      /\ s \in Claimed(t)
  BY DEF FInv, Sound, HelloAccepted
<1>2. ~live[s].link /\ ~live[s].terminated /\ live[s].token = t
  BY <1>1 DEF Claimed
<1>3. turn' \in 0..AtSettle
  BY TurnOK DEF HelloAccepted, AtHello, AtSettle
<1>4. served = [live EXCEPT ![s] = e] /\ ready = [registry EXCEPT ![s] = q]
  BY <1>1 DEF SetRunning
<1>5. e \in LiveSession /\ q \in Session /\ e.link /\ e.token = t
  BY <1>1, <1>2 DEF LiveSession, Session
<1>6. Mirrors(e, q) /\ Numbered(e, connOf)
  BY <1>1, <1>2 DEF Mirrors, Numbered, LiveSession, Session
<1>7. Sound(served, ready, connOf) /\ s \in DOMAIN served /\ served[s].link
  <2>. HIDE DEF e, q
  <2>1. Sound([live EXCEPT ![s] = e], [registry EXCEPT ![s] = q], connOf)
    BY <1>5, <1>6, SoundChange DEF FInv
  <2>. QED  BY <1>1, <1>4, <1>5, <2>1
<1>8. CASE ~agentEnd[t] /\ EndSession(linked, ready, s, client) /\ UNCHANGED <<toAgent, unlocking>>
  <2>1. /\ Restrict(linked, DOMAIN linked \ {s}) = Restrict(live, DOMAIN live \ {s})
        /\ Restrict(ready, DOMAIN ready \ {s}) = Restrict(registry, DOMAIN registry \ {s})
        /\ linked[s].token = t /\ s \in DOMAIN linked
    BY <1>1, <1>2, <1>4 DEF Restrict, LiveSession
  <2>2. UNCHANGED <<resolutions, toAgent, unlocking, processVars, seatVars, mailVars, countVars>>
    BY <1>8 DEF HelloAccepted
  <2>. HIDE DEF linked, ready
  <2>. QED  BY <1>3, <1>8, <2>1, <2>2, WithoutOK, EndStep
<1>9. CASE /\ agentEnd[t]
           /\ daemonEnd' = [daemonEnd EXCEPT ![t] = "session"]
           /\ \E n \in 0..Len(toDaemon[t]) : inbox' = [inbox EXCEPT ![t] = n]
           /\ \/ /\ c = NoClient
                 /\ live' = served /\ registry' = ready
                 /\ Say(t, <<Settings>>)
                 /\ UNCHANGED <<client, prompts, unlocking>>
              \/ /\ c # NoClient /\ registry[s].attached
                 /\ Deliver(served, ready, s, c, TRUE, <<Settings>>)
              \/ /\ c # NoClient /\ ~registry[s].attached
                 /\ HandOver(served, ready, s, c, <<Settings>>)
                 /\ UNCHANGED prompts
           /\ table' = Remembered(live', registry')
           /\ UNCHANGED <<toDaemon, signalled>>
  <2>1. c # NoClient => c \in Clients /\ connOf[c] > 0
    BY <1>1 DEF LiveSession, Numbered
  <2>2. /\ Sound(live', registry', connOf)
        /\ client' \in [Clients -> ClientStates] /\ GivenTo(client', connOf)
        /\ prompts' \subseteq Prompt
        /\ DOMAIN toAgent' = Agents /\ unlocking' \subseteq SeatUsers
    <3>. HIDE DEF served, ready, c
    <3>1. CASE live' = served /\ registry' = ready /\ Say(t, <<Settings>>)
               /\ UNCHANGED <<client, prompts, unlocking>>
      BY <3>1, <1>7, SayOK DEF FInv, BrokerTypeOK, RestTypeOK
    <3>2. CASE c # NoClient /\ Deliver(served, ready, s, c, TRUE, <<Settings>>)
      BY <3>2, <1>7, <2>1, DeliverOK DEF FInv, RestTypeOK
    <3>3. CASE c # NoClient /\ HandOver(served, ready, s, c, <<Settings>>) /\ UNCHANGED prompts
      BY <3>3, <1>7, <2>1, HandOverOK DEF FInv, RestTypeOK
    <3>. QED  BY <1>9, <3>1, <3>2, <3>3
  <2>3. connOf' = connOf
    BY DEF HelloAccepted, countVars
  <2>4. TableOK'
    BY <1>9, <2>2, RememberedWritten DEF TableOK
  <2>5. daemonEnd' \in [Agents -> {"none", "queued", "unclaimed", "session"}]
    BY <1>9, EntryOK DEF FInv, BrokerTypeOK
  <2>6. inbox' \in [Agents -> Nat]
    <3>1. toDaemon[t] \in Seq(AgentMessage) /\ inbox \in [Agents -> Nat]
      BY DEF FInv, BrokerTypeOK
    <3>2. Len(toDaemon[t]) \in Nat
      BY <3>1
    <3>. QED  BY <1>9, <3>1, <3>2, EntryOK
  <2>7. BrokerTypeOK'
    BY <1>9, <2>2, <2>5, <2>6 DEF HelloAccepted, FInv, BrokerTypeOK, processVars, countVars
  <2>8. GateTypeOK'
    BY DEF HelloAccepted, FInv, GateTypeOK, seatVars, gateVars, busVars
  <2>9. RestTypeOK'
    BY <1>3, <2>2 DEF HelloAccepted, FInv, RestTypeOK, processVars, seatVars, gateVars,
                      mailVars, countVars
  <2>. QED  BY <2>2, <2>3, <2>4, <2>7, <2>8, <2>9 DEF FInv
<1>. QED  BY <1>8, <1>9 DEF HelloAccepted

-----------------------------------------------------------------------------
(* Launcher threads.                                                       *)

LEMMA LaunchThreadStep ==
    ASSUME FInv, NEW job \in launching, LaunchThread(job)
    PROVE  FInv'
<1>1. PICK ok \in BOOLEAN :
        /\ process' = [process EXCEPT ![job.agent] = IF ok THEN "starting" ELSE "exited"]
        /\ launched' = launched \cup {[job |-> job, ok |-> ok]}
  BY DEF LaunchThread
<1>2. job \in LaunchJob /\ job.agent \in Agents
  BY DEF FInv, RestTypeOK, LaunchJob
<1>3. process' \in [Agents -> ProcessStates]
  BY <1>1, <1>2 DEF FInv, BrokerTypeOK, ProcessStates
<1>4. launched' \subseteq [job: LaunchJob, ok: BOOLEAN]
  BY <1>1, <1>2 DEF FInv, RestTypeOK
<1>5. BrokerTypeOK' /\ GivenTo(client', connOf')
  BY <1>3 DEF LaunchThread, FInv, BrokerTypeOK, processVars, socketVars
<1>6. Sound(live', registry', connOf') /\ TableOK'
  BY DEF LaunchThread, FInv, TableOK, processVars
<1>7. GateTypeOK'
  BY DEF LaunchThread, FInv, GateTypeOK, seatVars, gateVars, busVars
<1>8. RestTypeOK'
  BY <1>4 DEF LaunchThread, FInv, RestTypeOK, processVars, seatVars, gateVars
<1>. QED  BY <1>5, <1>6, <1>7, <1>8 DEF FInv

LEMMA HandleLaunchedStep ==
    ASSUME FInv, NEW item \in launched, HandleLaunched(item)
    PROVE  FInv'
<1>1. turn' \in 0..AtSettle
  <2>1. Turn(AtMailbox)
    BY DEF HandleLaunched
  <2>. QED  BY <2>1, TurnOK DEF AtMailbox, AtSettle
<1>2. /\ UNCHANGED <<resolutions, toAgent, unlocking, threads, launching, terminations>>
      /\ UNCHANGED <<processVars, seatVars, countVars>>
  BY DEF HandleLaunched
<1>3. /\ launched' \subseteq [job: LaunchJob, ok: BOOLEAN] /\ terminations' \subseteq Nat
      /\ resolutions' \subseteq Resolved
  BY <1>2 DEF HandleLaunched, FInv, RestTypeOK
<1>4. GateTypeOK' /\ held' \subseteq Accounts /\ seat_questions' \subseteq Logins
  BY <1>2, SameGateOK
<1>5. CASE /\ signalled' \subseteq Agents
           /\ UNCHANGED <<live, registry, prompts, client, table, daemonEnd, toDaemon, inbox>>
  <2>1. BrokerTypeOK' /\ GivenTo(client', connOf')
    BY <1>2, <1>5 DEF FInv, BrokerTypeOK, processVars, countVars
  <2>2. Sound(live', registry', connOf') /\ TableOK'
    BY <1>2, <1>5 DEF FInv, TableOK, processVars, countVars
  <2>3. RestTypeOK'
    BY <1>1, <1>2, <1>3, <1>4, <1>5 DEF FInv, RestTypeOK, processVars, countVars
  <2>. QED  BY <1>4, <2>1, <2>2, <2>3 DEF FInv
<1>6. ASSUME NEW s \in DOMAIN live, NEW known \in BOOLEAN,
             live' = [live EXCEPT ![s].login = known],
             UNCHANGED <<registry, prompts, client, table, socketVars>>
      PROVE  FInv'
  <2>. DEFINE e == [live[s] EXCEPT !.login = known]
  <2>1. /\ live \in [DOMAIN live -> LiveSession] /\ live[s] \in LiveSession
        /\ Mirrors(live[s], registry[s]) /\ Numbered(live[s], connOf)
    BY DEF FInv, Sound
  <2>2. /\ e \in LiveSession /\ e.token = live[s].token /\ e.link = live[s].link
        /\ e.terminated = live[s].terminated
    BY <2>1 DEF LiveSession
  <2>3. Mirrors(e, registry[s]) /\ Numbered(e, connOf)
    BY <2>1 DEF Mirrors, Numbered, LiveSession
  <2>4. live' = [live EXCEPT ![s] = e]
    BY <1>6, <2>1
  <2>. HIDE DEF e
  <2>5. /\ Sound([live EXCEPT ![s] = e], registry, connOf)
        /\ \A tb : Written(live, registry, tb) => Written([live EXCEPT ![s] = e], registry, tb)
    BY <2>2, <2>3, LiveChange DEF FInv
  <2>6. /\ Sound(live', registry', connOf)
        /\ \A tb : Written(live, registry, tb) => Written(live', registry', tb)
    BY <1>6, <2>4, <2>5
  <2>. QED  BY <1>1, <1>2, <1>3, <1>4, <1>6, <2>6, KeepStep, SameOK
<1>7. ASSUME NEW s \in DOMAIN live, EndSession(live, registry, s, client)
      PROVE  FInv'
  BY <1>1, <1>2, <1>3, <1>4, <1>7, WithoutOK, EndAnyStep
<1>8. item.job.agent \in Agents /\ item.job.gdm \in BOOLEAN /\ signalled \subseteq Agents
  BY DEF FInv, RestTypeOK, LaunchJob, BrokerTypeOK
<1>9. ASSUME NEW S, S \subseteq {item.job.agent}, signalled' = signalled \cup S
      PROVE  signalled' \subseteq Agents
  BY <1>8, <1>9
<1>. QED  BY <1>5, <1>6, <1>7, <1>8, <1>9 DEF HandleLaunched
=============================================================================
