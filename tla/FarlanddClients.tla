-------------------------- MODULE FarlanddClients ---------------------------
(***************************************************************************)
(* The steps of farlandd that begin at a client keep FInv.                 *)
(***************************************************************************)
EXTENDS FarlanddInvariant

LEMMA AcceptClientStep ==
    ASSUME FInv, NEW c \in Clients, AcceptClient(c)
    PROVE  FInv'
<1>1. /\ connOf \in [Clients -> Nat] /\ next_connection \in Nat \ {0}
      /\ client \in [Clients -> ClientStates] /\ GivenTo(client, connOf)
      /\ Sound(live, registry, connOf)
  BY DEF FInv, BrokerTypeOK, RestTypeOK
<1>2. connOf' = connOf \/ connOf' = [connOf EXCEPT ![c] = next_connection]
  BY DEF AcceptClient
<1>3. connOf' \in [Clients -> Nat] /\ \A x \in Clients : connOf[x] > 0 => connOf'[x] > 0
  BY <1>1, <1>2
<1>4. client' \in [Clients -> ClientStates] /\ GivenTo(client', connOf')
  BY <1>1 DEF AcceptClient, GivenTo, ClientStates
<1>5. Sound(live', registry', connOf')
  <2>1. \A s \in DOMAIN live : Numbered(live[s], connOf')
    BY <1>1, <1>3 DEF Sound, Numbered, LiveSession
  <2>. QED  BY <1>1, <2>1 DEF AcceptClient, Sound
<1>6. TableOK'
  BY DEF AcceptClient, FInv, TableOK, processVars
<1>7. BrokerTypeOK'
  BY <1>3, <1>4 DEF AcceptClient, FInv, BrokerTypeOK, processVars, socketVars
<1>8. GateTypeOK'
  BY DEF AcceptClient, FInv, GateTypeOK, seatVars, gateVars, busVars
<1>9. turn' \in 0..AtSettle
  BY TurnOK DEF AcceptClient, AtAccept, AtSettle
<1>10. next_connection' \in Nat \ {0} /\ threads' \subseteq Clients
  BY <1>1 DEF AcceptClient, FInv, RestTypeOK
<1>11. RestTypeOK'
  BY <1>9, <1>10 DEF AcceptClient, FInv, RestTypeOK, processVars, seatVars, gateVars
<1>. QED  BY <1>4, <1>5, <1>6, <1>7, <1>8, <1>11 DEF FInv

LEMMA AuthenticateStep ==
    ASSUME FInv, NEW c \in Clients, Authenticate(c) \/ NetworkProcessEnds(c)
    PROVE  FInv'
<1>. USE DEF Authenticate, NetworkProcessEnds
<1>1. client' \in [Clients -> ClientStates] /\ GivenTo(client', connOf)
  BY DEF FInv, BrokerTypeOK, GivenTo, ClientStates
<1>2. connOf' = connOf
  BY DEF countVars
<1>3. BrokerTypeOK'
  BY <1>1 DEF FInv, BrokerTypeOK, processVars, socketVars, countVars
<1>4. Sound(live', registry', connOf') /\ TableOK'
  BY <1>2 DEF FInv, TableOK, processVars
<1>5. GateTypeOK'
  BY DEF FInv, GateTypeOK, seatVars, gateVars, busVars
<1>6. threads' \subseteq Clients
  BY DEF FInv, RestTypeOK
<1>7. RestTypeOK'
  BY <1>6 DEF FInv, RestTypeOK, processVars, seatVars, gateVars, countVars
<1>. QED  BY <1>1, <1>2, <1>3, <1>4, <1>5, <1>7 DEF FInv

LEMMA TurnAwayStep ==
    ASSUME FInv, NEW c \in Clients, TurnAway(c)
    PROVE  FInv'
<1>1. client' \in [Clients -> ClientStates] /\ GivenTo(client', connOf)
  BY DEF TurnAway, FInv, BrokerTypeOK, GivenTo, ClientStates
<1>2. connOf' = connOf
  BY DEF TurnAway, countVars
<1>3. BrokerTypeOK'
  BY <1>1 DEF TurnAway, FInv, BrokerTypeOK, processVars, socketVars, countVars
<1>4. Sound(live', registry', connOf') /\ TableOK'
  BY <1>2 DEF TurnAway, FInv, TableOK, processVars
<1>5. GateTypeOK'
  BY DEF TurnAway, FInv, GateTypeOK, seatVars, gateVars, busVars
<1>6. turn' \in 0..AtSettle
  BY TurnOK DEF TurnAway, AtMailbox, AtSettle
<1>7. RestTypeOK'
  BY <1>6 DEF TurnAway, FInv, RestTypeOK, processVars, seatVars, gateVars, mailVars, countVars
<1>. QED  BY <1>1, <1>2, <1>3, <1>4, <1>5, <1>7 DEF FInv

(* A client in the mailbox has its number.                                 *)
LEMMA AuthenticatedOK ==
    ASSUME FInv, NEW c \in Clients, Authenticated(c)
    PROVE  connOf[c] > 0 /\ AccountOf[c] \in Accounts /\ running = "up"
BY FarlanddAssumption DEF FInv, GivenTo, Authenticated, InLoop

LEMMA HandleStartStep ==
    ASSUME FInv, NEW c \in Clients, HandleStart(c)
    PROVE  FInv'
<1>1. connOf[c] > 0 /\ AccountOf[c] \in Accounts
  BY AuthenticatedOK DEF HandleStart
<1>2. PICK attach \in BOOLEAN, own_shell \in BOOLEAN :
        StartSession(c, AccountOf[c], attach, own_shell, live, registry, client, table)
  BY DEF HandleStart
<1>3. /\ Sound(live', registry', connOf) /\ Table(table')
      /\ running = "up" => Written(live', registry', table')
      /\ client' \in [Clients -> ClientStates] /\ GivenTo(client', connOf)
      /\ next_id' \in Nat \ {0} /\ launching' \subseteq LaunchJob
      /\ process' \in [Agents -> ProcessStates]
  BY <1>1, <1>2, StartSessionOK DEF FInv, TableOK, BrokerTypeOK
<1>4. connOf' = connOf /\ running' = running
  BY DEF HandleStart, processVars
<1>5. BrokerTypeOK'
  BY <1>3 DEF HandleStart, FInv, BrokerTypeOK, processVars, socketVars
<1>6. GateTypeOK'
  BY DEF HandleStart, FInv, GateTypeOK, seatVars, gateVars, busVars
<1>7. turn' \in 0..AtSettle
  BY TurnOK DEF HandleStart, AtMailbox, AtSettle
<1>8. RestTypeOK'
  BY <1>3, <1>7 DEF HandleStart, FInv, RestTypeOK, processVars, seatVars, gateVars
<1>. QED  BY <1>3, <1>4, <1>5, <1>6, <1>8 DEF FInv, TableOK

LEMMA HandleDesktopGoneStep ==
    ASSUME FInv, NEW c \in Clients, NEW s \in DOMAIN live, HandleDesktopGone(c, s)
    PROVE  FInv'
<1>. DEFINE l == Restrict(live, DOMAIN live \ {s})
            r == Remove(registry, s)
            saved == IF running = "up" THEN Remembered(l, r) ELSE table
            cl == Abandon(client, live[s])
<1>1. connOf[c] > 0 /\ AccountOf[c] \in Accounts
  BY AuthenticatedOK DEF HandleDesktopGone, ExistingFor
<1>2. /\ Sound(l, r, connOf) /\ Table(saved) /\ (running = "up" => Written(l, r, saved))
      /\ cl \in [Clients -> ClientStates] /\ GivenTo(cl, connOf)
      /\ NotOf(prompts, s) \subseteq Prompt /\ Stopped(live[s]) \subseteq Agents
  BY ReplacedOK
<1>3. live[s].token \in Agents /\ registry[s].attached \in BOOLEAN
  BY DEF FInv, Sound, LiveSession, Session
<1>4. /\ StartSession(c, AccountOf[c], registry[s].attached, FALSE, l, r, cl, saved)
      /\ prompts' = NotOf(prompts, s) /\ signalled' = signalled \cup Stopped(live[s])
      /\ CloseLink(live[s])
  BY DEF HandleDesktopGone
<1>. HIDE DEF l, r, saved, cl
<1>5. /\ Sound(live', registry', connOf) /\ Table(table')
      /\ running = "up" => Written(live', registry', table')
      /\ client' \in [Clients -> ClientStates] /\ GivenTo(client', connOf)
      /\ next_id' \in Nat \ {0} /\ launching' \subseteq LaunchJob
      /\ process' \in [Agents -> ProcessStates]
  BY <1>1, <1>2, <1>3, <1>4, StartSessionOK DEF FInv
<1>6. /\ daemonEnd' \in [Agents -> {"none", "queued", "unclaimed", "session"}]
      /\ toDaemon' \in [Agents -> Seq(AgentMessage)] /\ inbox' \in [Agents -> Nat]
  BY <1>3, <1>4, CloseLinkOK DEF FInv
<1>7. connOf' = connOf /\ running' = running
  BY DEF HandleDesktopGone, processVars
<1>8. BrokerTypeOK'
  BY <1>2, <1>4, <1>5, <1>6 DEF HandleDesktopGone, FInv, BrokerTypeOK, processVars
<1>9. GateTypeOK'
  BY DEF HandleDesktopGone, FInv, GateTypeOK, seatVars, gateVars, busVars
<1>10. turn' \in 0..AtSettle
  <2>1. Turn(AtMailbox)
    BY DEF HandleDesktopGone
  <2>. QED  BY <2>1, TurnOK DEF AtMailbox, AtSettle
<1>11. RestTypeOK'
  BY <1>2, <1>4, <1>5, <1>10 DEF HandleDesktopGone, FInv, RestTypeOK, processVars, seatVars, gateVars
<1>. QED  BY <1>5, <1>7, <1>8, <1>9, <1>11 DEF FInv, TableOK

LEMMA HandleWaitsStep ==
    ASSUME FInv, NEW c \in Clients, NEW s \in DOMAIN live, HandleWaits(c, s)
    PROVE  FInv'
<1>. DEFINE e == [live[s] EXCEPT !.waiting = c]
<1>1. connOf[c] > 0
  BY AuthenticatedOK DEF HandleWaits, ExistingFor
<1>2. /\ live \in [DOMAIN live -> LiveSession] /\ live[s] \in LiveSession
      /\ Mirrors(live[s], registry[s]) /\ Numbered(live[s], connOf) /\ ~live[s].link
  BY DEF FInv, Sound, HandleWaits
<1>3. /\ e \in LiveSession /\ e.token = live[s].token /\ e.link = live[s].link
      /\ e.terminated = live[s].terminated
  BY <1>2 DEF LiveSession
<1>4. Mirrors(e, registry[s]) /\ Numbered(e, connOf)
  BY <1>1, <1>2 DEF Mirrors, Numbered, LiveSession
<1>5. /\ live' = [live EXCEPT ![s] = e] /\ registry' = registry /\ connOf' = connOf
      /\ table' = table /\ running' = running
  BY <1>2 DEF HandleWaits, countVars, processVars
<1>. HIDE DEF e
<1>6. /\ Sound([live EXCEPT ![s] = e], registry, connOf)
      /\ \A tb : Written(live, registry, tb) => Written([live EXCEPT ![s] = e], registry, tb)
  BY <1>3, <1>4, LiveChange DEF FInv
<1>7. Sound(live', registry', connOf') /\ TableOK'
  BY <1>5, <1>6 DEF FInv, TableOK
<1>8. client' \in [Clients -> ClientStates] /\ GivenTo(client', connOf')
  BY <1>5 DEF HandleWaits, FInv, BrokerTypeOK, GivenTo, ClientStates
<1>9. BrokerTypeOK'
  BY <1>8 DEF HandleWaits, FInv, BrokerTypeOK, processVars, socketVars, countVars
<1>10. GateTypeOK'
  BY DEF HandleWaits, FInv, GateTypeOK, seatVars, gateVars, busVars
<1>11. turn' \in 0..AtSettle
  BY TurnOK DEF HandleWaits, AtMailbox, AtSettle
<1>12. RestTypeOK'
  BY <1>11 DEF HandleWaits, FInv, RestTypeOK, processVars, seatVars, gateVars, mailVars, countVars
<1>. QED  BY <1>7, <1>8, <1>9, <1>10, <1>12 DEF FInv

LEMMA HandleDeliverStep ==
    ASSUME FInv, NEW c \in Clients, NEW s \in DOMAIN live, HandleDeliver(c, s)
    PROVE  FInv'
<1>1. connOf[c] > 0 /\ live[s].link
  BY AuthenticatedOK DEF HandleDeliver, ExistingFor
<1>2. turn' \in 0..AtSettle
  BY TurnOK DEF HandleDeliver, AtMailbox, AtSettle
<1>3. /\ client \in [Clients -> ClientStates] /\ GivenTo(client, connOf)
      /\ live \in [DOMAIN live -> LiveSession]
  BY DEF FInv, BrokerTypeOK, Sound
<1>4. UNCHANGED <<resolutions, processVars, seatVars, mailVars, countVars>>
  BY DEF HandleDeliver
<1>5. ASSUME NEW isHeld, Deliver(live, registry, s, c, isHeld, << >>), UNCHANGED <<table, socketVars>>
      PROVE  FInv'
  <2>1. /\ Sound(live', registry', connOf)
        /\ \A tb : Written(live, registry, tb) => Written(live', registry', tb)
        /\ client' \in [Clients -> ClientStates] /\ GivenTo(client', connOf)
        /\ prompts' \subseteq Prompt
        /\ DOMAIN toAgent' = Agents /\ unlocking' \subseteq SeatUsers
    BY <1>1, <1>5, DeliverOK DEF FInv, RestTypeOK
  <2>2. connOf' = connOf /\ running' = running
    BY <1>4 DEF countVars, processVars
  <2>3. TableOK'
    BY <1>5, <2>1, <2>2 DEF FInv, TableOK
  <2>4. BrokerTypeOK'
    BY <1>4, <1>5, <2>1 DEF FInv, BrokerTypeOK, processVars, socketVars, countVars
  <2>5. GateTypeOK'
    BY <1>4 DEF FInv, GateTypeOK, seatVars, gateVars, busVars
  <2>6. RestTypeOK'
    BY <1>2, <1>4, <2>1 DEF FInv, RestTypeOK, processVars, seatVars, gateVars, mailVars, countVars
  <2>. QED  BY <2>1, <2>2, <2>3, <2>4, <2>5, <2>6 DEF FInv
<1>6. ASSUME EndSession([live EXCEPT ![s].asking = c], registry, s, Older(client, live[s])),
             UNCHANGED <<toAgent, unlocking>>
      PROVE  FInv'
  <2>. DEFINE l == [live EXCEPT ![s].asking = c]
              cl == Older(client, live[s])
  <2>1. /\ s \in DOMAIN l /\ l[s].token = live[s].token
        /\ Restrict(l, DOMAIN l \ {s}) = Restrict(live, DOMAIN live \ {s})
    BY <1>3 DEF Restrict, LiveSession
  <2>2. cl \in [Clients -> ClientStates] /\ GivenTo(cl, connOf)
    BY <1>3 DEF Older, GivenTo, ClientStates
  <2>. HIDE DEF l, cl
  <2>3. EndSession(l, registry, s, cl)
    BY <1>6 DEF l, cl
  <2>. QED  BY <1>2, <1>4, <1>6, <2>1, <2>2, <2>3, WithoutOK, EndStep
<1>7. ASSUME EndSession(live, registry, s, [client EXCEPT ![c] = "dropped"]),
             UNCHANGED <<toAgent, unlocking>>
      PROVE  FInv'
  <2>. DEFINE cl == [client EXCEPT ![c] = "dropped"]
  <2>1. cl \in [Clients -> ClientStates] /\ GivenTo(cl, connOf)
    BY <1>3 DEF GivenTo, ClientStates
  <2>. HIDE DEF cl
  <2>2. EndSession(live, registry, s, cl)
    BY <1>7 DEF cl
  <2>. QED  BY <1>2, <1>4, <1>7, <2>1, <2>2, WithoutOK, EndStep
<1>. QED  BY <1>5, <1>6, <1>7 DEF HandleDeliver

LEMMA HandleAuthenticatedStep ==
    ASSUME FInv, NEW c \in Clients, HandleAuthenticated(c)
    PROVE  FInv'
BY TurnAwayStep, HandleStartStep, HandleDesktopGoneStep, HandleWaitsStep, HandleDeliverStep
   DEF HandleAuthenticated, HandleUnknown, HandleRefused
=============================================================================
