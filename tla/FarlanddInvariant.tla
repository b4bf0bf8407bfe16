------------------------- MODULE FarlanddInvariant --------------------------
(***************************************************************************)
(* The inductive invariant FInv of farlandd, and what the operations on    *)
(* its sessions do to it. The steps are proved in FarlanddAgents,          *)
(* FarlanddClients and FarlanddTick, and put together in FarlanddProofs.   *)
(***************************************************************************)
EXTENDS Farlandd, TLAPS

(* A client a session keeps was given a number by accept_client().         *)
Numbered(e, n) ==
    /\ e.waiting # NoClient => n[e.waiting] > 0
    /\ e.asking # NoClient => n[e.asking] > 0

Bounded(S) == \E b \in Nat : \A x \in S : x < b

(* The two lists of sessions, kept in step; n are the clients' numbers.    *)
Sound(l, r, n) ==
    /\ l \in [DOMAIN l -> LiveSession] /\ r \in [DOMAIN l -> Session]
    /\ DOMAIN l \subseteq Nat \ {0} /\ Bounded(DOMAIN l)
    /\ \A s \in DOMAIN l : Mirrors(l[s], r[s]) /\ Numbered(l[s], n)

(* The table on disk tb can bring back what l and r hold.                  *)
Written(l, r, tb) ==
    \A s \in DOMAIN l : l[s].link /\ ~l[s].terminated =>
        /\ s \in DOMAIN tb
        /\ tb[s].token = l[s].token
        /\ tb[s].account = r[s].account
        /\ tb[s].attached = r[s].attached

Table(tb) ==
    /\ tb \in [DOMAIN tb -> StoredSession]
    /\ DOMAIN tb \subseteq Nat \ {0} /\ Bounded(DOMAIN tb)

(* Numbers are given out before a client can be kept.                      *)
GivenTo(cl, n) == \A c \in Clients : cl[c] \in {"logging_in", "posted"} => n[c] > 0

(* The variables of farlandd that are not about its sessions.              *)
RestTypeOK ==
    /\ running \in {"up", "stopping", "draining", "down"}
    /\ restarts \in Nat /\ turn \in 0..AtSettle
    /\ next_id \in Nat \ {0} /\ next_connection \in Nat \ {0}
    /\ prompts \subseteq Prompt /\ resolutions \subseteq Resolved
    /\ threads \subseteq Clients /\ launching \subseteq LaunchJob
    /\ launched \subseteq [job: LaunchJob, ok: BOOLEAN]
    /\ terminations \subseteq Nat
    /\ foreign \subseteq Agents /\ held \subseteq Accounts
    /\ seat_questions \subseteq Logins
    /\ unlocking \subseteq SeatUsers

TableOK == Table(table) /\ (running = "up" => Written(live, registry, table))

FInv ==
    /\ BrokerTypeOK /\ GateTypeOK /\ RestTypeOK
    /\ GivenTo(client, connOf)
    /\ Sound(live, registry, connOf)
    /\ TableOK


-----------------------------------------------------------------------------
(* The two lists: one session leaves, changes, or comes.                   *)

LEMMA SoundRemove ==
    ASSUME NEW l, NEW r, NEW n, Sound(l, r, n), NEW S
    PROVE  Sound(Restrict(l, DOMAIN l \ S), Restrict(r, DOMAIN r \ S), n)
BY DEF Sound, Restrict, Bounded

LEMMA SoundChange ==
    ASSUME NEW l, NEW r, NEW n, Sound(l, r, n), NEW s \in DOMAIN l,
           NEW e \in LiveSession, NEW q \in Session, Mirrors(e, q), Numbered(e, n)
    PROVE  Sound([l EXCEPT ![s] = e], [r EXCEPT ![s] = q], n)
BY DEF Sound

LEMMA SoundPut ==
    ASSUME NEW l, NEW r, NEW n, Sound(l, r, n), NEW s \in Nat \ {0},
           NEW e \in LiveSession, NEW q \in Session, Mirrors(e, q), Numbered(e, n)
    PROVE  Sound(Put(l, s, e), Put(r, s, q), n)
<1>1. Bounded(DOMAIN l \cup {s})
  <2>1. PICK b \in Nat : \A x \in DOMAIN l : x < b
    BY DEF Sound, Bounded
  <2>2. b + s + 1 \in Nat /\ \A x \in DOMAIN l \cup {s} : x < b + s + 1
    BY <2>1 DEF Sound
  <2>. QED  BY <2>2 DEF Bounded
<1>2. DOMAIN Put(l, s, e) = DOMAIN l \cup {s}
  BY DEF Put
<1>. QED  BY <1>1, <1>2 DEF Sound, Put

LEMMA RememberedWritten ==
    ASSUME NEW l, NEW r, NEW n, Sound(l, r, n)
    PROVE  Table(Remembered(l, r)) /\ Written(l, r, Remembered(l, r))
<1>1. Table(Remembered(l, r))
  <2>1. Bounded(DOMAIN Remembered(l, r))
    BY DEF Sound, Remembered, Bounded
  <2>. QED  BY <2>1 DEF Sound, Table, Remembered, LiveSession, Session, StoredSession
<1>2. Written(l, r, Remembered(l, r))
  BY DEF Sound, Written, Remembered
<1>. QED  BY <1>1, <1>2

(* One agent's entry of a function of the agents changes.                  *)
LEMMA EntryOK ==
    ASSUME NEW V, NEW f \in [Agents -> V], NEW t \in Agents, NEW v \in V
    PROVE  [f EXCEPT ![t] = v] \in [Agents -> V]
OBVIOUS

LEMMA CloseLinkOK ==
    ASSUME NEW e, e.token \in Agents, BrokerTypeOK, CloseLink(e)
    PROVE  /\ daemonEnd' \in [Agents -> {"none", "queued", "unclaimed", "session"}]
           /\ toDaemon' \in [Agents -> Seq(AgentMessage)] /\ inbox' \in [Agents -> Nat]
<1>1. daemonEnd' \in [Agents -> {"none", "queued", "unclaimed", "session"}]
  <2>1. daemonEnd \in [Agents -> {"none", "queued", "unclaimed", "session"}]
    BY DEF BrokerTypeOK
  <2>2. daemonEnd' = daemonEnd \/ daemonEnd' = [daemonEnd EXCEPT ![e.token] = "none"]
    BY DEF CloseLink
  <2>. QED  BY <2>1, <2>2
<1>2. toDaemon' \in [Agents -> Seq(AgentMessage)]
  <2>1. << >> \in Seq(AgentMessage) /\ toDaemon \in [Agents -> Seq(AgentMessage)]
    BY DEF BrokerTypeOK
  <2>2. toDaemon' = toDaemon \/ toDaemon' = [toDaemon EXCEPT ![e.token] = << >>]
    BY DEF CloseLink
  <2>. QED  BY <2>1, <2>2, EntryOK
<1>3. inbox' \in [Agents -> Nat]
  <2>1. inbox \in [Agents -> Nat]
    BY DEF BrokerTypeOK
  <2>2. inbox' = inbox \/ inbox' = [inbox EXCEPT ![e.token] = 0]
    BY DEF CloseLink
  <2>. QED  BY <2>1, <2>2
<1>. QED  BY <1>1, <1>2, <1>3

LEMMA EndSessionOK ==
    ASSUME NEW l, NEW r, NEW s \in DOMAIN l, NEW cl \in [Clients -> ClientStates],
           BrokerTypeOK, prompts \subseteq Prompt, Table(table), l[s].token \in Agents,
           Sound(Restrict(l, DOMAIN l \ {s}), Restrict(r, DOMAIN r \ {s}), connOf),
           GivenTo(cl, connOf), EndSession(l, r, s, cl)
    PROVE  /\ Sound(live', registry', connOf) /\ Table(table')
           /\ running = "up" => Written(live', registry', table')
           /\ prompts' \subseteq Prompt
           /\ client' \in [Clients -> ClientStates] /\ GivenTo(client', connOf)
           /\ signalled' \subseteq Agents
           /\ daemonEnd' \in [Agents -> {"none", "queued", "unclaimed", "session"}]
           /\ toDaemon' \in [Agents -> Seq(AgentMessage)] /\ inbox' \in [Agents -> Nat]
<1>1. Sound(live', registry', connOf)
  BY DEF EndSession, Remove
<1>2. Table(table') /\ (running = "up" => Written(live', registry', table'))
  BY <1>1, RememberedWritten DEF EndSession
<1>3. prompts' \subseteq Prompt
  BY DEF EndSession, NotOf
<1>4. client' \in [Clients -> ClientStates] /\ GivenTo(client', connOf)
  BY DEF EndSession, Abandon, GivenTo, ClientStates
<1>5. signalled' \subseteq Agents
  BY DEF EndSession, Stopped, BrokerTypeOK
<1>. QED  BY <1>1, <1>2, <1>3, <1>4, <1>5, CloseLinkOK DEF EndSession

LEMMA StartSessionOK ==
    ASSUME NEW c \in Clients, NEW account \in Accounts, NEW attach \in BOOLEAN,
           NEW own_shell \in BOOLEAN, NEW l, NEW r, NEW cl \in [Clients -> ClientStates],
           NEW saved, BrokerTypeOK, RestTypeOK, connOf[c] > 0, Table(saved),
           running = "up" => Written(l, r, saved),
           GivenTo(cl, connOf), Sound(l, r, connOf),
           StartSession(c, account, attach, own_shell, l, r, cl, saved)
    PROVE  /\ Sound(live', registry', connOf) /\ Table(table')
           /\ running = "up" => Written(live', registry', table')
           /\ client' \in [Clients -> ClientStates] /\ GivenTo(client', connOf)
           /\ next_id' \in Nat \ {0} /\ launching' \subseteq LaunchJob
           /\ process' \in [Agents -> ProcessStates]
<1>. DEFINE kind == LaunchKind(attach, own_shell)
<1>1. kind \in {"spawn", "gdm", "unit"}
  BY DEF LaunchKind
<1>2. next_id' \in Nat \ {0}
  BY DEF StartSession, RestTypeOK
<1>3. ASSUME NEW t \in Agents
      PROVE  /\ NewLive(t, c, kind) \in LiveSession /\ NewSession(account, attach) \in Session
             /\ Mirrors(NewLive(t, c, kind), NewSession(account, attach))
             /\ Numbered(NewLive(t, c, kind), connOf)
             /\ ~NewLive(t, c, kind).link
  BY <1>1 DEF NewLive, NewSession, LiveSession, Session, Mirrors, Numbered
<1>4. CASE live' = l /\ registry' = r /\ UNCHANGED <<process, launching>>
           /\ client' \in {[cl EXCEPT ![c] = "refused"], [cl EXCEPT ![c] = "dropped"]}
           /\ (table' = saved \/ table' = IF running = "up" THEN Remembered(l, r) ELSE saved)
  <2>1. Table(table') /\ (running = "up" => Written(live', registry', table'))
    BY <1>4, RememberedWritten
  <2>2. client' \in [Clients -> ClientStates] /\ GivenTo(client', connOf)
    BY <1>4 DEF GivenTo, ClientStates
  <2>. QED  BY <1>2, <1>4, <2>1, <2>2 DEF BrokerTypeOK, RestTypeOK
<1>5. ASSUME NEW t \in Agents,
             IF kind = "spawn"
             THEN /\ process' = [process EXCEPT ![t] = "starting"]
                  /\ UNCHANGED launching
             ELSE /\ process' = [process EXCEPT ![t] = "launching"]
                  /\ launching' = launching \cup
                       {[agent |-> t, account |-> account, gdm |-> kind = "gdm"]},
             live' = Put(l, next_id, NewLive(t, c, kind)),
             registry' = Create(r, next_id, account, attach),
             client' = [cl EXCEPT ![c] = "kept"], table' = saved
      PROVE  /\ Sound(live', registry', connOf) /\ Table(table')
             /\ running = "up" => Written(live', registry', table')
             /\ client' \in [Clients -> ClientStates] /\ GivenTo(client', connOf)
             /\ launching' \subseteq LaunchJob
             /\ process' \in [Agents -> ProcessStates]
  <2>1. Sound(live', registry', connOf)
    BY <1>3, <1>5, SoundPut DEF Create, RestTypeOK
  <2>2. running = "up" => Written(live', registry', table')
    <3>. DOMAIN r = DOMAIN l
      BY DEF Sound
    <3>. QED  BY <1>3, <1>5 DEF Written, Put, Create
  <2>3. client' \in [Clients -> ClientStates] /\ GivenTo(client', connOf)
    BY <1>5 DEF GivenTo, ClientStates
  <2>4. process' \in [Agents -> ProcessStates]
    BY <1>5 DEF BrokerTypeOK, ProcessStates
  <2>5. launching' \subseteq LaunchJob
    <3>. (kind = "gdm") \in BOOLEAN
      OBVIOUS
    <3>. [agent |-> t, account |-> account, gdm |-> kind = "gdm"] \in LaunchJob
      BY DEF LaunchJob
    <3>. QED  BY <1>5 DEF RestTypeOK
  <2>. QED  BY <1>5, <2>1, <2>2, <2>3, <2>4, <2>5
<1>. QED  BY <1>2, <1>4, <1>5 DEF StartSession

LEMMA WrittenChange ==
    ASSUME NEW l, NEW r, NEW n, Sound(l, r, n), NEW s \in DOMAIN l, NEW tb, Written(l, r, tb),
           NEW e, NEW q, q.account = r[s].account, q.attached = r[s].attached,
           e.token = l[s].token, e.link => l[s].link, l[s].terminated => e.terminated
    PROVE  Written([l EXCEPT ![s] = e], [r EXCEPT ![s] = q], tb)
BY DEF Sound, Written

LEMMA SayOK ==
    ASSUME NEW t, NEW said, DOMAIN toAgent = Agents, Say(t, said)
    PROVE  DOMAIN toAgent' = Agents
BY DEF Say

(* What the registry knows of one session changes, or its Live does.       *)
LEMMA RegistryChange ==
    ASSUME NEW l, NEW r, NEW n, Sound(l, r, n), NEW s \in DOMAIN l, NEW q \in Session,
           Mirrors(l[s], q), q.account = r[s].account, q.attached = r[s].attached
    PROVE  /\ Sound(l, [r EXCEPT ![s] = q], n)
           /\ \A tb : Written(l, r, tb) => Written(l, [r EXCEPT ![s] = q], tb)
<1>1. l[s] \in LiveSession /\ Numbered(l[s], n) /\ l = [l EXCEPT ![s] = l[s]]
  BY DEF Sound
<1>2. Sound(l, [r EXCEPT ![s] = q], n)
  <2>. Sound([l EXCEPT ![s] = l[s]], [r EXCEPT ![s] = q], n)
    BY <1>1, SoundChange
  <2>. QED  BY <1>1
<1>3. ASSUME NEW tb, Written(l, r, tb)
      PROVE  Written(l, [r EXCEPT ![s] = q], tb)
  <2>. Written([l EXCEPT ![s] = l[s]], [r EXCEPT ![s] = q], tb)
    BY <1>3, WrittenChange
  <2>. QED  BY <1>1
<1>. QED  BY <1>2, <1>3

LEMMA LiveChange ==
    ASSUME NEW l, NEW r, NEW n, Sound(l, r, n), NEW s \in DOMAIN l, NEW e \in LiveSession,
           Mirrors(e, r[s]), Numbered(e, n), e.token = l[s].token, e.link => l[s].link,
           l[s].terminated => e.terminated
    PROVE  /\ Sound([l EXCEPT ![s] = e], r, n)
           /\ \A tb : Written(l, r, tb) => Written([l EXCEPT ![s] = e], r, tb)
<1>1. r[s] \in Session /\ r = [r EXCEPT ![s] = r[s]]
  BY DEF Sound
<1>2. Sound([l EXCEPT ![s] = e], r, n)
  <2>. Sound([l EXCEPT ![s] = e], [r EXCEPT ![s] = r[s]], n)
    BY <1>1, SoundChange
  <2>. QED  BY <1>1
<1>3. ASSUME NEW tb, Written(l, r, tb)
      PROVE  Written([l EXCEPT ![s] = e], r, tb)
  <2>. Written([l EXCEPT ![s] = e], [r EXCEPT ![s] = r[s]], tb)
    BY <1>3, WrittenChange
  <2>. QED  BY <1>1
<1>. QED  BY <1>2, <1>3

(* The methods of SessionRegistry that change one session.                 *)
LEMMA ConnectOK ==
    ASSUME NEW l, NEW r, NEW m, Sound(l, r, m), NEW s \in DOMAIN l, NEW n \in Nat \ {0}
    PROVE  /\ Sound(l, Connect(r, s, n), m)
           /\ \A tb : Written(l, r, tb) => Written(l, Connect(r, s, n), tb)
<1>. DEFINE q == [r[s] EXCEPT !.connection = n, !.disconnected_since = FALSE,
                              !.idle = FALSE, !.idle_disconnect_sent = FALSE]
<1>1. r[s] \in Session /\ Mirrors(l[s], r[s]) /\ r \in [DOMAIN l -> Session]
  BY DEF Sound
<1>2. q \in Session /\ q.account = r[s].account /\ q.attached = r[s].attached
  BY <1>1 DEF Session
<1>3. Mirrors(l[s], q)
  BY <1>1 DEF Mirrors, Session
<1>4. Connect(r, s, n) = [r EXCEPT ![s] = q]
  BY <1>1 DEF Connect
<1>. HIDE DEF q
<1>5. /\ Sound(l, [r EXCEPT ![s] = q], m)
      /\ \A tb : Written(l, r, tb) => Written(l, [r EXCEPT ![s] = q], tb)
  BY <1>2, <1>3, RegistryChange
<1>. QED  BY <1>4, <1>5

LEMMA DisconnectedOK ==
    ASSUME NEW l, NEW r, NEW m, Sound(l, r, m), NEW s \in DOMAIN l, NEW n
    PROVE  /\ Sound(l, Disconnected(r, s, n), m)
           /\ \A tb : Written(l, r, tb) => Written(l, Disconnected(r, s, n), tb)
<1>. DEFINE q == [r[s] EXCEPT !.connection = 0, !.disconnected_since = TRUE, !.idle = FALSE]
<1>1. r[s] \in Session /\ Mirrors(l[s], r[s]) /\ r \in [DOMAIN l -> Session]
  BY DEF Sound
<1>2. q \in Session /\ q.account = r[s].account /\ q.attached = r[s].attached
  BY <1>1 DEF Session
<1>3. Mirrors(l[s], q)
  BY <1>1 DEF Mirrors, Session
<1>4. Disconnected(r, s, n) = r \/ Disconnected(r, s, n) = [r EXCEPT ![s] = q]
  BY <1>1 DEF Disconnected
<1>. HIDE DEF q
<1>. QED  BY <1>2, <1>3, <1>4, RegistryChange

LEMMA UpdateIdleOK ==
    ASSUME NEW l, NEW r, NEW m, Sound(l, r, m), NEW s \in DOMAIN l, NEW n, NEW idle \in BOOLEAN
    PROVE  /\ Sound(l, UpdateIdle(r, s, n, idle), m)
           /\ \A tb : Written(l, r, tb) => Written(l, UpdateIdle(r, s, n, idle), tb)
<1>. DEFINE q == [r[s] EXCEPT !.idle = idle]
<1>1. r[s] \in Session /\ Mirrors(l[s], r[s]) /\ r \in [DOMAIN l -> Session]
  BY DEF Sound
<1>2. q \in Session /\ q.account = r[s].account /\ q.attached = r[s].attached
  BY <1>1 DEF Session
<1>3. Mirrors(l[s], q)
  BY <1>1 DEF Mirrors, Session
<1>4. UpdateIdle(r, s, n, idle) = r \/ UpdateIdle(r, s, n, idle) = [r EXCEPT ![s] = q]
  BY <1>1 DEF UpdateIdle
<1>. HIDE DEF q
<1>. QED  BY <1>2, <1>3, <1>4, RegistryChange

LEMMA AdoptConnectionOK ==
    ASSUME NEW l, NEW r, NEW m, Sound(l, r, m), NEW s \in DOMAIN l, NEW n \in Nat
    PROVE  /\ Sound(l, AdoptConnection(r, s, n), m)
           /\ \A tb : Written(l, r, tb) => Written(l, AdoptConnection(r, s, n), tb)
<1>. DEFINE q == [r[s] EXCEPT !.connection = n, !.disconnected_since = FALSE,
                              !.idle_disconnect_sent = FALSE]
<1>1. r[s] \in Session /\ Mirrors(l[s], r[s]) /\ r \in [DOMAIN l -> Session]
  BY DEF Sound
<1>2. q \in Session /\ q.account = r[s].account /\ q.attached = r[s].attached
  BY <1>1 DEF Session
<1>3. n # 0 => Mirrors(l[s], q)
  BY <1>1 DEF Mirrors, Session
<1>4. \/ AdoptConnection(r, s, n) = r
      \/ n # 0 /\ AdoptConnection(r, s, n) = [r EXCEPT ![s] = q]
  BY <1>1 DEF AdoptConnection
<1>. HIDE DEF q
<1>. QED  BY <1>2, <1>3, <1>4, RegistryChange

LEMMA SetEndingOK ==
    ASSUME NEW l, NEW r, NEW m, Sound(l, r, m), NEW s
    PROVE  /\ Sound(l, SetEnding(r, s), m)
           /\ \A tb : Written(l, r, tb) => Written(l, SetEnding(r, s), tb)
<1>1. CASE s \notin DOMAIN r
  BY <1>1 DEF SetEnding
<1>2. CASE s \in DOMAIN r
  <2>. DEFINE q == [r[s] EXCEPT !.state = "ending"]
  <2>1. /\ s \in DOMAIN l /\ r[s] \in Session /\ Mirrors(l[s], r[s])
        /\ r \in [DOMAIN l -> Session]
    BY <1>2 DEF Sound
  <2>2. q \in Session /\ q.account = r[s].account /\ q.attached = r[s].attached
    BY <2>1 DEF Session
  <2>3. Mirrors(l[s], q)
    BY <2>1 DEF Mirrors, Session
  <2>4. SetEnding(r, s) = [r EXCEPT ![s] = q]
    BY <1>2, <2>1 DEF SetEnding
  <2>. HIDE DEF q
  <2>5. /\ Sound(l, [r EXCEPT ![s] = q], m)
        /\ \A tb : Written(l, r, tb) => Written(l, [r EXCEPT ![s] = q], tb)
    BY <2>1, <2>2, <2>3, RegistryChange
  <2>. QED  BY <2>4, <2>5
<1>. QED  BY <1>1, <1>2

LEMMA IdleDisconnectSentOK ==
    ASSUME NEW l, NEW r, NEW m, Sound(l, r, m), NEW s \in DOMAIN l
    PROVE  /\ Sound(l, IdleDisconnectSent(r, s), m)
           /\ \A tb : Written(l, r, tb) => Written(l, IdleDisconnectSent(r, s), tb)
<1>. DEFINE q == [r[s] EXCEPT !.idle_disconnect_sent = TRUE]
<1>1. r[s] \in Session /\ Mirrors(l[s], r[s]) /\ r \in [DOMAIN l -> Session]
  BY DEF Sound
<1>2. q \in Session /\ q.account = r[s].account /\ q.attached = r[s].attached
  BY <1>1 DEF Session
<1>3. Mirrors(l[s], q)
  BY <1>1 DEF Mirrors, Session
<1>4. IdleDisconnectSent(r, s) = [r EXCEPT ![s] = q]
  BY <1>1 DEF IdleDisconnectSent
<1>. HIDE DEF q
<1>5. /\ Sound(l, [r EXCEPT ![s] = q], m)
      /\ \A tb : Written(l, r, tb) => Written(l, [r EXCEPT ![s] = q], tb)
  BY <1>2, <1>3, RegistryChange
<1>. QED  BY <1>4, <1>5

LEMMA HandOverOK ==
    ASSUME NEW l, NEW r, NEW s \in DOMAIN l, NEW c \in Clients, NEW said,
           BrokerTypeOK, unlocking \subseteq SeatUsers, connOf[c] > 0,
           GivenTo(client, connOf), Sound(l, r, connOf), HandOver(l, r, s, c, said)
    PROVE  /\ Sound(live', registry', connOf)
           /\ \A tb : Written(l, r, tb) => Written(live', registry', tb)
           /\ client' \in [Clients -> ClientStates] /\ GivenTo(client', connOf)
           /\ DOMAIN toAgent' = Agents /\ unlocking' \subseteq SeatUsers
<1>1. connOf[c] \in Nat \ {0}
  BY DEF BrokerTypeOK
<1>2. live' = l /\ registry' = Connect(r, s, connOf[c])
  BY DEF HandOver
<1>3. client' \in [Clients -> ClientStates] /\ GivenTo(client', connOf)
  BY DEF HandOver, BrokerTypeOK, GivenTo, ClientStates
<1>4. DOMAIN toAgent' = Agents
  BY DEF HandOver, Say, BrokerTypeOK
<1>5. unlocking' \subseteq SeatUsers
  BY DEF HandOver
<1>. QED  BY <1>1, <1>2, <1>3, <1>4, <1>5, ConnectOK

LEMMA AskConsentOK ==
    ASSUME NEW l, NEW r, NEW s \in DOMAIN l, NEW c \in Clients, NEW said, l[s].link,
           BrokerTypeOK, unlocking \subseteq SeatUsers, prompts \subseteq Prompt, connOf[c] > 0,
           GivenTo(client, connOf), Sound(l, r, connOf), AskConsent(l, r, s, c, said)
    PROVE  /\ Sound(live', registry', connOf)
           /\ \A tb : Written(l, r, tb) => Written(live', registry', tb)
           /\ client' \in [Clients -> ClientStates] /\ GivenTo(client', connOf)
           /\ prompts' \subseteq Prompt
           /\ DOMAIN toAgent' = Agents /\ unlocking' \subseteq SeatUsers
<1>. DEFINE e == [l[s] EXCEPT !.asking = c]
<1>1. r \in [DOMAIN l -> Session] /\ l \in [DOMAIN l -> LiveSession]
  BY DEF Sound
<1>2. l[s] \in LiveSession /\ r[s] \in Session /\ Mirrors(l[s], r[s]) /\ Numbered(l[s], connOf)
  BY DEF Sound
<1>3. /\ e \in LiveSession /\ e.token = l[s].token /\ e.link = l[s].link
      /\ e.terminated = l[s].terminated
  BY <1>2 DEF LiveSession
<1>4. Mirrors(e, r[s]) /\ Numbered(e, connOf)
  BY <1>2 DEF Mirrors, Numbered, LiveSession
<1>5. live' = [l EXCEPT ![s] = e] /\ registry' = [r EXCEPT ![s] = r[s]]
  BY <1>1 DEF AskConsent
<1>6. Sound(live', registry', connOf)
  BY <1>2, <1>3, <1>4, <1>5, SoundChange
<1>7. ASSUME NEW tb, Written(l, r, tb)
      PROVE  Written(live', registry', tb)
  BY <1>3, <1>5, <1>7, WrittenChange
<1>8. client' \in [Clients -> ClientStates] /\ GivenTo(client', connOf)
  BY DEF AskConsent, Older, BrokerTypeOK, GivenTo, ClientStates
<1>9. prompts' \subseteq Prompt
  <2>. s \in Nat /\ connOf[c] \in Int
    BY DEF Sound, BrokerTypeOK
  <2>. [session |-> s, connection |-> connOf[c]] \in Prompt
    BY DEF Prompt
  <2>. QED  BY DEF AskConsent, Ask, Forget
<1>10. DOMAIN toAgent' = Agents /\ unlocking' \subseteq SeatUsers
  BY DEF AskConsent, Say, BrokerTypeOK
<1>. QED  BY <1>6, <1>7, <1>8, <1>9, <1>10

LEMMA DeliverOK ==
    ASSUME NEW l, NEW r, NEW s \in DOMAIN l, NEW c \in Clients, NEW isHeld, NEW said, l[s].link,
           BrokerTypeOK, unlocking \subseteq SeatUsers, prompts \subseteq Prompt, connOf[c] > 0,
           GivenTo(client, connOf), Sound(l, r, connOf), Deliver(l, r, s, c, isHeld, said)
    PROVE  /\ Sound(live', registry', connOf)
           /\ \A tb : Written(l, r, tb) => Written(live', registry', tb)
           /\ client' \in [Clients -> ClientStates] /\ GivenTo(client', connOf)
           /\ prompts' \subseteq Prompt
           /\ DOMAIN toAgent' = Agents /\ unlocking' \subseteq SeatUsers
<1>1. CASE AskConsent(l, r, s, c, said)
  BY <1>1, AskConsentOK
<1>2. CASE HandOver(l, r, s, c, said) /\ UNCHANGED prompts
  BY <1>2, HandOverOK
<1>3. CASE /\ live' = l /\ registry' = r
           /\ client' = [client EXCEPT ![c] = "refused"]
           /\ Say(l[s].token, said)
           /\ UNCHANGED <<prompts, unlocking>>
  <2>1. client' \in [Clients -> ClientStates] /\ GivenTo(client', connOf)
    BY <1>3 DEF BrokerTypeOK, GivenTo, ClientStates
  <2>2. DOMAIN toAgent' = Agents
    BY <1>3 DEF Say, BrokerTypeOK
  <2>. QED  BY <1>3, <2>1, <2>2
<1>. QED  BY <1>1, <1>2, <1>3 DEF Deliver

-----------------------------------------------------------------------------
(* What the steps of several components have in common.                    *)

LEMMA TurnOK ==
    ASSUME NEW stage \in 0..AtSettle, Turn(stage)
    PROVE  turn' \in 0..AtSettle
BY DEF Turn, AtSettle

LEMMA ResolveOK ==
    ASSUME NEW p \in Prompt, NEW allowed \in BOOLEAN, NEW withdraw \in BOOLEAN
    PROVE  Resolve(p, allowed, withdraw) \in Resolved
BY DEF Resolve, Prompt, Resolved

LEMMA OnDefaultOK ==
    ASSUME NEW p \in Prompt, NEW withdraw \in BOOLEAN
    PROVE  OnDefault(p, withdraw) \in Resolved
<1>. (TakeoverOnTimeout = "allow") \in BOOLEAN
  OBVIOUS
<1>. QED  BY ResolveOK DEF OnDefault

(* What no step about sessions alone touches.                              *)
LEMMA SameGateOK ==
    ASSUME FInv, UNCHANGED seatVars
    PROVE  GateTypeOK' /\ held' \subseteq Accounts /\ seat_questions' \subseteq Logins
BY DEF FInv, RestTypeOK, GateTypeOK, seatVars, gateVars, busVars

LEMMA SameMailOK ==
    ASSUME FInv, UNCHANGED mailVars
    PROVE  /\ launched' \subseteq [job: LaunchJob, ok: BOOLEAN] /\ terminations' \subseteq Nat
           /\ UNCHANGED <<threads, launching>>
BY DEF FInv, RestTypeOK, mailVars

(* The lists without a session of farlandd's own.                          *)
LEMMA WithoutOK ==
    ASSUME FInv, NEW s \in DOMAIN live
    PROVE  /\ live[s].token \in Agents
           /\ Sound(Restrict(live, DOMAIN live \ {s}), Restrict(registry, DOMAIN registry \ {s}),
                    connOf)
           /\ client \in [Clients -> ClientStates] /\ GivenTo(client, connOf)
BY SoundRemove DEF FInv, Sound, LiveSession, BrokerTypeOK

(* The lists and the clients after end_session() within a handler.         *)
LEMMA ReplacedOK ==
    ASSUME FInv, NEW s \in DOMAIN live
    PROVE  LET l == Restrict(live, DOMAIN live \ {s})
               r == Remove(registry, s)
               saved == IF running = "up" THEN Remembered(l, r) ELSE table
           IN /\ Sound(l, r, connOf) /\ Table(saved)
              /\ running = "up" => Written(l, r, saved)
              /\ Abandon(client, live[s]) \in [Clients -> ClientStates]
              /\ GivenTo(Abandon(client, live[s]), connOf)
              /\ NotOf(prompts, s) \subseteq Prompt /\ Stopped(live[s]) \subseteq Agents
<1>. DEFINE l == Restrict(live, DOMAIN live \ {s})
            r == Remove(registry, s)
<1>1. Sound(l, r, connOf) /\ live[s].token \in Agents
  BY WithoutOK DEF Remove
<1>2. Table(Remembered(l, r)) /\ Written(l, r, Remembered(l, r))
  <2>. HIDE DEF l, r
  <2>. QED  BY <1>1, RememberedWritten
<1>3. /\ Abandon(client, live[s]) \in [Clients -> ClientStates]
      /\ GivenTo(Abandon(client, live[s]), connOf)
  BY DEF Abandon, FInv, BrokerTypeOK, GivenTo, ClientStates
<1>4. NotOf(prompts, s) \subseteq Prompt
  BY DEF NotOf, FInv, RestTypeOK
<1>5. Stopped(live[s]) \subseteq Agents
  BY <1>1 DEF Stopped
<1>. QED  BY <1>1, <1>2, <1>3, <1>4, <1>5 DEF FInv, TableOK

(* A step that ends a session and does nothing else.                       *)
LEMMA EndAnyStep ==
    ASSUME FInv, NEW l, NEW r, NEW s \in DOMAIN l, NEW cl \in [Clients -> ClientStates],
           l[s].token \in Agents, GivenTo(cl, connOf),
           Sound(Restrict(l, DOMAIN l \ {s}), Restrict(r, DOMAIN r \ {s}), connOf),
           EndSession(l, r, s, cl), turn' \in 0..AtSettle, GateTypeOK', held' \subseteq Accounts,
           seat_questions' \subseteq Logins, resolutions' \subseteq Resolved,
           launched' \subseteq [job: LaunchJob, ok: BOOLEAN], terminations' \subseteq Nat,
           UNCHANGED <<toAgent, unlocking, processVars, threads, launching, countVars>>
    PROVE  FInv'
<1>1. /\ Sound(live', registry', connOf) /\ Table(table')
      /\ running = "up" => Written(live', registry', table')
      /\ prompts' \subseteq Prompt
      /\ client' \in [Clients -> ClientStates] /\ GivenTo(client', connOf)
      /\ signalled' \subseteq Agents
      /\ daemonEnd' \in [Agents -> {"none", "queued", "unclaimed", "session"}]
      /\ toDaemon' \in [Agents -> Seq(AgentMessage)] /\ inbox' \in [Agents -> Nat]
  BY EndSessionOK DEF FInv, RestTypeOK, TableOK
<1>2. connOf' = connOf /\ running' = running
  BY DEF countVars, processVars
<1>3. BrokerTypeOK'
  BY <1>1 DEF FInv, BrokerTypeOK, processVars, countVars
<1>4. RestTypeOK'
  BY <1>1 DEF FInv, RestTypeOK, processVars, countVars
<1>. QED  BY <1>1, <1>2, <1>3, <1>4 DEF FInv, TableOK

LEMMA EndStep ==
    ASSUME FInv, NEW l, NEW r, NEW s \in DOMAIN l, NEW cl \in [Clients -> ClientStates],
           l[s].token \in Agents, GivenTo(cl, connOf),
           Sound(Restrict(l, DOMAIN l \ {s}), Restrict(r, DOMAIN r \ {s}), connOf),
           EndSession(l, r, s, cl), turn' \in 0..AtSettle,
           UNCHANGED <<resolutions, toAgent, unlocking, processVars, seatVars, mailVars, countVars>>
    PROVE  FInv'
<1>1. resolutions' \subseteq Resolved
  BY DEF FInv, RestTypeOK
<1>. QED  BY <1>1, SameGateOK, SameMailOK, EndAnyStep

(* The parts of FInv such a step may leave as they were.                   *)
LEMMA SameOK ==
    ASSUME FInv
    PROVE  /\ UNCHANGED <<live, registry>> =>
                /\ Sound(live', registry', connOf)
                /\ \A tb : Written(live, registry, tb) => Written(live', registry', tb)
           /\ UNCHANGED client => client' \in [Clients -> ClientStates] /\ GivenTo(client', connOf)
           /\ UNCHANGED prompts => prompts' \subseteq Prompt
           /\ UNCHANGED toAgent => DOMAIN toAgent' = Agents
           /\ UNCHANGED unlocking => unlocking' \subseteq SeatUsers
           /\ UNCHANGED turn => turn' \in 0..AtSettle
           /\ UNCHANGED resolutions => resolutions' \subseteq Resolved
BY DEF FInv, BrokerTypeOK, RestTypeOK

(* A step that changes one session at most, and neither the table nor a    *)
(* socket.                                                                 *)
LEMMA KeepStep ==
    ASSUME FInv, Sound(live', registry', connOf),
           \A tb : Written(live, registry, tb) => Written(live', registry', tb),
           client' \in [Clients -> ClientStates], GivenTo(client', connOf),
           prompts' \subseteq Prompt, DOMAIN toAgent' = Agents, unlocking' \subseteq SeatUsers,
           turn' \in 0..AtSettle, GateTypeOK', held' \subseteq Accounts,
           seat_questions' \subseteq Logins, resolutions' \subseteq Resolved,
           launched' \subseteq [job: LaunchJob, ok: BOOLEAN], terminations' \subseteq Nat,
           UNCHANGED <<table, socketVars, processVars, threads, launching, countVars>>
    PROVE  FInv'
<1>1. connOf' = connOf /\ running' = running
  BY DEF countVars, processVars
<1>2. TableOK'
  BY <1>1 DEF FInv, TableOK
<1>3. BrokerTypeOK'
  BY DEF FInv, BrokerTypeOK, processVars, socketVars, countVars
<1>4. RestTypeOK'
  BY DEF FInv, RestTypeOK, processVars, countVars
<1>. QED  BY <1>1, <1>2, <1>3, <1>4 DEF FInv
=============================================================================
