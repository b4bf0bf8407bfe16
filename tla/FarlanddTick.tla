---------------------------- MODULE FarlanddTick ----------------------------
(***************************************************************************)
(* The steps of farlandd's tick() keep FInv.                               *)
(***************************************************************************)
EXTENDS FarlanddInvariant

-----------------------------------------------------------------------------
(* Logins at the machine, and what the control API asked for.              *)

LEMMA HeldAccountsOK ==
    ASSUME FInv
    PROVE  HeldAccounts \subseteq Accounts
BY DEF FInv, Sound, HeldAccounts, Session

LEMMA GateResolveOK ==
    ASSUME NEW ps, ps \in [DOMAIN ps -> Pending], DOMAIN ps \subseteq Logins, NEW k,
           NEW allowed \in BOOLEAN
    PROVE  /\ DOMAIN GateResolve(ps, k, allowed) = DOMAIN ps
           /\ GateResolve(ps, k, allowed) \in [DOMAIN ps -> Pending]
BY DEF GateResolve, Pending

LEMMA TakeNewOK ==
    ASSUME FInv, NEW k, Fresh(k)
    PROVE  DOMAIN TakeNew(k) = DOMAIN pending /\ TakeNew(k) \in [DOMAIN pending -> Pending]
BY DEF FInv, GateTypeOK, TakeNew, Fresh, Pending

LEMMA PendingOK ==
    ASSUME FInv, NEW ps, ps \in [DOMAIN pending -> Pending], pending' = ps,
           UNCHANGED <<closed, busVars>>
    PROVE  GateTypeOK'
BY DEF FInv, GateTypeOK, busVars

LEMMA RefreshHeldStep ==
    ASSUME FInv, RefreshHeld
    PROVE  FInv'
<1>1. turn' \in 0..AtSettle
  BY TurnOK DEF RefreshHeld, AtSeat, AtSettle
<1>2. GateTypeOK' /\ held' \subseteq Accounts /\ seat_questions' \subseteq Logins
  BY HeldAccountsOK DEF RefreshHeld, FInv, RestTypeOK, GateTypeOK, busVars
<1>. QED  BY <1>1, <1>2, SameOK, SameMailOK, KeepStep DEF RefreshHeld

LEMMA AskTheSeatStep ==
    ASSUME FInv, NEW k \in Logins, AskTheSeat(k)
    PROVE  FInv'
<1>1. turn' \in 0..AtSettle
  <2>1. Turn(AtSeat)
    BY DEF AskTheSeat
  <2>. QED  BY <2>1, TurnOK DEF AtSeat, AtSettle
<1>2. /\ UNCHANGED <<resolutions, unlocking, closed, busVars, processVars, mailVars, countVars>>
      /\ held' = HeldAccounts
  BY DEF AskTheSeat
<1>3. /\ launched' \subseteq [job: LaunchJob, ok: BOOLEAN] /\ terminations' \subseteq Nat
      /\ resolutions' \subseteq Resolved /\ held' \subseteq Accounts
      /\ UNCHANGED <<threads, launching>>
  BY <1>2, SameMailOK, SameOK, HeldAccountsOK
<1>4. /\ DOMAIN TakeNew(k) = DOMAIN pending /\ TakeNew(k) \in [DOMAIN pending -> Pending]
      /\ DOMAIN pending \subseteq Logins
  BY TakeNewOK DEF AskTheSeat, FInv, GateTypeOK
<1>5. ASSUME NEW allowed \in BOOLEAN, pending' = GateResolve(TakeNew(k), k, allowed)
      PROVE  GateTypeOK'
  <2>. DEFINE ps == TakeNew(k)
  <2>1. ps \in [DOMAIN ps -> Pending] /\ DOMAIN ps \subseteq Logins
    BY <1>4
  <2>2. GateResolve(ps, k, allowed) \in [DOMAIN ps -> Pending]
    BY <2>1, GateResolveOK
  <2>. QED  BY <1>2, <1>4, <1>5, <2>2, PendingOK
<1>6. ASSUME NEW allowed \in BOOLEAN, pending' = GateResolve(TakeNew(k), k, allowed),
             DOMAIN toAgent' = Agents,
             UNCHANGED <<live, registry, prompts, client, table, seat_questions, socketVars>>
      PROVE  FInv'
  <2>1. GateTypeOK' /\ seat_questions' \subseteq Logins
    BY <1>5, <1>6 DEF FInv, RestTypeOK
  <2>. QED  BY <1>1, <1>2, <1>3, <1>6, <2>1, SameOK, KeepStep
<1>7. ASSUME NEW s \in DOMAIN live, DOMAIN toAgent' = Agents, prompts' = Ask(prompts, s, -k),
             pending' = TakeNew(k), seat_questions' = seat_questions \cup {k},
             UNCHANGED <<live, registry, client, table, socketVars>>
      PROVE  FInv'
  <2>1. GateTypeOK' /\ seat_questions' \subseteq Logins
    BY <1>2, <1>4, <1>7, PendingOK DEF FInv, RestTypeOK
  <2>2. s \in Nat /\ -k \in Int
    BY GateAssumption DEF FInv, Sound
  <2>3. prompts' \subseteq Prompt
    BY <1>7, <2>2 DEF FInv, RestTypeOK, Ask, Forget, Prompt
  <2>. QED  BY <1>1, <1>2, <1>3, <1>7, <2>1, <2>3, SameOK, KeepStep
<1>8. ASSUME NEW s \in DOMAIN live, EndSession(live, registry, s, client),
             NEW allowed \in BOOLEAN, pending' = GateResolve(TakeNew(k), k, allowed),
             UNCHANGED <<seat_questions, toAgent>>
      PROVE  FInv'
  <2>1. GateTypeOK' /\ seat_questions' \subseteq Logins
    BY <1>5, <1>8 DEF FInv, RestTypeOK
  <2>. QED  BY <1>1, <1>2, <1>3, <1>8, <2>1, WithoutOK, EndAnyStep
<1>9. ASSUME NEW s \in DOMAIN live, NEW said, Say(live[s].token, said)
      PROVE  DOMAIN toAgent' = Agents
  BY <1>9, SayOK DEF FInv, BrokerTypeOK
<1>10. UNCHANGED toAgent => DOMAIN toAgent' = Agents
  BY SameOK
<1>11. /\ TRUE \in BOOLEAN /\ (SeatTakeoverPolicy = "always") \in BOOLEAN
       /\ \A s : LoginAllowed(SeatTakeoverPolicy # "never", s) \in BOOLEAN
  BY DEF LoginAllowed
<1>12. CASE /\ pending' = GateResolve(TakeNew(k), k, TRUE)
            /\ UNCHANGED <<live, registry, prompts, client, toAgent, table>>
            /\ UNCHANGED <<seat_questions, socketVars>>
  BY <1>6, <1>10, <1>11, <1>12
<1>13. ASSUME NEW s \in DOMAIN live,
              LET allowed == SeatTakeoverPolicy = "always" IN
                /\ Say(live[s].token, <<SeatTakeover(allowed)>>)
                /\ pending' = GateResolve(TakeNew(k), k, allowed),
              UNCHANGED <<live, registry, prompts, client, table, seat_questions, socketVars>>
       PROVE  FInv'
  BY <1>6, <1>9, <1>11, <1>13
<1>14. ASSUME NEW s \in DOMAIN live, Say(live[s].token, <<ConsentRequest(-k)>>),
              prompts' = Ask(prompts, s, -k), pending' = TakeNew(k),
              seat_questions' = seat_questions \cup {k},
              UNCHANGED <<live, registry, client, table, socketVars>>
       PROVE  FInv'
  BY <1>7, <1>9, <1>14
<1>15. ASSUME NEW s \in DOMAIN live, EndSession(live, registry, s, client),
              pending' = GateResolve(TakeNew(k), k, LoginAllowed(SeatTakeoverPolicy # "never", s)),
              UNCHANGED <<seat_questions, toAgent>>
       PROVE  FInv'
  BY <1>8, <1>11, <1>15
<1>. QED  BY <1>12, <1>13, <1>14, <1>15 DEF AskTheSeat

LEMMA RequestTerminateStep ==
    ASSUME FInv, NEW s \in Terminable, RequestTerminate(s)
    PROVE  FInv'
<1>1. terminations' \subseteq Nat
  BY FarlanddAssumption DEF RequestTerminate, FInv, RestTypeOK
<1>2. launched' \subseteq [job: LaunchJob, ok: BOOLEAN]
  BY DEF RequestTerminate, FInv, RestTypeOK
<1>. QED  BY <1>1, <1>2, SameOK, SameGateOK, KeepStep DEF RequestTerminate

(* An agent that was told to end.                                          *)
LEMMA ToldToEndOK ==
    ASSUME FInv, NEW s \in DOMAIN live, live[s].link,
           live' = TerminateSent(live, s), registry' = SetEnding(registry, s)
    PROVE  /\ Sound(live', registry', connOf)
           /\ \A tb : Written(live, registry, tb) => Written(live', registry', tb)
<1>. DEFINE e == [live[s] EXCEPT !.terminated = TRUE]
            r == SetEnding(registry, s)
<1>1. /\ Sound(live, r, connOf)
      /\ \A tb : Written(live, registry, tb) => Written(live, r, tb)
  BY SetEndingOK DEF FInv
<1>2. /\ live \in [DOMAIN live -> LiveSession] /\ live[s] \in LiveSession
      /\ Mirrors(live[s], r[s]) /\ Numbered(live[s], connOf) /\ DOMAIN registry = DOMAIN live
      /\ registry \in [DOMAIN live -> Session]
  BY <1>1 DEF FInv, Sound
<1>3. r[s].state = "ending"
  BY <1>2 DEF SetEnding, Session
<1>4. /\ e \in LiveSession /\ e.token = live[s].token /\ e.link = live[s].link /\ e.terminated
  BY <1>2 DEF LiveSession
<1>. HIDE DEF r
<1>5. Mirrors(e, r[s]) /\ Numbered(e, connOf)
  BY <1>2, <1>3 DEF Mirrors, Numbered, LiveSession
<1>6. live' = [live EXCEPT ![s] = e] /\ registry' = r
  BY <1>2 DEF TerminateSent, r
<1>. HIDE DEF e
<1>7. /\ Sound([live EXCEPT ![s] = e], r, connOf)
      /\ \A tb : Written(live, r, tb) => Written([live EXCEPT ![s] = e], r, tb)
  BY <1>1, <1>4, <1>5, LiveChange
<1>. QED  BY <1>1, <1>6, <1>7

LEMMA TerminateRequestedStep ==
    ASSUME FInv, NEW s \in Terminable, TerminateRequested(s)
    PROVE  FInv'
<1>1. turn' \in 0..AtSettle
  <2>1. Turn(AtTerminate)
    BY DEF TerminateRequested
  <2>. QED  BY <2>1, TurnOK DEF AtTerminate, AtSettle
<1>2. /\ UNCHANGED <<resolutions, unlocking, threads, launching, launched>>
      /\ UNCHANGED <<processVars, seatVars, countVars>>
  BY DEF TerminateRequested
<1>3. /\ launched' \subseteq [job: LaunchJob, ok: BOOLEAN] /\ terminations' \subseteq Nat
  BY DEF TerminateRequested, FInv, RestTypeOK
<1>4. CASE UNCHANGED <<live, registry, prompts, client, toAgent, table, socketVars>>
  BY <1>1, <1>2, <1>3, <1>4, SameOK, SameGateOK, KeepStep
<1>5. CASE /\ s \in DOMAIN live /\ Reachable(s)
           /\ live' = TerminateSent(live, s) /\ registry' = SetEnding(registry, s)
           /\ Say(live[s].token, <<Terminate>>)
           /\ UNCHANGED <<prompts, client, table, socketVars>>
  <2>1. DOMAIN toAgent' = Agents
    BY <1>5, SayOK DEF FInv, BrokerTypeOK
  <2>2. /\ Sound(live', registry', connOf)
        /\ \A tb : Written(live, registry, tb) => Written(live', registry', tb)
    BY <1>5, ToldToEndOK DEF Reachable
  <2>. QED  BY <1>1, <1>2, <1>3, <1>5, <2>1, <2>2, SameOK, SameGateOK, KeepStep
<1>6. ASSUME s \in DOMAIN live, NEW stale \in DOMAIN live, UNCHANGED toAgent,
             EndSession(live, SetEnding(registry, stale), s, client)
      PROVE  FInv'
  <2>. DEFINE r == SetEnding(registry, stale)
  <2>1. Sound(live, r, connOf)
    BY SetEndingOK DEF FInv
  <2>. HIDE DEF r
  <2>2. Sound(Restrict(live, DOMAIN live \ {s}), Restrict(r, DOMAIN r \ {s}), connOf)
    BY <2>1, SoundRemove
  <2>3. EndSession(live, r, s, client)
    BY <1>6 DEF r
  <2>4. live[s].token \in Agents /\ client \in [Clients -> ClientStates] /\ GivenTo(client, connOf)
    BY <1>6, WithoutOK
  <2>. QED  BY <1>1, <1>2, <1>3, <1>6, <2>2, <2>3, <2>4, SameOK, SameGateOK, EndAnyStep
<1>. QED  BY <1>4, <1>5, <1>6 DEF TerminateRequested

-----------------------------------------------------------------------------
(* The consent deadlines and settle().                                     *)

LEMMA ConsentDueStep ==
    ASSUME FInv, NEW p \in prompts, ConsentDue(p)
    PROVE  FInv'
<1>1. turn' \in 0..AtSettle
  BY TurnOK DEF ConsentDue, AtConsent, AtSettle
<1>2. resolutions' \subseteq Resolved /\ prompts' \subseteq Prompt
  BY OnDefaultOK DEF ConsentDue, FInv, RestTypeOK
<1>. QED  BY <1>1, <1>2, SameOK, SameGateOK, SameMailOK, KeepStep DEF ConsentDue

LEMMA ResolveSeatStep ==
    ASSUME FInv, NEW res \in resolutions, ResolveSeat(res), turn' \in 0..AtSettle,
           resolutions' = resolutions \ {res}, UNCHANGED <<processVars, mailVars, countVars>>
    PROVE  FInv'
<1>. DEFINE s == res.session
            k == -res.connection
<1>1. /\ res \in Resolved /\ resolutions' \subseteq Resolved
  BY DEF FInv, RestTypeOK
<1>2. held' \subseteq Accounts /\ seat_questions' \subseteq Logins
  BY DEF ResolveSeat, FInv, RestTypeOK
<1>3. GateTypeOK'
  <2>1. res.allowed \in BOOLEAN
    BY <1>1 DEF Resolved
  <2>2. LoginAllowed(res.allowed, s) \in BOOLEAN
    BY <2>1 DEF LoginAllowed
  <2>3. pending \in [DOMAIN pending -> Pending] /\ DOMAIN pending \subseteq Logins
    BY DEF FInv, GateTypeOK
  <2>. HIDE DEF s, k
  <2>4. GateResolve(pending, k, LoginAllowed(res.allowed, s)) \in [DOMAIN pending -> Pending]
    BY <2>2, <2>3, GateResolveOK
  <2>5. pending' = GateResolve(pending, k, LoginAllowed(res.allowed, s)) /\ UNCHANGED <<closed, busVars>>
    BY DEF ResolveSeat, s, k
  <2>. QED  BY <2>4, <2>5, PendingOK
<1>4. CASE UNCHANGED <<live, registry, prompts, client, toAgent, table, socketVars>>
  BY <1>1, <1>2, <1>3, <1>4, SameOK, SameMailOK, KeepStep DEF ResolveSeat
<1>5. CASE /\ Say(live[s].token, Cancel(res) \o <<SeatTakeover(res.allowed)>>)
           /\ UNCHANGED <<live, registry, prompts, client, table, socketVars>>
  <2>1. DOMAIN toAgent' = Agents
    BY <1>5, SayOK DEF FInv, BrokerTypeOK
  <2>. QED  BY <1>1, <1>2, <1>3, <1>5, <2>1, SameOK, SameMailOK, KeepStep DEF ResolveSeat
<1>6. CASE s \in DOMAIN live /\ EndSession(live, registry, s, client) /\ UNCHANGED toAgent
  BY <1>1, <1>2, <1>3, <1>6, SameOK, SameMailOK, WithoutOK, EndAnyStep DEF ResolveSeat
<1>. QED  BY <1>4, <1>5, <1>6 DEF ResolveSeat

(* A client that asked is no longer asking.                                *)
LEMMA AskedOK ==
    ASSUME FInv, NEW s \in DOMAIN live
    PROVE  LET l == [live EXCEPT ![s].asking = NoClient] IN
           /\ Sound(l, registry, connOf) /\ DOMAIN l = DOMAIN live
           /\ \A tb : Written(live, registry, tb) => Written(l, registry, tb)
           /\ l[s].token = live[s].token /\ l[s].token \in Agents
<1>. DEFINE e == [live[s] EXCEPT !.asking = NoClient]
<1>1. /\ live \in [DOMAIN live -> LiveSession] /\ live[s] \in LiveSession
      /\ Mirrors(live[s], registry[s]) /\ Numbered(live[s], connOf)
  BY DEF FInv, Sound
<1>2. /\ e \in LiveSession /\ e.token = live[s].token /\ e.link = live[s].link
      /\ e.terminated = live[s].terminated /\ live[s].token \in Agents
  BY <1>1 DEF LiveSession
<1>3. Mirrors(e, registry[s]) /\ Numbered(e, connOf)
  BY <1>1 DEF Mirrors, Numbered, LiveSession
<1>4. [live EXCEPT ![s].asking = NoClient] = [live EXCEPT ![s] = e]
  BY <1>1
<1>5. [live EXCEPT ![s] = e][s] = e
  OBVIOUS
<1>. HIDE DEF e
<1>6. /\ Sound([live EXCEPT ![s] = e], registry, connOf)
      /\ \A tb : Written(live, registry, tb) => Written([live EXCEPT ![s] = e], registry, tb)
  BY <1>2, <1>3, LiveChange DEF FInv
<1>. QED  BY <1>2, <1>4, <1>5, <1>6

LEMMA ResolveClientStep ==
    ASSUME FInv, NEW res \in resolutions, ResolveClient(res), turn' \in 0..AtSettle,
           resolutions' = resolutions \ {res}, UNCHANGED <<processVars, mailVars, countVars>>
    PROVE  FInv'
<1>. DEFINE s == res.session
            c == live[s].asking
            l == [live EXCEPT ![s].asking = NoClient]
<1>1. resolutions' \subseteq Resolved
  BY DEF FInv, RestTypeOK
<1>2. GateTypeOK' /\ held' \subseteq Accounts /\ seat_questions' \subseteq Logins
  BY SameGateOK DEF ResolveClient
<1>3. /\ launched' \subseteq [job: LaunchJob, ok: BOOLEAN] /\ terminations' \subseteq Nat
      /\ UNCHANGED <<threads, launching>>
  BY SameMailOK
<1>4. CASE UNCHANGED <<live, registry, prompts, client, toAgent, table, socketVars, unlocking>>
  BY <1>1, <1>2, <1>3, <1>4, SameOK, KeepStep
<1>5. ASSUME Asks(res)
      PROVE  /\ s \in DOMAIN live /\ c \in Clients /\ connOf[c] > 0
             /\ client \in [Clients -> ClientStates] /\ GivenTo(client, connOf)
             /\ DOMAIN toAgent = Agents /\ unlocking \subseteq SeatUsers
  <2>1. s \in DOMAIN live /\ live[s] \in LiveSession /\ Numbered(live[s], connOf) /\ c # NoClient
    BY <1>5 DEF Asks, FInv, Sound
  <2>. QED  BY <2>1 DEF LiveSession, Numbered, FInv, BrokerTypeOK, RestTypeOK
<1>6. ASSUME Asks(res)
      PROVE  /\ Sound(l, registry, connOf) /\ DOMAIN l = DOMAIN live
             /\ \A tb : Written(live, registry, tb) => Written(l, registry, tb)
             /\ l[s].token \in Agents
  BY <1>5, <1>6, AskedOK
<1>. HIDE DEF l, c, s
<1>7. CASE /\ Asks(res) /\ live' = l /\ client' = [client EXCEPT ![c] = "refused"]
           /\ Say(l[s].token, Cancel(res))
           /\ UNCHANGED <<registry, prompts, table, socketVars, unlocking>>
  <2>1. DOMAIN toAgent' = Agents
    BY <1>5, <1>7, SayOK
  <2>2. client' \in [Clients -> ClientStates] /\ GivenTo(client', connOf)
    BY <1>5, <1>7 DEF GivenTo, ClientStates
  <2>. QED  BY <1>1, <1>2, <1>3, <1>6, <1>7, <2>1, <2>2, SameOK, KeepStep
<1>8. CASE /\ Asks(res) /\ HandOver(l, registry, s, c, Cancel(res))
           /\ UNCHANGED <<prompts, table, socketVars>>
  <2>1. /\ Sound(live', registry', connOf)
        /\ \A tb : Written(l, registry, tb) => Written(live', registry', tb)
        /\ client' \in [Clients -> ClientStates] /\ GivenTo(client', connOf)
        /\ DOMAIN toAgent' = Agents /\ unlocking' \subseteq SeatUsers
    <3>1. s \in DOMAIN l /\ c \in Clients /\ connOf[c] > 0
      BY <1>5, <1>6, <1>8
    <3>. QED  BY <1>5, <1>6, <1>8, <3>1, HandOverOK DEF FInv
  <2>. QED  BY <1>1, <1>2, <1>3, <1>6, <1>8, <2>1, SameOK, KeepStep
<1>9. ASSUME Asks(res), NEW outcome \in ClientStates \ {"logging_in", "posted"},
             EndSession(l, registry, s, [client EXCEPT ![c] = outcome]),
             UNCHANGED <<toAgent, unlocking>>
      PROVE  FInv'
  <2>. DEFINE cl == [client EXCEPT ![c] = outcome]
  <2>1. cl \in [Clients -> ClientStates] /\ GivenTo(cl, connOf)
    BY <1>5, <1>9 DEF GivenTo
  <2>2. /\ Sound(Restrict(l, DOMAIN l \ {s}), Restrict(registry, DOMAIN registry \ {s}), connOf)
        /\ s \in DOMAIN l /\ l[s].token \in Agents
    BY <1>5, <1>6, <1>9, SoundRemove
  <2>. HIDE DEF cl
  <2>3. EndSession(l, registry, s, cl)
    BY <1>9 DEF cl
  <2>. QED  BY <1>1, <1>2, <1>3, <1>9, <2>1, <2>2, <2>3, EndAnyStep
<1>10. (IF res.withdraw THEN "refused" ELSE "dropped") \in ClientStates \ {"logging_in", "posted"}
  BY DEF ClientStates
<1>. QED  BY <1>4, <1>7, <1>8, <1>9, <1>10 DEF ResolveClient, l, c, s

LEMMA SettleStep ==
    ASSUME FInv, Settle
    PROVE  FInv'
<1>1. turn' \in 0..AtSettle
  BY TurnOK DEF Settle, AtSettle
<1>. QED  BY <1>1, ResolveSeatStep, ResolveClientStep DEF Settle

-----------------------------------------------------------------------------
(* What is due.                                                            *)

LEMMA PolicyDisconnectIdleStep ==
    ASSUME FInv, NEW s \in DOMAIN live, PolicyDisconnectIdle(s)
    PROVE  FInv'
<1>1. turn' \in 0..AtSettle /\ unlocking' \subseteq SeatUsers /\ resolutions' \subseteq Resolved
  BY SameOK DEF PolicyDisconnectIdle
<1>2. UNCHANGED <<resolutions, unlocking, processVars, seatVars, mailVars, countVars>>
  BY DEF PolicyDisconnectIdle
<1>3. CASE /\ registry' = IdleDisconnectSent(registry, s)
           /\ Say(live[s].token, <<Disconnect(registry[s].connection)>>)
           /\ UNCHANGED <<live, prompts, client, table, socketVars>>
  <2>1. DOMAIN toAgent' = Agents
    BY <1>3, SayOK DEF FInv, BrokerTypeOK
  <2>2. /\ Sound(live', registry', connOf)
        /\ \A tb : Written(live, registry, tb) => Written(live', registry', tb)
    BY <1>3, IdleDisconnectSentOK DEF FInv
  <2>. QED  BY <1>1, <1>2, <1>3, <2>1, <2>2, SameOK, SameGateOK, SameMailOK, KeepStep
<1>4. CASE EndSession(live, registry, s, client) /\ UNCHANGED toAgent
  BY <1>1, <1>2, <1>4, WithoutOK, EndStep
<1>. QED  BY <1>3, <1>4 DEF PolicyDisconnectIdle

LEMMA PolicyTerminateStep ==
    ASSUME FInv, NEW s \in DOMAIN live, PolicyTerminate(s)
    PROVE  FInv'
<1>1. turn' \in 0..AtSettle /\ unlocking' \subseteq SeatUsers /\ resolutions' \subseteq Resolved
  BY SameOK DEF PolicyTerminate
<1>2. UNCHANGED <<resolutions, unlocking, processVars, seatVars, mailVars, countVars>>
  BY DEF PolicyTerminate
<1>3. CASE /\ Reachable(s)
           /\ live' = TerminateSent(live, s) /\ registry' = SetEnding(registry, s)
           /\ Say(live[s].token, <<Terminate>>)
           /\ UNCHANGED <<prompts, client, table, socketVars>>
  <2>1. DOMAIN toAgent' = Agents
    BY <1>3, SayOK DEF FInv, BrokerTypeOK
  <2>2. /\ Sound(live', registry', connOf)
        /\ \A tb : Written(live, registry, tb) => Written(live', registry', tb)
    BY <1>3, ToldToEndOK DEF Reachable
  <2>. QED  BY <1>1, <1>2, <1>3, <2>1, <2>2, SameOK, SameGateOK, SameMailOK, KeepStep
<1>4. CASE EndSession(live, registry, s, client) /\ UNCHANGED toAgent
  BY <1>1, <1>2, <1>4, WithoutOK, EndStep
<1>. QED  BY <1>3, <1>4 DEF PolicyTerminate

LEMMA ExpireStep ==
    ASSUME FInv, NEW s \in DOMAIN live, Expire(s)
    PROVE  FInv'
<1>1. turn' \in 0..AtSettle
  BY SameOK DEF Expire
<1>. QED  BY <1>1, WithoutOK, EndStep DEF Expire

LEMMA ReapChildStep ==
    ASSUME FInv, NEW s \in DOMAIN live, ReapChild(s)
    PROVE  FInv'
<1>. DEFINE l == [live EXCEPT ![s].child = FALSE]
            e == [live[s] EXCEPT !.child = FALSE]
<1>1. turn' \in 0..AtSettle /\ unlocking' \subseteq SeatUsers /\ DOMAIN toAgent' = Agents
  BY SameOK DEF ReapChild
<1>2. UNCHANGED <<resolutions, unlocking, toAgent, processVars, seatVars, mailVars, countVars>>
  BY DEF ReapChild
<1>3. /\ live \in [DOMAIN live -> LiveSession] /\ live[s] \in LiveSession
      /\ Mirrors(live[s], registry[s]) /\ Numbered(live[s], connOf)
  BY DEF FInv, Sound
<1>4. /\ e \in LiveSession /\ e.token = live[s].token /\ e.link = live[s].link
      /\ e.terminated = live[s].terminated /\ live[s].token \in Agents
  BY <1>3 DEF LiveSession
<1>5. Mirrors(e, registry[s]) /\ Numbered(e, connOf)
  BY <1>3 DEF Mirrors, Numbered, LiveSession
<1>6. l = [live EXCEPT ![s] = e]
  BY <1>3
<1>. HIDE DEF l, e
<1>61. l[s].token = live[s].token /\ DOMAIN l = DOMAIN live
  BY <1>4, <1>6
<1>7. /\ Sound([live EXCEPT ![s] = e], registry, connOf)
      /\ \A tb : Written(live, registry, tb) => Written([live EXCEPT ![s] = e], registry, tb)
  BY <1>4, <1>5, LiveChange DEF FInv
<1>8. /\ Sound(l, registry, connOf)
      /\ \A tb : Written(live, registry, tb) => Written(l, registry, tb)
  BY <1>6, <1>7
<1>9. CASE live' = l /\ UNCHANGED <<registry, prompts, client, table, socketVars>>
  BY <1>1, <1>2, <1>8, <1>9, SameOK, SameGateOK, SameMailOK, KeepStep
<1>10. CASE EndSession(l, registry, s, client)
  <2>1. Sound(Restrict(l, DOMAIN l \ {s}), Restrict(registry, DOMAIN registry \ {s}), connOf)
    BY <1>8, SoundRemove
  <2>. QED  BY <1>1, <1>2, <1>4, <1>61, <1>10, <2>1, WithoutOK, EndStep
<1>. QED  BY <1>9, <1>10 DEF ReapChild, l

LEMMA UnlockWindowEndsStep ==
    ASSUME FInv, NEW account, UnlockWindowEnds(account)
    PROVE  FInv'
<1>1. unlocking' \subseteq SeatUsers
  BY DEF UnlockWindowEnds, FInv, RestTypeOK
<1>. QED  BY <1>1, SameOK, SameGateOK, SameMailOK, KeepStep DEF UnlockWindowEnds

LEMMA LostReattachStep ==
    ASSUME FInv, NEW s \in DOMAIN live, LostReattach(s)
    PROVE  FInv'
<1>. DEFINE l == Restrict(live, DOMAIN live \ {s})
            r == Remove(registry, s)
            saved == IF running = "up" THEN Remembered(l, r) ELSE table
            c == live[s].waiting
<1>1. turn' \in 0..AtSettle /\ unlocking' \subseteq SeatUsers /\ DOMAIN toAgent' = Agents
  BY SameOK DEF LostReattach
<1>2. /\ UNCHANGED <<turn, resolutions, unlocking, toAgent, next_connection, connOf>>
      /\ UNCHANGED <<threads, launched, terminations, processVars, seatVars>>
  BY DEF LostReattach
<1>3. CASE /\ EndSession(live, registry, s, client)
           /\ UNCHANGED <<next_id, process, launching>>
  <2>1. UNCHANGED <<mailVars, countVars>>
    BY <1>2, <1>3 DEF mailVars, countVars
  <2>. QED  BY <1>1, <1>2, <1>3, <2>1, WithoutOK, EndStep
<1>4. CASE /\ c # NoClient
           /\ StartSession(c, registry[s].account, registry[s].attached, FALSE, l, r, client, saved)
           /\ prompts' = NotOf(prompts, s)
           /\ signalled' = signalled \cup Stopped(live[s])
           /\ UNCHANGED <<daemonEnd, toDaemon, inbox>>
  <2>1. /\ c \in Clients /\ connOf[c] > 0 /\ registry[s].account \in Accounts
        /\ registry[s].attached \in BOOLEAN
    BY <1>4 DEF FInv, Sound, Numbered, LiveSession, Session
  <2>2. /\ Sound(l, r, connOf) /\ Table(saved) /\ (running = "up" => Written(l, r, saved))
        /\ NotOf(prompts, s) \subseteq Prompt /\ Stopped(live[s]) \subseteq Agents
    BY ReplacedOK
  <2>3. client \in [Clients -> ClientStates] /\ GivenTo(client, connOf)
    BY WithoutOK
  <2>. HIDE DEF l, r, saved, c
  <2>4. /\ Sound(live', registry', connOf) /\ Table(table')
        /\ running = "up" => Written(live', registry', table')
        /\ client' \in [Clients -> ClientStates] /\ GivenTo(client', connOf)
        /\ next_id' \in Nat \ {0} /\ launching' \subseteq LaunchJob
        /\ process' \in [Agents -> ProcessStates]
    BY <1>4, <2>1, <2>2, <2>3, StartSessionOK DEF FInv
  <2>5. connOf' = connOf /\ running' = running
    BY <1>2 DEF processVars
  <2>6. BrokerTypeOK'
    BY <1>2, <1>4, <2>2, <2>4 DEF FInv, BrokerTypeOK, processVars
  <2>7. RestTypeOK'
    BY <1>1, <1>2, <1>4, <2>2, <2>4 DEF FInv, RestTypeOK, processVars, seatVars, gateVars
  <2>. QED  BY <1>2, <2>4, <2>5, <2>6, <2>7, SameGateOK DEF FInv, TableOK
<1>. QED  BY <1>3, <1>4 DEF LostReattach
=============================================================================
