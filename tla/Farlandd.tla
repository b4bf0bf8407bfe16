------------------------------ MODULE Farlandd ------------------------------
(***************************************************************************)
(* farlandd's event loop (apps/farlandd/daemon.cpp): one action per        *)
(* handler, with the whole of what the handler changes.  The agents at the *)
(* other end of the broker sockets are not constrained here; module Agent  *)
(* models them and MultiSession composes the two.                          *)
(*                                                                         *)
(* The loop handles, in every turn, agents, hellos, the mailbox, accepts   *)
(* and then tick().  Empty turns are free, so this order shows only while  *)
(* resolutions wait for settle(): `turn' is the stage the loop is in then. *)
(***************************************************************************)
EXTENDS Integers, FiniteSets, Sequences, Broker, SessionRegistry, ConsentBroker, SeatGate

CONSTANTS
    AccountOf,          \* the local account of a client
    Desktop,            \* "gnome": GDM starts the desktop; "headless": a helper does
    SeatUsers,          \* accounts that may be logged in at the machine
    DesktopsDie,        \* a login session may go while its agent stays
    SeatTakeoverPolicy, \* [policy] seat_takeover
    Terminable,         \* sessions the control API may ask to end
    MaxPreauth,         \* max_preauth_clients
    Upgrades,           \* a restart may bring another protocol version
    MaxRestarts         \* bound: how often farlandd goes away

ASSUME FarlanddAssumption ==
    /\ AccountOf \in [Clients -> Accounts]
    /\ Desktop \in {"gnome", "headless"}
    /\ SeatUsers \subseteq Accounts
    /\ DesktopsDie \in BOOLEAN
    /\ SeatTakeoverPolicy \in {"ask", "always", "never"}
    /\ LoginOf \in [Logins -> Accounts]
    /\ Terminable \subseteq Nat
    /\ MaxPreauth \in Nat
    /\ Upgrades \in BOOLEAN
    /\ MaxRestarts \in Nat

VARIABLES
    running,         \* the process: up, stopping, draining (shutdown()) or down
    restarts,        \* how often it went away
    turn,            \* the stage of the loop while resolutions wait, else 0
    live,            \* Impl::live, by session id
    registry,        \* the SessionRegistry
    next_id, next_connection,
    prompts,         \* the ConsentBroker's prompts
    resolutions,     \* settled questions waiting for settle()
    threads,         \* Mailbox::client_threads: clients with a network process
    launching,       \* launcher threads under way
    launched,        \* Launched items in the mailbox
    terminations,    \* the SessionView's requests
    table,           \* the session table on disk
    foreign,         \* agents of another protocol version
    seat_questions,  \* logins the client of a session is asked about
    unlocking        \* accounts whose session is being unlocked

processVars == <<running, restarts, foreign, agentEnd>>
mailVars == <<threads, launching, launched, terminations>>
seatVars == <<gateVars, busVars, seat_questions>>
countVars == <<next_id, next_connection, connOf, process>>
socketVars == <<daemonEnd, toDaemon, inbox, signalled>>
farlanddVars == <<running, restarts, turn, live, registry, next_id, next_connection,
                  prompts, resolutions, threads, launching, launched, terminations, table,
                  foreign, seat_questions, unlocking>>

(* daemon.cpp's struct Live. `child' says that `process' is a child of this *)
(* farlandd, `login' that login_session is known, `ended' that the link     *)
(* received a SessionEnded.                                                 *)
LiveSession ==
    [token: Agents, link: BOOLEAN, waiting: Clients \cup {NoClient},
     asking: Clients \cup {NoClient}, terminated: BOOLEAN, reattach: BOOLEAN,
     kind: {"spawn", "gdm", "unit"}, child: BOOLEAN, login: BOOLEAN, ended: BOOLEAN]

StoredSession ==
    [account: Accounts, attached: BOOLEAN, token: Agents,
     kind: {"spawn", "gdm", "unit"}, login: BOOLEAN]

FarlanddInit ==
    /\ running = "up" /\ restarts = 0 /\ turn = 0
    /\ live = << >> /\ registry = << >>
    /\ next_id = 1 /\ next_connection = 1
    /\ prompts = {} /\ resolutions = {} /\ threads = {}
    /\ launching = {} /\ launched = {} /\ terminations = {} /\ table = << >> /\ foreign = {}
    /\ seat_questions = {} /\ unlocking = {}

(* The stages of a turn of run() and of tick().                            *)
AtAgents == 1
AtHello == 2
AtMailbox == 3
AtAccept == 4
AtSeat == 5
AtTerminate == 6
AtConsent == 7
AtSettle == 8

InLoop(stage) == running = "up" /\ turn <= stage

InTick(stage) == running \in {"up", "draining"} /\ turn <= stage

(* After settle() nothing is left to resolve, whatever comes next.         *)
AfterSettle == running \in {"up", "draining"} /\ resolutions = {}

Turn(stage) == turn' = IF resolutions' = {} THEN 0 ELSE stage

Reachable(s) == live[s].link /\ agentEnd[live[s].token]

Say(t, messages) == toAgent' = [toAgent EXCEPT ![t] = @ \o messages]

-----------------------------------------------------------------------------
(* Sessions.                                                               *)

(* remember_sessions(): a session that was told to end, or that has no     *)
(* agent, has nothing to come back to.  Mutant: only the sessions whose    *)
(* agent this farlandd started are written.                                *)
OwnRemembered(l, r) ==
    [s \in {x \in DOMAIN l : l[x].link /\ l[x].child /\ ~l[x].terminated} |->
        [account |-> r[s].account, attached |-> r[s].attached,
         token |-> l[s].token, kind |-> l[s].kind, login |-> l[s].login]]

Remembered(l, r) ==
    [s \in {x \in DOMAIN l : l[x].link /\ ~l[x].terminated} |->
        [account |-> r[s].account, attached |-> r[s].attached,
         token |-> l[s].token, kind |-> l[s].kind, login |-> l[s].login]]

(* What end_session() does to the clients a session keeps: the one that    *)
(* waits for the agent is closed, the one that asks for it is told why.    *)
(* Mutant: who asks is overlooked.                                         *)
AbandonWaiting(cl, e) == [c \in Clients |-> IF c = e.waiting THEN "dropped" ELSE cl[c]]

Abandon(cl, e) ==
    [c \in Clients |-> IF c = e.waiting THEN "dropped"
                       ELSE IF c = e.asking THEN "refused" ELSE cl[c]]

(* What end_session() stops: its own child, the display GDM made, or a     *)
(* unit whose agent never greeted.                                         *)
Stopped(e) ==
    {t \in {e.token} : /\ process[t] \in {"starting", "running", "hung"}
                       /\ e.child \/ e.kind = "gdm" \/ (e.kind = "unit" /\ ~e.link)}

CloseLink(e) ==
    IF e.link
    THEN /\ daemonEnd' = [daemonEnd EXCEPT ![e.token] = "none"]
         /\ toDaemon' = [toDaemon EXCEPT ![e.token] = << >>]
         /\ inbox' = [inbox EXCEPT ![e.token] = 0]
    ELSE UNCHANGED <<daemonEnd, toDaemon, inbox>>

(* end_session() for session s of l and r, which hold what its caller      *)
(* changed before the call; cl is what became of the clients so far.       *)
EndSession(l, r, s, cl) ==
    /\ live' = Restrict(l, DOMAIN l \ {s})
    /\ registry' = Remove(r, s)
    /\ prompts' = NotOf(prompts, s)
    /\ client' = Abandon(cl, l[s])
    /\ signalled' = signalled \cup Stopped(l[s])
    /\ CloseLink(l[s])
    /\ table' = IF running = "up" THEN Remembered(live', registry') ELSE table

(* terminate_sent: the agent was told to end.  Mutant: it is not noted.    *)
NotNoted(l, s) == l

TerminateSent(l, s) == [l EXCEPT ![s].terminated = TRUE]

LaunchKind(attach, own_shell) ==
    IF attach THEN "unit"
    ELSE IF Desktop = "gnome" /\ ~own_shell THEN "gdm" ELSE "spawn"

NewLive(t, c, kind) ==
    [token |-> t, link |-> FALSE, waiting |-> c, asking |-> NoClient,
     terminated |-> FALSE, reattach |-> FALSE, kind |-> kind,
     child |-> (kind = "spawn"), login |-> FALSE, ended |-> FALSE]

(* start_session() for client c: a new agent process, spawned at once or   *)
(* by a launcher thread; a token without randomness refuses the client, a  *)
(* helper that does not start ends the session and closes it.              *)
StartSession(c, account, attach, own_shell, l, r, cl, saved) ==
    LET kind == LaunchKind(attach, own_shell) IN
    /\ next_id' = next_id + 1
    /\ \/ \E t \in Agents :
             /\ process[t] = "none"
             /\ IF kind = "spawn"
                THEN /\ process' = [process EXCEPT ![t] = "starting"]
                     /\ UNCHANGED launching
                ELSE /\ process' = [process EXCEPT ![t] = "launching"]
                     /\ launching' = launching \cup
                          {[agent |-> t, account |-> account, gdm |-> kind = "gdm"]}
             /\ live' = Put(l, next_id, NewLive(t, c, kind))
             /\ registry' = Create(r, next_id, account, attach)
             /\ client' = [cl EXCEPT ![c] = "kept"]
             /\ table' = saved
       \/ /\ client' = [cl EXCEPT ![c] = "refused"]
          /\ live' = l /\ registry' = r /\ table' = saved
          /\ UNCHANGED <<process, launching>>
       \/ /\ kind = "spawn"
          /\ client' = [cl EXCEPT ![c] = "dropped"]
          /\ live' = l /\ registry' = r
          /\ table' = IF running = "up" THEN Remembered(l, r) ELSE saved
          /\ UNCHANGED <<process, launching>>

(* hand_over() of client c to a session whose agent takes the messages:    *)
(* `said' went out before them.  Credentials for a session that is locked  *)
(* at the machine open the unlock window.                                  *)
HandOver(l, r, s, c, said) ==
    LET replaced == r[s].connection IN
    /\ live' = l
    /\ registry' = Connect(r, s, connOf[c])
    /\ Say(l[s].token, said \o (IF replaced # 0 THEN <<Disconnect(replaced)>> ELSE << >>)
                            \o <<NewConnection(c)>>)
    /\ client' = [client EXCEPT ![c] = "given"]
    /\ \E locked \in BOOLEAN :
         unlocking' = unlocking \cup {a \in SeatUsers : locked /\ a = r[s].account}

(* ask_consent(): an older client that asks for the session is refused.    *)
(* Mutant: it is left as it was.                                           *)
LeftAsking(cl, e) == cl

Older(cl, e) == [c \in Clients |-> IF c = e.asking THEN "refused" ELSE cl[c]]

(* Mutant: the older question is not forgotten.                            *)
NotForgotten(e) == {}

AskedAbout(e) == {connOf[c] : c \in Clients \cap {e.asking}}

AskConsent(l, r, s, c, said) ==
    /\ live' = [l EXCEPT ![s].asking = c]
    /\ registry' = r
    /\ prompts' = Ask({p \in prompts : p.connection \notin AskedAbout(l[s])}, s, connOf[c])
    /\ Say(l[s].token, said \o <<ConsentRequest(connOf[c])>>)
    /\ client' = [Older(client, l[s]) EXCEPT ![c] = "kept"]
    /\ UNCHANGED unlocking

(* deliver() to a session whose agent takes the messages.                  *)
Deliver(l, r, s, c, isHeld, said) ==
    \/ /\ AdmitTakeover(isHeld) = "refuse"
       /\ live' = l /\ registry' = r
       /\ client' = [client EXCEPT ![c] = "refused"]
       /\ Say(l[s].token, said)
       /\ UNCHANGED <<prompts, unlocking>>
    \/ AdmitTakeover(isHeld) = "ask" /\ AskConsent(l, r, s, c, said)
    \/ /\ AdmitTakeover(isHeld) = "hand_over"
       /\ HandOver(l, r, s, c, said)
       /\ UNCHANGED prompts

-----------------------------------------------------------------------------
(* read_agent(): what the agent of a session says.                         *)

(* poll() finds something to read, or the end of the stream; frames that   *)
(* came with the hello alone do not make the socket readable.              *)
Readable(t) == Len(toDaemon[t]) > inbox[t] \/ ~agentEnd[t]

(* shutdown() goes on reading the sessions that were told to end.          *)
Reading(s) ==
    /\ \/ InLoop(AtAgents)
       \/ running = "stopping" /\ live[s].terminated
    /\ live[s].link
    /\ Readable(live[s].token)

Frame(s, type) ==
    /\ Reading(s) /\ ~live[s].ended
    /\ toDaemon[live[s].token] # << >>
    /\ Head(toDaemon[live[s].token]).type = type
    /\ toDaemon' = [toDaemon EXCEPT ![live[s].token] = Tail(@)]
    /\ inbox' = [inbox EXCEPT ![live[s].token] = 0]

ReadDisconnect(s) ==
    /\ Frame(s, "disconnect")
    /\ registry' = Disconnected(registry, s, Head(toDaemon[live[s].token]).connection)
    /\ IF registry'[s].connection = 0 /\ ~registry[s].attached
       THEN /\ resolutions' = resolutions \cup Released(prompts, s)
            /\ prompts' = NotOf(prompts, s)
       ELSE UNCHANGED <<resolutions, prompts>>
    /\ Turn(AtAgents)
    /\ UNCHANGED <<live, client, daemonEnd, signalled, toAgent, table, unlocking>>
    /\ UNCHANGED <<processVars, seatVars, mailVars, countVars>>

ReadConsentReply(s) ==
    /\ Frame(s, "consent_reply")
    /\ LET reply == Head(toDaemon[live[s].token])
           ps == AnsweredBy(prompts, reply.connection)
       IN /\ prompts' = prompts \ ps
          /\ resolutions' = resolutions \cup {Answered(p, reply.answer) : p \in ps}
    /\ Turn(AtAgents)
    /\ UNCHANGED <<live, registry, client, daemonEnd, signalled, toAgent, table, unlocking>>
    /\ UNCHANGED <<processVars, seatVars, mailVars, countVars>>

ReadSessionEnded(s) ==
    /\ Frame(s, "session_ended")
    /\ live' = [live EXCEPT ![s].ended = TRUE]
    /\ registry' = SetEnding(registry, s)
    /\ UNCHANGED <<prompts, resolutions>>
    /\ Turn(AtAgents)
    /\ UNCHANGED <<client, daemonEnd, signalled, toAgent, table, unlocking>>
    /\ UNCHANGED <<processVars, seatVars, mailVars, countVars>>

(* Connection numbers start after the ones the agents still serve.         *)
(* Mutant: the largest number so far is lost.                              *)
LastSeen(connection) == connection

NextConnection(connection) ==
    IF next_connection > connection THEN next_connection ELSE connection + 1

(* After a restart the agent still has its client, which this farlandd     *)
(* never handed over.                                                      *)
ReadStats(s) ==
    /\ Frame(s, "stats")
    /\ LET stats == Head(toDaemon[live[s].token])
       IN /\ registry' = UpdateIdle(AdoptConnection(registry, s, stats.connection),
                                    s, stats.connection, stats.idle)
          /\ next_connection' = NextConnection(stats.connection)
    /\ UNCHANGED <<prompts, resolutions>>
    /\ Turn(AtAgents)
    /\ UNCHANGED <<live, client, daemonEnd, signalled, toAgent, table, unlocking>>
    /\ UNCHANGED <<processVars, seatVars, mailVars, next_id, connOf, process>>

(* AgentLink::receive() refuses a second hello and anything that follows   *)
(* a SessionEnded.                                                         *)
ReadMisbehaved(s) ==
    /\ Reading(s)
    /\ toDaemon[live[s].token] # << >>
    /\ live[s].ended \/ Head(toDaemon[live[s].token]).type = "hello"
    /\ EndSession(live, registry, s, client)
    /\ UNCHANGED resolutions
    /\ Turn(AtAgents)
    /\ UNCHANGED <<toAgent, unlocking, processVars, seatVars, mailVars, countVars>>

(* The stream ended: the agent is gone.                                    *)
ReadEof(s) ==
    /\ Reading(s)
    /\ toDaemon[live[s].token] = << >> /\ ~agentEnd[live[s].token]
    /\ EndSession(live, registry, s, client)
    /\ UNCHANGED resolutions
    /\ Turn(AtAgents)
    /\ UNCHANGED <<toAgent, unlocking, processVars, seatVars, mailVars, countVars>>

ReadAgent(s) ==
    \/ ReadDisconnect(s) \/ ReadConsentReply(s) \/ ReadSessionEnded(s)
    \/ ReadStats(s) \/ ReadMisbehaved(s) \/ ReadEof(s)

-----------------------------------------------------------------------------
(* accept_agent() and read_unclaimed(): agents that connect.               *)

AcceptAgent(t) ==
    /\ InLoop(AtAccept)
    /\ daemonEnd[t] = "queued"
    /\ daemonEnd' = [daemonEnd EXCEPT ![t] = "unclaimed"]
    /\ UNCHANGED <<prompts, resolutions>>
    /\ Turn(AtAccept)
    /\ UNCHANGED <<live, registry, client, signalled, toAgent, toDaemon, inbox, table>>
    /\ UNCHANGED <<unlocking, processVars, seatVars, mailVars, countVars>>

(* Closing a socket no session has taken.                                  *)
DropUnclaimed(t, said) ==
    /\ daemonEnd' = [daemonEnd EXCEPT ![t] = "none"]
    /\ toDaemon' = [toDaemon EXCEPT ![t] = << >>]
    /\ Say(t, said)
    /\ UNCHANGED <<prompts, resolutions>>
    /\ Turn(AtHello)
    /\ UNCHANGED <<live, registry, client, signalled, inbox, table>>
    /\ UNCHANGED <<unlocking, processVars, seatVars, mailVars, countVars>>

HelloTimeout(t) ==
    /\ InLoop(AtHello) /\ daemonEnd[t] = "unclaimed"
    /\ DropUnclaimed(t, << >>)

(* The sessions a hello with token t is for.                               *)
Claimed(t) == {s \in DOMAIN live : live[s].token = t /\ ~live[s].link /\ ~live[s].terminated}

(* An agent of a session that is gone is told to stop.                     *)
HelloUnknown(t) ==
    /\ InLoop(AtHello) /\ daemonEnd[t] = "unclaimed"
    /\ Claimed(t) = {}
    /\ DropUnclaimed(t, <<Terminate>>)

HelloRefused(t) ==
    /\ InLoop(AtHello) /\ daemonEnd[t] = "unclaimed"
    /\ Claimed(t) # {} /\ t \in foreign
    /\ DropUnclaimed(t, << >>)

(* The session has its agent: settings first, then the client that waits   *)
(* for it.  Nobody is asked about a session this connection started; the   *)
(* user at the machine is about the session of a seat.                     *)
HelloAccepted(t, s) ==
    LET linked == [live EXCEPT ![s].link = TRUE, ![s].reattach = FALSE]
        served == [linked EXCEPT ![s].waiting = NoClient]
        ready == SetRunning(registry, s)
        c == live[s].waiting
    IN
    /\ InLoop(AtHello) /\ daemonEnd[t] = "unclaimed"
    /\ s \in Claimed(t) /\ t \notin foreign
    /\ \/ /\ agentEnd[t]
          /\ daemonEnd' = [daemonEnd EXCEPT ![t] = "session"]
          /\ \E n \in 0..Len(toDaemon[t]) : inbox' = [inbox EXCEPT ![t] = n]
          /\ \/ /\ c = NoClient
                /\ live' = served /\ registry' = ready
                /\ Say(t, <<Settings>>)
                /\ UNCHANGED <<client, prompts, unlocking>>
             \/ /\ c # NoClient /\ registry[s].attached
                /\ Deliver(served, ready, s, c, TRUE, <<Settings>>)
             \/ /\ c # NoClient /\ ~registry[s].attached
                /\ HandOver(served, ready, s, c, <<Settings>>)
                /\ UNCHANGED prompts
          /\ table' = Remembered(live', registry')
          /\ UNCHANGED <<toDaemon, signalled>>
       \/ /\ ~agentEnd[t]
          /\ EndSession(linked, ready, s, client)
          /\ UNCHANGED <<toAgent, unlocking>>
    /\ UNCHANGED resolutions
    /\ Turn(AtHello)
    /\ UNCHANGED <<processVars, seatVars, mailVars, countVars>>

-----------------------------------------------------------------------------
(* accept_client() and the thread of each client.                          *)

AcceptClient(c) ==
    /\ InLoop(AtAccept)
    /\ client[c] = "new"
    /\ IF Cardinality(threads) >= MaxPreauth
       THEN /\ client' = [client EXCEPT ![c] = "dropped"]
            /\ UNCHANGED <<connOf, next_connection, threads>>
       ELSE /\ client' = [client EXCEPT ![c] = "logging_in"]
            /\ connOf' = [connOf EXCEPT ![c] = next_connection]
            /\ next_connection' = next_connection + 1
            /\ threads' = threads \cup {c}
    /\ UNCHANGED <<prompts, resolutions>>
    /\ Turn(AtAccept)
    /\ UNCHANGED <<live, registry, toAgent, table, unlocking, next_id, process>>
    /\ UNCHANGED <<launching, launched, terminations, socketVars, processVars, seatVars>>

(* authenticate_monitored() posts the client or gives it up.               *)
Authenticate(c) ==
    /\ running # "down"
    /\ client[c] = "logging_in"
    /\ \/ /\ client' = [client EXCEPT ![c] = "posted"]
          /\ UNCHANGED threads
       \/ /\ client' = [client EXCEPT ![c] = "dropped"]
          /\ threads' = threads \ {c}
    /\ UNCHANGED <<turn, live, registry, prompts, resolutions, toAgent, table, unlocking>>
    /\ UNCHANGED <<launching, launched, terminations, socketVars, processVars, seatVars, countVars>>

(* wait_network_process() returns: the client or its session is gone.      *)
(* Bound: only where the number of threads can reach the limit at all.     *)
NetworkProcessEnds(c) ==
    /\ Cardinality(Clients) > MaxPreauth
    /\ c \in threads /\ client[c] # "logging_in"
    /\ threads' = threads \ {c}
    /\ UNCHANGED <<turn, client, live, registry, prompts, resolutions, toAgent, table>>
    /\ UNCHANGED <<launching, launched, terminations, unlocking, socketVars, processVars>>
    /\ UNCHANGED <<seatVars, countVars>>

-----------------------------------------------------------------------------
(* handle(Authenticated), one action per outcome.                          *)

Authenticated(c) == InLoop(AtMailbox) /\ client[c] = "posted"

(* What logind may say of a user: a graphical session on a seat.           *)
MaybeAtSeat(account) == IF account \in SeatUsers THEN BOOLEAN ELSE {FALSE}

TurnAway(c) ==
    /\ client' = [client EXCEPT ![c] = "refused"]
    /\ UNCHANGED resolutions
    /\ Turn(AtMailbox)
    /\ UNCHANGED <<live, registry, prompts, toAgent, table, unlocking>>
    /\ UNCHANGED <<socketVars, processVars, seatVars, mailVars, countVars>>

(* The name is too long, no local account has it, or it is root's.         *)
HandleUnknown(c) == Authenticated(c) /\ TurnAway(c)

HandleRefused(c) ==
    /\ Authenticated(c)
    /\ \E seat \in MaybeAtSeat(AccountOf[c]) :
         Admit(registry, AccountOf[c], seat /\ ~HasAccount(registry, AccountOf[c]))
             \in {"refuse_local_session", "refuse_limit"}
    /\ TurnAway(c)

HandleStart(c) ==
    /\ Authenticated(c)
    /\ \E seat \in MaybeAtSeat(AccountOf[c]) :
         LET admission == Admit(registry, AccountOf[c],
                                seat /\ ~HasAccount(registry, AccountOf[c]))
         IN /\ admission \in {"create", "attach", "replace", "separate"}
            /\ StartSession(c, AccountOf[c], admission = "attach", admission = "separate",
                            live, registry, client, table)
    /\ UNCHANGED <<prompts, resolutions>>
    /\ Turn(AtMailbox)
    /\ UNCHANGED <<toAgent, unlocking, next_connection, connOf>>
    /\ UNCHANGED <<threads, launched, terminations, socketVars, processVars, seatVars>>

(* The session of the account, when admit() says that it has one.          *)
ExistingFor(c, s) ==
    /\ Authenticated(c)
    /\ Existing(registry, AccountOf[c])
    /\ s = FindAccount(registry, AccountOf[c])

(* Its login session is gone: end it and start another for this client.    *)
HandleDesktopGone(c, s) ==
    /\ ExistingFor(c, s)
    /\ DesktopsDie /\ live[s].login
    /\ LET l == Restrict(live, DOMAIN live \ {s})
           r == Remove(registry, s)
       IN StartSession(c, AccountOf[c], registry[s].attached, FALSE, l, r,
                       Abandon(client, live[s]),
                       IF running = "up" THEN Remembered(l, r) ELSE table)
    /\ prompts' = NotOf(prompts, s)
    /\ signalled' = signalled \cup Stopped(live[s])
    /\ CloseLink(live[s])
    /\ UNCHANGED resolutions
    /\ Turn(AtMailbox)
    /\ UNCHANGED <<toAgent, unlocking, next_connection, connOf>>
    /\ UNCHANGED <<threads, launched, terminations, processVars, seatVars>>

(* deliver() to a session whose agent has not greeted: the client waits,   *)
(* in the place of an older one.                                           *)
HandleWaits(c, s) ==
    /\ ExistingFor(c, s)
    /\ ~live[s].link
    /\ live' = [live EXCEPT ![s].waiting = c]
    /\ client' = [x \in Clients |-> IF x = c THEN "kept"
                                   ELSE IF x = live[s].waiting THEN "dropped" ELSE client[x]]
    /\ UNCHANGED <<prompts, resolutions>>
    /\ Turn(AtMailbox)
    /\ UNCHANGED <<registry, toAgent, table, unlocking>>
    /\ UNCHANGED <<socketVars, processVars, seatVars, mailVars, countVars>>

(* deliver() to a running session: held by its client, by the user of the  *)
(* local session it was attached to, or by who is at the machine.          *)
HandleDeliver(c, s) ==
    /\ ExistingFor(c, s)
    /\ live[s].link
    /\ \E atTheMachine \in MaybeAtSeat(AccountOf[c]) :
         LET isHeld == registry[s].connection # 0 \/ registry[s].attached \/ atTheMachine
         IN \/ /\ Reachable(s) \/ AdmitTakeover(isHeld) = "refuse"
               /\ Deliver(live, registry, s, c, isHeld, << >>)
               /\ UNCHANGED <<table, socketVars>>
            \/ /\ ~Reachable(s) /\ AdmitTakeover(isHeld) = "ask"
               /\ EndSession([live EXCEPT ![s].asking = c], registry, s,
                             Older(client, live[s]))
               /\ UNCHANGED <<toAgent, unlocking>>
            \/ /\ ~Reachable(s) /\ AdmitTakeover(isHeld) = "hand_over"
               /\ EndSession(live, registry, s, [client EXCEPT ![c] = "dropped"])
               /\ UNCHANGED <<toAgent, unlocking>>
    /\ UNCHANGED resolutions
    /\ Turn(AtMailbox)
    /\ UNCHANGED <<processVars, seatVars, mailVars, countVars>>

HandleAuthenticated(c) ==
    \/ HandleUnknown(c) \/ HandleRefused(c) \/ HandleStart(c)
    \/ \E s \in DOMAIN live :
         HandleDesktopGone(c, s) \/ HandleWaits(c, s) \/ HandleDeliver(c, s)

-----------------------------------------------------------------------------
(* The launcher thread of start_session(), and handle(Launched).           *)

LaunchThread(job) ==
    /\ job \in launching
    /\ launching' = launching \ {job}
    /\ \E ok \in BOOLEAN :
         /\ process' = [process EXCEPT ![job.agent] = IF ok THEN "starting" ELSE "exited"]
         /\ launched' = launched \cup {[job |-> job, ok |-> ok]}
    /\ UNCHANGED <<turn, client, connOf, live, registry, next_id, next_connection>>
    /\ UNCHANGED <<prompts, resolutions, toAgent, table, unlocking, threads, terminations>>
    /\ UNCHANGED <<socketVars, processVars, seatVars>>

(* A session that ended while GDM was starting it is taken down too,       *)
(* unless its account has another one by now.  A local session that was    *)
(* gone when the unit started leaves login_session empty.                  *)
HandleLaunched(item) ==
    /\ InLoop(AtMailbox)
    /\ item \in launched
    /\ launched' = launched \ {item}
    /\ \/ /\ \A s \in DOMAIN live : live[s].token # item.job.agent
          /\ signalled' = signalled \cup
               {t \in {item.job.agent} : item.job.gdm /\ item.ok
                                         /\ ~HasAccount(registry, item.job.account)}
          /\ UNCHANGED <<live, registry, prompts, client, table, daemonEnd, toDaemon, inbox>>
       \/ \E s \in DOMAIN live :
            /\ live[s].token = item.job.agent
            /\ \/ /\ item.ok
                  /\ \E known \in {TRUE, item.job.gdm} :
                       live' = [live EXCEPT ![s].login = known]
                  /\ UNCHANGED <<registry, prompts, client, table, socketVars>>
               \/ /\ ~item.ok
                  /\ EndSession(live, registry, s, client)
    /\ UNCHANGED resolutions
    /\ Turn(AtMailbox)
    /\ UNCHANGED <<toAgent, unlocking, threads, launching, terminations>>
    /\ UNCHANGED <<processVars, seatVars, countVars>>

-----------------------------------------------------------------------------
(* tick(): ask_the_seat(), then what the control API asked for.            *)

HeldAccounts == {registry[s].account : s \in {x \in DOMAIN registry : registry[x].connection # 0}}

(* ask_the_seat() in a turn that finds no new login. Bound: only where     *)
(* there are logins that may look at the list.                             *)
RefreshHeld ==
    /\ InTick(AtSeat) /\ Logins # {} /\ held # HeldAccounts
    /\ held' = HeldAccounts
    /\ UNCHANGED resolutions
    /\ Turn(AtSeat)
    /\ UNCHANGED <<live, registry, prompts, client, toAgent, table, unlocking>>
    /\ UNCHANGED <<pending, closed, seat_questions, busVars>>
    /\ UNCHANGED <<socketVars, processVars, mailVars, countVars>>

(* A login at the machine take_new() found, decided at once or asked       *)
(* about.  Only a session that a client holds is worth asking about.       *)
SeatSession(k, s) ==
    /\ HasAccount(registry, LoginOf[k])
    /\ s = FindAccount(registry, LoginOf[k])
    /\ registry[s].connection # 0 /\ live[s].link

(* Nobody holds a session that just ended, so that login goes through.     *)
(* Mutant: the answer stands even then.                                    *)
AnswerStands(allowed, s) == allowed

LoginAllowed(allowed, s) == allowed \/ s \notin DOMAIN live'

AskTheSeat(k) ==
    /\ InTick(AtSeat)
    /\ Fresh(k)
    /\ held' = HeldAccounts
    /\ \/ /\ LoginOf[k] \in unlocking \/ \A s \in DOMAIN live : ~SeatSession(k, s)
          /\ pending' = GateResolve(TakeNew(k), k, TRUE)
          /\ UNCHANGED <<live, registry, prompts, client, toAgent, table>>
          /\ UNCHANGED <<seat_questions, socketVars>>
       \/ \E s \in DOMAIN live :
            /\ LoginOf[k] \notin unlocking /\ SeatSession(k, s)
            /\ \/ /\ Reachable(s) /\ SeatTakeoverPolicy # "ask"
                  /\ LET allowed == SeatTakeoverPolicy = "always" IN
                       /\ Say(live[s].token, <<SeatTakeover(allowed)>>)
                       /\ pending' = GateResolve(TakeNew(k), k, allowed)
                  /\ UNCHANGED <<live, registry, prompts, client, table>>
                  /\ UNCHANGED <<seat_questions, socketVars>>
               \/ /\ Reachable(s) /\ SeatTakeoverPolicy = "ask"
                  /\ Say(live[s].token, <<ConsentRequest(-k)>>)
                  /\ prompts' = Ask(prompts, s, -k)
                  /\ pending' = TakeNew(k)
                  /\ seat_questions' = seat_questions \cup {k}
                  /\ UNCHANGED <<live, registry, client, table, socketVars>>
               \/ /\ ~Reachable(s)
                  /\ EndSession(live, registry, s, client)
                  /\ pending' = GateResolve(TakeNew(k), k,
                                            LoginAllowed(SeatTakeoverPolicy # "never", s))
                  /\ UNCHANGED <<seat_questions, toAgent>>
    /\ UNCHANGED resolutions
    /\ Turn(AtSeat)
    /\ UNCHANGED <<unlocking, closed, busVars, processVars, mailVars, countVars>>

(* The control thread: SessionView::request_terminate() on a list that     *)
(* tick() published some time ago.  Bound: a session that was told to end  *)
(* is not asked to again.                                                  *)
RequestTerminate(s) ==
    /\ running # "down"
    /\ s \in Terminable /\ s < next_id
    /\ s \in DOMAIN live => ~live[s].terminated
    /\ terminations' = terminations \cup {s}
    /\ UNCHANGED <<turn, client, live, registry, prompts, resolutions, toAgent, table>>
    /\ UNCHANGED <<threads, launching, launched, unlocking, socketVars, processVars>>
    /\ UNCHANGED <<seatVars, countVars>>

(* When the agent cannot be told, send_to() ends the session and the call  *)
(* after it reads the id of the deleted Live: any session, or none, is     *)
(* marked as ending.                                                       *)
TerminateRequested(s) ==
    /\ InTick(AtTerminate)
    /\ s \in terminations
    /\ terminations' = terminations \ {s}
    /\ \/ /\ s \notin DOMAIN live
          /\ UNCHANGED <<live, registry, prompts, client, toAgent, table, socketVars>>
       \/ /\ s \in DOMAIN live /\ Reachable(s)
          /\ live' = TerminateSent(live, s)
          /\ registry' = SetEnding(registry, s)
          /\ Say(live[s].token, <<Terminate>>)
          /\ UNCHANGED <<prompts, client, table, socketVars>>
       \/ /\ s \in DOMAIN live /\ ~Reachable(s)
          /\ \E stale \in DOMAIN live : EndSession(live, SetEnding(registry, stale), s, client)
          /\ UNCHANGED toAgent
    /\ UNCHANGED resolutions
    /\ Turn(AtTerminate)
    /\ UNCHANGED <<unlocking, threads, launching, launched, processVars, seatVars, countVars>>

-----------------------------------------------------------------------------
(* tick(): the consent deadlines and settle().                             *)

(* ConsentBroker::due(): the agent did not answer in time.                 *)
ConsentDue(p) ==
    /\ InTick(AtConsent)
    /\ p \in prompts
    /\ prompts' = prompts \ {p}
    /\ resolutions' = resolutions \cup {OnDefault(p, TRUE)}
    /\ Turn(AtConsent)
    /\ UNCHANGED <<live, registry, client, toAgent, table, unlocking>>
    /\ UNCHANGED <<socketVars, processVars, seatVars, mailVars, countVars>>

Cancel(res) == IF res.withdraw THEN <<ConsentCancel(res.connection)>> ELSE << >>

(* resolve() of a question about a login at the machine.                   *)
ResolveSeat(res) ==
    LET s == res.session
        k == -res.connection
    IN
    /\ k \in seat_questions
    /\ seat_questions' = seat_questions \ {k}
    /\ \/ /\ s \notin DOMAIN live
          /\ UNCHANGED <<live, registry, prompts, client, toAgent, table, socketVars>>
       \/ /\ s \in DOMAIN live /\ Reachable(s)
          /\ Say(live[s].token, Cancel(res) \o <<SeatTakeover(res.allowed)>>)
          /\ UNCHANGED <<live, registry, prompts, client, table, socketVars>>
       \/ /\ s \in DOMAIN live /\ ~Reachable(s)
          /\ EndSession(live, registry, s, client)
          /\ UNCHANGED toAgent
    /\ pending' = GateResolve(pending, k, LoginAllowed(res.allowed, s))
    /\ UNCHANGED <<unlocking, held, closed, busVars>>

Asks(res) ==
    /\ res.session \in DOMAIN live
    /\ live[res.session].asking # NoClient
    /\ connOf[live[res.session].asking] = res.connection

(* resolve() of a question about a client; one that is no longer asking is *)
(* left alone.                                                             *)
ResolveClient(res) ==
    LET s == res.session
        c == live[s].asking
        l == [live EXCEPT ![s].asking = NoClient]
    IN
    /\ -res.connection \notin seat_questions
    /\ \/ /\ ~Asks(res)
          /\ UNCHANGED <<live, registry, prompts, client, toAgent, table, socketVars, unlocking>>
       \/ /\ Asks(res) /\ ~res.allowed /\ (Reachable(s) \/ ~res.withdraw)
          /\ live' = l
          /\ client' = [client EXCEPT ![c] = "refused"]
          /\ Say(l[s].token, Cancel(res))
          /\ UNCHANGED <<registry, prompts, table, socketVars, unlocking>>
       \/ /\ Asks(res) /\ res.allowed /\ Reachable(s)
          /\ HandOver(l, registry, s, c, Cancel(res))
          /\ UNCHANGED <<prompts, table, socketVars>>
       \/ /\ Asks(res) /\ ~Reachable(s) /\ (res.withdraw \/ res.allowed)
          /\ EndSession(l, registry, s,
                        [client EXCEPT ![c] = IF res.withdraw THEN "refused" ELSE "dropped"])
          /\ UNCHANGED <<toAgent, unlocking>>
    /\ UNCHANGED seatVars

Settle ==
    /\ running \in {"up", "draining"}
    /\ \E res \in resolutions :
         /\ resolutions' = resolutions \ {res}
         /\ ResolveSeat(res) \/ ResolveClient(res)
    /\ Turn(AtSettle)
    /\ UNCHANGED <<processVars, mailVars, countVars>>

-----------------------------------------------------------------------------
(* tick(): what is due.                                                    *)

PolicyDisconnectIdle(s) ==
    /\ AfterSettle
    /\ s \in DOMAIN live /\ DueDisconnectIdle(registry, s)
    /\ \/ /\ Reachable(s)
          /\ registry' = IdleDisconnectSent(registry, s)
          /\ Say(live[s].token, <<Disconnect(registry[s].connection)>>)
          /\ UNCHANGED <<live, prompts, client, table, socketVars>>
       \/ /\ ~Reachable(s)
          /\ EndSession(live, registry, s, client)
          /\ UNCHANGED toAgent
    /\ UNCHANGED <<turn, resolutions, unlocking>>
    /\ UNCHANGED <<processVars, seatVars, mailVars, countVars>>

PolicyTerminate(s) ==
    /\ AfterSettle
    /\ s \in DOMAIN live /\ DueTerminate(registry, s)
    /\ \/ /\ Reachable(s)
          /\ live' = TerminateSent(live, s)
          /\ registry' = SetEnding(registry, s)
          /\ Say(live[s].token, <<Terminate>>)
          /\ UNCHANGED <<prompts, client, table, socketVars>>
       \/ /\ ~Reachable(s)
          /\ EndSession(live, registry, s, client)
          /\ UNCHANGED toAgent
    /\ UNCHANGED <<turn, resolutions, unlocking>>
    /\ UNCHANGED <<processVars, seatVars, mailVars, countVars>>

(* A session from before the restart whose agent did not come back: who    *)
(* waited for it gets a new one.                                           *)
LostReattach(s) ==
    /\ AfterSettle
    /\ s \in DOMAIN live /\ live[s].reattach
    /\ \/ /\ live[s].waiting = NoClient
          /\ EndSession(live, registry, s, client)
          /\ UNCHANGED <<next_id, process, launching>>
       \/ /\ live[s].waiting # NoClient
          /\ LET l == Restrict(live, DOMAIN live \ {s})
                 r == Remove(registry, s)
             IN StartSession(live[s].waiting, registry[s].account, registry[s].attached,
                             FALSE, l, r, client,
                             IF running = "up" THEN Remembered(l, r) ELSE table)
          /\ prompts' = NotOf(prompts, s)
          /\ signalled' = signalled \cup Stopped(live[s])
          /\ UNCHANGED <<daemonEnd, toDaemon, inbox>>
    /\ UNCHANGED <<turn, resolutions, unlocking, toAgent, next_connection, connOf>>
    /\ UNCHANGED <<threads, launched, terminations, processVars, seatVars>>

(* Sessions tick() ends: their agent went quiet, never greeted, or did not *)
(* end when it was told to.  An agent that runs sends Stats every five     *)
(* seconds, so only one that hangs is silent for thirty.                   *)
Silent(s) ==
    /\ live[s].link /\ ~live[s].terminated /\ ~live[s].reattach
    /\ process[live[s].token] = "hung" /\ toDaemon[live[s].token] = << >>

(* Mutant: nobody minds an agent that never greets.                        *)
NeverOverdue(s) == FALSE

StartOverdue(s) == ~live[s].link

TerminateOverdue(s) == live[s].terminated

Expire(s) ==
    /\ AfterSettle
    /\ s \in DOMAIN live /\ (Silent(s) \/ StartOverdue(s) \/ TerminateOverdue(s))
    /\ EndSession(live, registry, s, client)
    /\ UNCHANGED <<turn, resolutions, unlocking, toAgent>>
    /\ UNCHANGED <<processVars, seatVars, mailVars, countVars>>

(* waitpid() says that the session's own process exited.                   *)
ReapChild(s) ==
    /\ AfterSettle
    /\ s \in DOMAIN live /\ live[s].child /\ process[live[s].token] = "exited"
    /\ LET l == [live EXCEPT ![s].child = FALSE]
       IN \/ /\ live[s].link
             /\ live' = l
             /\ UNCHANGED <<registry, prompts, client, table, socketVars>>
          \/ /\ ~live[s].link
             /\ EndSession(l, registry, s, client)
    /\ UNCHANGED <<turn, resolutions, unlocking, toAgent>>
    /\ UNCHANGED <<processVars, seatVars, mailVars, countVars>>

(* Clock::now() passes the end of the unlock window.                       *)
UnlockWindowEnds(account) ==
    /\ account \in unlocking
    /\ unlocking' = unlocking \ {account}
    /\ UNCHANGED <<turn, client, live, registry, prompts, resolutions, toAgent, table>>
    /\ UNCHANGED <<socketVars, processVars, seatVars, mailVars, countVars>>

-----------------------------------------------------------------------------
(* The process itself: shutdown(), a crash, and the next farlandd.         *)

Unstarted == {s \in DOMAIN live : ~live[s].link}
Terminating == {s \in DOMAIN live : live[s].terminated}

(* What is left after end_session() of several sessions at once, whose     *)
(* table is not written again.                                             *)
EndAll(ss) ==
    LET tokens == {live[s].token : s \in {x \in ss : live[x].link}} IN
    /\ live' = Restrict(live, DOMAIN live \ ss)
    /\ registry' = Restrict(registry, DOMAIN registry \ ss)
    /\ prompts' = {p \in prompts : p.session \notin ss}
    /\ client' = [c \in Clients |->
                    IF \E s \in ss : c = live[s].waiting THEN "dropped"
                    ELSE IF \E s \in ss : c = live[s].asking THEN "refused" ELSE client[c]]
    /\ signalled' = signalled \cup UNION {Stopped(live[s]) : s \in ss}
    /\ daemonEnd' = [t \in Agents |-> IF t \in tokens THEN "none" ELSE daemonEnd[t]]
    /\ toDaemon' = [t \in Agents |-> IF t \in tokens THEN << >> ELSE toDaemon[t]]
    /\ inbox' = [t \in Agents |-> IF t \in tokens THEN 0 ELSE inbox[t]]

(* shutdown(): let every login go, write the table, end what has no agent. *)
ShutdownBegin ==
    /\ running = "up" /\ resolutions = {} /\ restarts < MaxRestarts
    /\ running' = "stopping"
    /\ ReleaseAll
    /\ table' = Remembered(live, registry)
    /\ EndAll(Unstarted)
    /\ UNCHANGED <<restarts, turn, resolutions, unlocking, toAgent, seat_questions, busVars>>
    /\ UNCHANGED <<foreign, agentEnd, mailVars, countVars>>

(* It waits ten seconds at most for the sessions that are ending.          *)
ShutdownEnd ==
    /\ running = "stopping"
    /\ running' = "draining"
    /\ EndAll(Terminating)
    /\ UNCHANGED <<restarts, turn, resolutions, unlocking, toAgent, table>>
    /\ UNCHANGED <<foreign, agentEnd, seatVars, mailVars, countVars>>

(* The process is gone, after shutdown() or at any other moment: its       *)
(* memory, its threads and its ends of the sockets go with it.  A launcher *)
(* thread may have started its unit by then.                               *)
Vanish ==
    /\ running' = "down" /\ restarts' = restarts + 1 /\ turn' = 0
    /\ live' = << >> /\ registry' = << >> /\ next_id' = 1 /\ next_connection' = 1
    /\ prompts' = {} /\ resolutions' = {} /\ threads' = {} /\ launched' = {}
    /\ launching' = {} /\ terminations' = {} /\ unlocking' = {}
    /\ held' = {} /\ pending' = << >> /\ closed' = FALSE /\ seat_questions' = {}
    /\ calls' = << >> /\ awaited' = 0
    /\ client' = [c \in Clients |-> IF client[c] \in {"logging_in", "posted", "kept"}
                                   THEN "dropped" ELSE client[c]]
    /\ \E started \in SUBSET {job.agent : job \in launching} :
         process' = [t \in Agents |-> IF process[t] # "launching" THEN process[t]
                                     ELSE IF t \in started THEN "starting" ELSE "exited"]
    /\ daemonEnd' = [t \in Agents |-> "none"]
    /\ toDaemon' = [t \in Agents |-> << >>]
    /\ inbox' = [t \in Agents |-> 0]
    /\ UNCHANGED <<connOf, signalled, agentEnd, toAgent, table, foreign>>

(* After the last tick(), or without one when nothing is left to wait for. *)
Exit == running = "draining" /\ turn <= AtAgents /\ Vanish

Crash == running # "down" /\ restarts < MaxRestarts /\ Vanish

(* recover_sessions(): every session of the table waits for its agent.     *)
Start ==
    /\ running = "down"
    /\ running' = "up"
    /\ live' = [s \in DOMAIN table |->
                  [token |-> table[s].token, link |-> FALSE, waiting |-> NoClient,
                   asking |-> NoClient, terminated |-> FALSE, reattach |-> TRUE,
                   kind |-> table[s].kind, child |-> FALSE, login |-> table[s].login,
                   ended |-> FALSE]]
    /\ registry' = Restore(table)
    /\ next_id' = NextIdAfter(table)
    /\ \/ foreign' = foreign
       \/ Upgrades /\ foreign' = foreign \cup
                         {t \in Agents : process[t] \in {"starting", "running", "hung"}}
    /\ UNCHANGED <<restarts, turn, prompts, resolutions, unlocking, toAgent, table, client>>
    /\ UNCHANGED <<next_connection, connOf, process, agentEnd, socketVars, seatVars, mailVars>>

FarlanddNext ==
    \/ \E s \in DOMAIN live : ReadAgent(s)
    \/ \E t \in Agents :
         \/ AcceptAgent(t) \/ HelloTimeout(t) \/ HelloUnknown(t) \/ HelloRefused(t)
         \/ \E s \in DOMAIN live : HelloAccepted(t, s)
    \/ \E c \in Clients :
         AcceptClient(c) \/ Authenticate(c) \/ NetworkProcessEnds(c) \/ HandleAuthenticated(c)
    \/ \E job \in launching : LaunchThread(job)
    \/ \E item \in launched : HandleLaunched(item)
    \/ RefreshHeld \/ \E k \in Logins : AskTheSeat(k)
    \/ \E s \in Terminable : RequestTerminate(s) \/ TerminateRequested(s)
    \/ \E p \in prompts : ConsentDue(p)
    \/ Settle
    \/ \E s \in DOMAIN live :
         \/ PolicyDisconnectIdle(s) \/ PolicyTerminate(s)
         \/ LostReattach(s) \/ Expire(s) \/ ReapChild(s)
    \/ \E account \in SeatUsers : UnlockWindowEnds(account)
    \/ ShutdownBegin \/ ShutdownEnd \/ Exit \/ Crash \/ Start

-----------------------------------------------------------------------------
(* Properties of farlandd alone, whatever the agents say.                  *)

LaunchJob == [agent: Agents, account: Accounts, gdm: BOOLEAN]

(* Every variable of farlandd has its type.                                *)
FarlanddTypeOK ==
    /\ running \in {"up", "stopping", "draining", "down"}
    /\ restarts \in Nat /\ turn \in 0..AtSettle
    /\ live \in [DOMAIN live -> LiveSession]
    /\ registry \in [DOMAIN registry -> Session]
    /\ DOMAIN live \subseteq Nat \ {0} /\ DOMAIN registry \subseteq Nat \ {0}
    /\ next_id \in Nat \ {0} /\ next_connection \in Nat \ {0}
    /\ prompts \subseteq Prompt /\ resolutions \subseteq Resolved
    /\ threads \subseteq Clients /\ launching \subseteq LaunchJob
    /\ launched \subseteq [job: LaunchJob, ok: BOOLEAN]
    /\ terminations \subseteq Nat
    /\ table \in [DOMAIN table -> StoredSession] /\ DOMAIN table \subseteq Nat \ {0}
    /\ foreign \subseteq Agents /\ held \subseteq Accounts
    /\ seat_questions \subseteq Logins
    /\ unlocking \subseteq SeatUsers

(* What the registry says of a session agrees with the Live beside it.     *)
Mirrors(e, r) ==
    /\ e.link => r.state # "starting" /\ e.waiting = NoClient
    /\ ~e.link => r.state # "running" /\ e.asking = NoClient
    /\ e.terminated => e.link /\ r.state = "ending"
    /\ e.reattach => ~e.link
    /\ r.disconnected_since <=> r.connection = 0

(* The registry and the live sessions are two lists kept in step by hand   *)
(* (create/push_back, remove/erase): every session is in both, an agent    *)
(* that greeted leaves "starting" and nobody waiting, and a session that   *)
(* was told to end is no longer given to anybody.                          *)
RegistryMirrorsLive ==
    /\ DOMAIN registry = DOMAIN live
    /\ \A s \in DOMAIN live : Mirrors(live[s], registry[s])

(* A client that asks for a session is never forgotten: its question is    *)
(* still open in the ConsentBroker or its answer is waiting for settle(),  *)
(* and every question about a client belongs to the client that asks.      *)
NoStrandedAsker ==
    /\ \A s \in DOMAIN live : live[s].asking # NoClient =>
         \E q \in prompts \cup resolutions :
             q.session = s /\ q.connection = connOf[live[s].asking]
    /\ \A p \in prompts : p.connection > 0 =>
         /\ p.session \in DOMAIN live
         /\ live[p.session].asking # NoClient
         /\ connOf[live[p.session].asking] = p.connection

(* Whoever farlandd keeps is kept for one session and in one role, waiting *)
(* or asking: no client's descriptor is dropped without an ending, none is *)
(* given away and still held.                                              *)
KeptInOnePlace ==
    LET keptFor(s) == Clients \cap {live[s].waiting, live[s].asking} IN
    /\ {c \in Clients : client[c] = "kept"} = UNION {keptFor(s) : s \in DOMAIN live}
    /\ \A s, t \in DOMAIN live : s # t => keptFor(s) \cap keptFor(t) = {}
    /\ \A s \in DOMAIN live :
         live[s].waiting = live[s].asking => live[s].waiting = NoClient

(* A crash at any moment loses no session whose agent greeted and that was *)
(* not told to end: the table on disk has it, with the token its agent     *)
(* will greet the next farlandd with.                                      *)
LinkedIsRemembered ==
    \A s \in DOMAIN live :
        live[s].link /\ ~live[s].terminated /\ running = "up" =>
            /\ s \in DOMAIN table
            /\ table[s].token = live[s].token
            /\ table[s].account = registry[s].account
            /\ table[s].attached = registry[s].attached

(* [policy] max_sessions: never more sessions that are not ending than the *)
(* limit, whoever asks, while farlandd stays up.                           *)
WithinLimit == MaxSessions # 0 => Cardinality(NotEnding(registry)) <= MaxSessions

(* A session the state of which is "ending" was told to end by farlandd,   *)
(* or its agent said that it ended.                                        *)
EndingWasTold ==
    \A s \in DOMAIN registry :
        registry[s].state = "ending" => live[s].terminated \/ live[s].ended

(* An account has one session: at most one that is not ending.             *)
OneSessionPerAccount ==
    \A s, t \in NotEnding(registry) : registry[s].account = registry[t].account => s = t

(* While a session waits to be picked up again after a restart, or runs,   *)
(* it stays in the table, so that the farlandd after this one finds it.    *)
StillRemembered ==
    [][\A s \in DOMAIN table \ DOMAIN table' :
         running = "up" => s \notin DOMAIN live' \/ live'[s].terminated]_farlanddVars

(* Whoever holds a session is asked: a connection takes the place of       *)
(* another one only on an answer, not because an earlier holder left.      *)
ReplacedOnAnswer ==
    [][\A s \in DOMAIN registry \cap DOMAIN registry' :
         LET before == registry[s].connection
             after == registry'[s].connection
         IN before # 0 /\ after \notin {0, before} =>
              \E res \in resolutions : res.session = s /\ res.connection = after
                                       /\ res.allowed /\ ~res.withdraw]_farlanddVars

(* A login at the machine is refused only on behalf of a session that is   *)
(* there: nobody holds a session that just ended.                          *)
RefusedForASession ==
    [][\A k \in DOMAIN pending \cap DOMAIN pending' :
         ~pending[k].done /\ pending'[k].done /\ ~pending'[k].allowed =>
             HasAccount(registry', LoginOf[k])]_<<pending, registry>>

(* The answer to a question about a login at the machine finds that login: *)
(* it is never taken for the answer about a client.                        *)
SeatAnswerFindsLogin ==
    \A q \in prompts \cup resolutions : q.connection < 0 => -q.connection \in seat_questions
=============================================================================
