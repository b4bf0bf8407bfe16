--------------------------- MODULE SessionRegistry ---------------------------
(***************************************************************************)
(* farlandd's list of sessions (apps/farlandd/registry.cpp): which session *)
(* an account has, who may get a new one and which client connection holds *)
(* it.  The class has no I/O; its list is the value of a function from     *)
(* session ids to records and every method is an operator on that value.   *)
(* Ids grow with every create(), so the order of the list is the order of  *)
(* the ids.  Durations are abstracted: a timeout that runs may be over.    *)
(***************************************************************************)
EXTENDS Integers, FiniteSets, Functions

CONSTANTS
    Accounts,            \* local accounts a client may log in to
    MaxSessions,         \* [policy] max_sessions, 0 for no limit
    OnLocalSession,      \* [policy] on_local_session
    DisconnectedTimeout, \* [policy] disconnected_timeout is not 0
    IdleTimeout          \* [policy] idle_timeout is not 0

ASSUME RegistryAssumption ==
    /\ MaxSessions \in Nat
    /\ OnLocalSession \in {"separate", "attach", "replace", "refuse"}
    /\ DisconnectedTimeout \in BOOLEAN
    /\ IdleTimeout \in BOOLEAN

(* SessionRegistry::Session. `idle` says that idle_seconds has reached      *)
(* idle_timeout; `disconnected_since` says that the optional holds a time.  *)
Session ==
    [account: Accounts, state: {"starting", "running", "ending"}, attached: BOOLEAN,
     connection: Nat, disconnected_since: BOOLEAN, idle: BOOLEAN,
     idle_disconnect_sent: BOOLEAN]

NewSession(account, attached) ==
    [account |-> account, state |-> "starting", attached |-> attached,
     connection |-> 0, disconnected_since |-> TRUE, idle |-> FALSE,
     idle_disconnect_sent |-> FALSE]

OfAccount(r, account) == {s \in DOMAIN r : r[s].account = account}

HasAccount(r, account) == OfAccount(r, account) # {}

(* The first session of the account in the list, ending or not.            *)
FindAccount(r, account) ==
    CHOOSE s \in OfAccount(r, account) : \A t \in OfAccount(r, account) : s <= t

Existing(r, account) ==
    HasAccount(r, account) /\ r[FindAccount(r, account)].state # "ending"

NotEnding(r) == {s \in DOMAIN r : r[s].state # "ending"}

(* Mutant: one session more than the limit.                                *)
OneTooMany(r) == MaxSessions # 0 /\ Cardinality(NotEnding(r)) > MaxSessions

Full(r) == MaxSessions # 0 /\ Cardinality(NotEnding(r)) >= MaxSessions

(* admit(): what to do with a connection that authenticated as `account`;   *)
(* local_session says that the account is logged in at a local seat.       *)
Admit(r, account, local_session) ==
    CASE Existing(r, account) -> "existing"
      [] ~Existing(r, account) /\ local_session /\ OnLocalSession = "refuse"
            -> "refuse_local_session"
      [] ~Existing(r, account) /\ ~(local_session /\ OnLocalSession = "refuse") /\ Full(r)
            -> "refuse_limit"
      [] OTHER -> IF local_session THEN OnLocalSession ELSE "create"

Put(f, k, v) == [x \in DOMAIN f \cup {k} |-> IF x = k THEN v ELSE f[x]]

Create(r, id, account, attached) == Put(r, id, NewSession(account, attached))

(* restore() of every session of the table, into the registry of a daemon  *)
(* that just started.                                                      *)
Restore(table) ==
    [s \in DOMAIN table |-> NewSession(table[s].account, table[s].attached)]

(* next_id_ after restoring the ids of the table.                          *)
NextIdAfter(table) ==
    CHOOSE n \in {1} \cup {s + 1 : s \in DOMAIN table} :
        \A s \in DOMAIN table : s < n

SetRunning(r, s) ==
    [r EXCEPT ![s].state = IF @ = "starting" THEN "running" ELSE @]

(* connect() gives the session to a connection; what it replaces is the    *)
(* connection of the registry before it.                                   *)
Connect(r, s, connection) ==
    [r EXCEPT ![s].connection = connection,
              ![s].disconnected_since = FALSE,
              ![s].idle = FALSE,
              ![s].idle_disconnect_sent = FALSE]

(* disconnected() minds only the connection that has the session.          *)
(* Mutants: any connection will do; the time is not noted.                 *)
DisconnectedAny(r, s, connection) ==
    [r EXCEPT ![s].connection = 0, ![s].disconnected_since = TRUE, ![s].idle = FALSE]

DisconnectedUntimed(r, s, connection) ==
    IF connection # 0 /\ r[s].connection = connection
    THEN [r EXCEPT ![s].connection = 0, ![s].idle = FALSE]
    ELSE r

Disconnected(r, s, connection) ==
    IF connection # 0 /\ r[s].connection = connection
    THEN [r EXCEPT ![s].connection = 0, ![s].disconnected_since = TRUE, ![s].idle = FALSE]
    ELSE r

UpdateIdle(r, s, connection, idle) ==
    IF connection # 0 /\ r[s].connection = connection
    THEN [r EXCEPT ![s].idle = idle]
    ELSE r

(* The client an agent still serves after farlandd came back.              *)
(* Mutant: the client is not taken in.                                     *)
NotAdopted(r, s, connection) == r

AdoptConnection(r, s, connection) ==
    IF connection # 0 /\ r[s].connection = 0
    THEN [r EXCEPT ![s].connection = connection, ![s].disconnected_since = FALSE,
                   ![s].idle_disconnect_sent = FALSE]
    ELSE r

SetEnding(r, s) ==
    IF s \in DOMAIN r THEN [r EXCEPT ![s].state = "ending"] ELSE r

Remove(r, s) == Restrict(r, DOMAIN r \ {s})

(* The two actions due() finds for a session.  Mutant: who is connected is *)
(* not looked at.                                                          *)
DueTerminateAnyway(r, s) == DisconnectedTimeout /\ r[s].state = "running"

DueTerminate(r, s) ==
    /\ DisconnectedTimeout
    /\ r[s].state = "running" /\ r[s].connection = 0 /\ r[s].disconnected_since

DueDisconnectIdle(r, s) ==
    /\ IdleTimeout
    /\ r[s].state = "running" /\ r[s].connection # 0
    /\ ~r[s].idle_disconnect_sent /\ r[s].idle

IdleDisconnectSent(r, s) == [r EXCEPT ![s].idle_disconnect_sent = TRUE]
=============================================================================
