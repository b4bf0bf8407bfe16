------------------------------ MODULE SeatGate ------------------------------
(***************************************************************************)
(* The SeatTakeoverGate (apps/farlandd/seat_takeover.cpp), which stands    *)
(* between the D-Bus thread, where a login at the machine asks whether a   *)
(* client holds the session, and farlandd's loop, which asks that client.  *)
(* Every method runs under one mutex and is an operator here; await() is   *)
(* two steps, because it gives the mutex up while it waits.  A login is    *)
(* named by the cookie it gets.                                            *)
(***************************************************************************)
EXTENDS Integers, Sequences, Functions

CONSTANTS
    Logins,     \* logins at the machine, by their cookie
    LoginOf     \* the account of a login

ASSUME GateAssumption == Logins \subseteq Nat \ {0} /\ DOMAIN LoginOf = Logins

VARIABLES
    held,       \* held_: accounts whose session a client holds
    pending,    \* pending_: by cookie
    closed,     \* closed_
    calls,      \* calls on the bus that the D-Bus thread has not taken up
    awaited     \* the cookie the D-Bus thread is in await() for, or 0

gateVars == <<held, pending, closed>>
busVars == <<calls, awaited>>

Pending == [taken: BOOLEAN, done: BOOLEAN, allowed: BOOLEAN]
Calls == [method: {"pending", "await"}, login: Logins]

GateInit ==
    /\ held = {} /\ pending = << >> /\ closed = FALSE
    /\ calls = << >> /\ awaited = 0

GateTypeOK ==
    /\ pending \in [DOMAIN pending -> Pending] /\ DOMAIN pending \subseteq Logins
    /\ closed \in BOOLEAN
    /\ calls \in Seq(Calls) /\ awaited \in Logins \cup {0}

(* begin() holds a login up only for an account some client holds.         *)
Begins(k) == ~closed /\ LoginOf[k] \in held

Begin(k) ==
    [x \in DOMAIN pending \cup {k} |->
        IF x = k THEN [taken |-> FALSE, done |-> FALSE, allowed |-> TRUE] ELSE pending[x]]

(* take_new() gives the loop what nobody was asked about yet.  Mutant:     *)
(* what it gave before as well.                                            *)
FreshAgain(k) == k \in DOMAIN pending /\ ~pending[k].done

Fresh(k) == k \in DOMAIN pending /\ ~pending[k].taken /\ ~pending[k].done

TakeNew(k) == [pending EXCEPT ![k].taken = TRUE]

GateResolve(ps, k, allowed) ==
    [x \in DOMAIN ps |-> IF x = k THEN [ps[x] EXCEPT !.done = TRUE, !.allowed = allowed]
                         ELSE ps[x]]

(* release_all(): farlandd is going away.                                  *)
ReleaseAll ==
    /\ closed' = TRUE /\ held' = {}
    /\ pending' = [k \in DOMAIN pending |->
                     [pending[k] EXCEPT !.done = TRUE, !.allowed = TRUE]]

(* What await() answers when it stops waiting, and what is left.           *)
Allowed(k) == k \notin DOMAIN pending \/ ~pending[k].done \/ pending[k].allowed

Erase(k) == Restrict(pending, DOMAIN pending \ {k})
=============================================================================
