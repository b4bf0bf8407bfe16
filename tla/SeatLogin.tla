------------------------------ MODULE SeatLogin ------------------------------
(***************************************************************************)
(* Logins at the machine: pam_farland (apps/farland-pam/pam_farland.c)     *)
(* makes two calls on the bus, which farlandd's one D-Bus thread           *)
(* (apps/farlandd/enrol.cpp) answers one after the other.  Whatever goes   *)
(* wrong lets the login through.                                           *)
(***************************************************************************)
EXTENDS SeatGate

VARIABLE login   \* how far pam_sm_acct_mgmt() is for each login

LoginStates == {
    "none",            \* nobody logs in
    "asks",            \* takeover_pending() waits for its reply
    "told",            \* it has a cookie
    "waits",           \* takeover_allowed() waits for its reply
    "in", "denied"}    \* PAM_SUCCESS, PAM_PERM_DENIED

LoginInit == login = [k \in Logins |-> "none"]

LoginTypeOK == login \in [Logins -> LoginStates]

Call(method, k) == [method |-> method, login |-> k]

(* A call goes out; without farlandd on the bus it fails at once.          *)
MakeCall(k, method, state, up) ==
    /\ login' = [login EXCEPT ![k] = IF up THEN state ELSE "in"]
    /\ calls' = IF up THEN Append(calls, Call(method, k)) ELSE calls
    /\ UNCHANGED <<gateVars, awaited>>

TakeoverPending(k, up) == login[k] = "none" /\ MakeCall(k, "pending", "asks", up)

TakeoverAllowed(k, up) == login[k] = "told" /\ MakeCall(k, "await", "waits", up)

(* A call that farlandd took with it when it went, or that takes longer    *)
(* than PENDING_TIMEOUT_US or ANSWER_CALL_TIMEOUT_US, lets the login in.   *)
CallFails(k) ==
    /\ login[k] \in {"asks", "waits"}
    /\ login' = [login EXCEPT ![k] = "in"]
    /\ UNCHANGED <<gateVars, busVars>>

(* The D-Bus thread: seat_takeover_pending() and await_seat_takeover().    *)
TakeUp(method, k) ==
    /\ awaited = 0 /\ calls # << >> /\ Head(calls) = Call(method, k)
    /\ calls' = Tail(calls)

(* A reply to a login that no longer waits for it is lost.                 *)
Reply(k, from, to) ==
    login' = [login EXCEPT ![k] = IF @ = from THEN to ELSE @]

SeatTakeoverPending(k) ==
    /\ TakeUp("pending", k)
    /\ pending' = IF Begins(k) THEN Begin(k) ELSE pending
    /\ Reply(k, "asks", IF Begins(k) THEN "told" ELSE "in")
    /\ UNCHANGED <<held, closed, awaited>>

AwaitBegins(k) ==
    /\ TakeUp("await", k)
    /\ IF k \in DOMAIN pending
       THEN awaited' = k /\ UNCHANGED login
       ELSE UNCHANGED awaited /\ Reply(k, "waits", "in")
    /\ UNCHANGED gateVars

(* The answer came, the gate closed, or max_seat_takeover_wait is over.    *)
AwaitEnds(k) ==
    /\ awaited = k
    /\ awaited' = 0
    /\ pending' = Erase(k)
    /\ Reply(k, "waits", IF Allowed(k) THEN "in" ELSE "denied")
    /\ UNCHANGED <<held, closed, calls>>

LoginNext(k, up) ==
    \/ TakeoverPending(k, up) \/ TakeoverAllowed(k, up) \/ CallFails(k)
    \/ SeatTakeoverPending(k) \/ AwaitBegins(k) \/ AwaitEnds(k)
=============================================================================
