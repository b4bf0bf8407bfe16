---------------------------- MODULE ConsentBroker ----------------------------
(***************************************************************************)
(* [policy] takeover (apps/farlandd/consent.cpp): who is asked before a    *)
(* connection takes a session, and what an answer, or none, decides.  The  *)
(* list of questions is a set of prompts: no two have the same connection  *)
(* (ask() forgets an older one).  Client connections are numbered from 1   *)
(* up; the questions about logins at the machine, whose numbers carry      *)
(* seat_connection_bit in the code, are the negative numbers.              *)
(***************************************************************************)
EXTENDS Integers

CONSTANTS
    Takeover,            \* [policy] takeover
    TakeoverOnTimeout    \* [policy] takeover_on_timeout

ASSUME ConsentAssumption ==
    /\ Takeover \in {"ask", "always", "never"}
    /\ TakeoverOnTimeout \in {"allow", "deny"}

Answers == {"allowed", "denied", "timed_out", "unavailable"}

Prompt == [session: Nat, connection: Int]

Resolved == [session: Nat, connection: Int, allowed: BOOLEAN, withdraw: BOOLEAN]

(* admit(): a session nobody holds is handed over without a question.      *)
(* Mutant: "never" hands over as well.                                     *)
NeverHandsOver(held) == IF ~held \/ Takeover # "ask" THEN "hand_over" ELSE "ask"

AdmitTakeover(held) ==
    IF ~held \/ Takeover = "always" THEN "hand_over"
    ELSE IF Takeover = "never" THEN "refuse" ELSE "ask"

Forget(ps, connection) == {p \in ps : p.connection # connection}

Ask(ps, session, connection) ==
    Forget(ps, connection) \cup {[session |-> session, connection |-> connection]}

Resolve(p, allowed, withdraw) ==
    [session |-> p.session, connection |-> p.connection,
     allowed |-> allowed, withdraw |-> withdraw]

OnDefault(p, withdraw) == Resolve(p, TakeoverOnTimeout = "allow", withdraw)

(* The prompts a reply about `connection` answers: one at most.            *)
AnsweredBy(ps, connection) == {p \in ps : p.connection = connection}

(* answered(): what the agent's reply decides.                             *)
Answered(p, answer) ==
    CASE answer = "allowed" -> Resolve(p, TRUE, FALSE)
      [] answer = "denied" -> Resolve(p, FALSE, FALSE)
      [] OTHER -> OnDefault(p, FALSE)

(* take(): the prompts of a session, and what is left without them.        *)
Of(ps, session) == {p \in ps : p.session = session}
NotOf(ps, session) == {p \in ps : p.session # session}

(* released(): whoever was asked has left, so every asker may have it.     *)
Released(ps, session) == {Resolve(p, TRUE, TRUE) : p \in Of(ps, session)}
=============================================================================
