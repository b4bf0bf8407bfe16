----------------------------- MODULE MCAnyAgent -----------------------------
(* AnyAgent for TLC.                                                        *)
EXTENDS AnyAgent, TLC

CONSTANTS c1, c2, c3, a1, a2, alice

OneAccount == [c \in Clients |-> alice]

AliceLogsIn == [k \in Logins |-> alice]

(* Clients that log in to one account, and agents, are interchangeable.     *)
Symmetry == Permutations(Clients) \cup Permutations(Agents)
=============================================================================
