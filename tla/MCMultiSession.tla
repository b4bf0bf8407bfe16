--------------------------- MODULE MCMultiSession ---------------------------
(* MultiSession for TLC: model values and the constants that are functions. *)
EXTENDS MultiSession, TLC

CONSTANTS c1, c2, c3, a1, a2, a3, alice, bob

OneAccount == [c \in Clients |-> alice]
TwoAccounts == [c \in Clients |-> IF c = c2 THEN bob ELSE alice]

AliceLogsIn == [k \in Logins |-> alice]

(* Clients that log in to one account, and agents, are interchangeable.     *)
Symmetry == Permutations(Clients) \cup Permutations(Agents)
AgentSymmetry == Permutations(Agents)
=============================================================================
