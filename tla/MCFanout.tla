------------------------------ MODULE MCFanout ------------------------------
(* Small instances of Fanout for TLC. *)
EXTENDS Fanout, TLC

CONSTANTS u1, u2, g1, g2

\* Both users are in group g1, the second one is invited to g2, which the others
\* have left.
MCUser == {u1, u2}
MCGroup == {g1, g2}
MCMember(g) == IF g = g1 THEN {u1, u2} ELSE {}
MCInvited(g) == IF g = g2 THEN {u2} ELSE {}

\* Requests are interchangeable.
Symmetry == Permutations(Edit)
=============================================================================
