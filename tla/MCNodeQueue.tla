----------------------------- MODULE MCNodeQueue -----------------------------
(* Small instances of NodeQueue for TLC. *)
EXTENDS NodeQueue, TLC

\* Connections are interchangeable; messages are not, they are ordered.
LinkSymmetry == Permutations(Link)
=============================================================================
