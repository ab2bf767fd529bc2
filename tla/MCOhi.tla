------------------------------- MODULE MCOhi -------------------------------
(* Small instances of Ohi for TLC. *)
EXTENDS Ohi, TLC

\* Links differ in nothing but their name.
LinkSymmetry == Permutations(Link)
=============================================================================
