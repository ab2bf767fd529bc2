---------------------------- MODULE MCUserRecord ----------------------------
(* Small instances of UserRecord for TLC. *)
EXTENDS UserRecord, TLC

CONSTANTS a1, a2  \* aliases

\* Version 1 is made by AddUser, 2 adds both names of an alias, 3 drops one.
MCAlias == {a1, a2}
MCTouched(v) == CASE v = 2 -> {a1, a2} [] v = 3 -> {a1} [] OTHER -> {}

ThreadSymmetry == Permutations(Thread)
=============================================================================
