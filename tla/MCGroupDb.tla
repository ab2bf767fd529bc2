----------------------------- MODULE MCGroupDb -----------------------------
(* Small instances of GroupDb for TLC. *)
EXTENDS GroupDb, TLC

\* Users, objects, threads and printable names are interchangeable.
Symmetry == UNION {Permutations(Uid), Permutations(Obj), Permutations(Thread),
                   Permutations(Name \ BadName)}
=============================================================================
