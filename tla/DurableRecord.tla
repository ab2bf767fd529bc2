--------------------------- MODULE DurableRecord ---------------------------
(***************************************************************************)
(* What the user database promises for one record: its versions follow     *)
(* each other one by one, none is ever taken back, and an update that is   *)
(* confirmed to its caller is committed.  Crashes and restarts are not     *)
(* visible here at all.                                                    *)
(***************************************************************************)
EXTENDS Naturals

VARIABLES
  val,   \* the committed version, 0 before there is a record
  done   \* the last version that was confirmed

Init == val = 0 /\ done = 0

\* The next version is committed, by its writer or by a restart.
Commit == val' = val + 1 /\ UNCHANGED done

\* The writer is told that the committed version is stored.
Confirm == done' = val /\ UNCHANGED val

Next == Commit \/ Confirm

Spec == Init /\ [][Next]_<<val, done>>
=============================================================================
