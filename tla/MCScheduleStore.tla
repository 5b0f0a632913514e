-------------------------- MODULE MCScheduleStore --------------------------
(* Instances of ScheduleStore for TLC. *)
EXTENDS ScheduleStore, TLC

Pacific == -8

Symmetry == Permutations(Proc)
=============================================================================
