------------------------- MODULE MCScheduleLibrary -------------------------
(* A small instance of ScheduleLibrary. *)
EXTENDS ScheduleLibrary, TLC

\* Nothing tells one entity from another.
AnyEntity == Permutations(Entities)
=============================================================================
