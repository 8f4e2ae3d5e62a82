--------------------------- MODULE MCMeasureBatch ---------------------------
(***************************************************************************)
(* Four candidates, of which the second does not apply and the third does  *)
(* not build, and a pool of two workers.                                   *)
(***************************************************************************)
EXTENDS MeasureBatch, TLC

CONSTANTS c1, c2, c3, c4

MCParams == <<c1, c2, c3, c4>>
MCProgram == Builder :> <<c1, c3, c4>>
=============================================================================
