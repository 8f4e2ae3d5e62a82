---------------------------- MODULE DurableBest ----------------------------
(***************************************************************************)
(* What a resumable search promises: a register of the best value found    *)
(* that is durable the moment it is known.  A crash forgets what the       *)
(* process knows, and recovery finds all of it again.                      *)
(***************************************************************************)
EXTENDS Integers

CONSTANT Scores   \* the values of the register, 0 for nothing found

VARIABLES known, durable

Init == known = 0 /\ durable = 0

\* The search finds a better value than any it knows.
Improve ==
  /\ known = durable
  /\ \E s \in Scores : s > known /\ known' = s /\ durable' = s

Crash == known' = 0 /\ UNCHANGED durable

Recover == known' = durable /\ UNCHANGED durable

Next == Improve \/ Crash \/ Recover

Spec == Init /\ [][Next]_<<known, durable>>
============================================================================
