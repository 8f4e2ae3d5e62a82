--------------------------- MODULE MCTuningSession ---------------------------
(* A small instance of TuningSession. *)
EXTENDS TuningSession

\* Three subgraphs: 3 follows 2, and 1 follows both and repeats 2; add_task orders
\* them 2, 3, 1.
MCKeys == {1, 2, 3}
MCTags == {"conv", "dense"}
MCTag == [k \in MCKeys |-> IF k = 3 THEN "dense" ELSE "conv"]
MCSucc == [k \in MCKeys |-> IF k = 2 THEN {1, 3} ELSE {1} \ {k}]
MCCallOrder == <<2, 3, 1>>

\* A library with all the functions, and one that misses a subgraph.
MCReferences == {[t \in MCTags |-> MaxPerf], [t \in {"conv"} |-> 1]}
=============================================================================
