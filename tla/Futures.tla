------------------------------ MODULE Futures ------------------------------
(***************************************************************************)
(* What the thread pool promises its clients about the futures it returns. *)
(* A task is accepted once; its future becomes ready once, and for good.   *)
(* A future is broken only by a pool that is being taken down, and after   *)
(* the pool is gone no future is left pending.                             *)
(***************************************************************************)
CONSTANT Tasks

VARIABLES
  future,   \* of each task: "none", "pending", "ready" or "broken"
  pool      \* "open", "closing" or "gone"

Init == future = [t \in Tasks |-> "none"] /\ pool = "open"

Accept(t) ==
  /\ future[t] = "none" /\ pool # "gone"
  /\ future' = [future EXCEPT ![t] = "pending"]
  /\ UNCHANGED pool

Complete(t) ==
  /\ future[t] = "pending"
  /\ future' = [future EXCEPT ![t] = "ready"]
  /\ UNCHANGED pool

\* The owner takes the pool down and may break what is pending.
Close(S) ==
  /\ pool # "gone" /\ pool' = "closing"
  /\ \A t \in S : future[t] = "pending"
  /\ future' = [t \in Tasks |-> IF t \in S THEN "broken" ELSE future[t]]

Destroy ==
  /\ pool = "closing" /\ \A t \in Tasks : future[t] # "pending"
  /\ pool' = "gone"
  /\ UNCHANGED future

Next ==
  \/ \E t \in Tasks : Accept(t) \/ Complete(t)
  \/ \E S \in SUBSET Tasks : Close(S)
  \/ Destroy

Spec == Init /\ [][Next]_<<future, pool>>
============================================================================
