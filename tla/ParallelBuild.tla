--------------------------- MODULE ParallelBuild ---------------------------
(***************************************************************************)
(* tg.parallel_build (src/tg/build_function/build_function.cc) over the    *)
(* thread pool: one client pushes a task per schedule to a pool of its     *)
(* own, collects the futures in order and lets the pool go out of scope.   *)
(* A build may throw, and then stands as a null module in the result.      *)
(***************************************************************************)
EXTENDS ThreadPool

CONSTANTS
  Builder,  \* the calling thread, the only client
  Throws,   \* the schedules whose lowering or building throws
  NoModule  \* Optional<Module>(nullptr)

ASSUME BuildAssumption ==
  /\ Clients = {Builder}
  /\ Throws \subseteq Tasks /\ NoModule \notin Tasks

VARIABLES
  collecting, \* the loop over the futures has begun
  ret         \* the modules collected so far

buildVars == <<vars, collecting, ret>>

schs == Program[Builder]

BuildInit == Init /\ collecting = FALSE /\ ret = <<>>

\* futures.emplace_back(pool.push_back(...)) for every schedule.
PushBuild ==
  /\ ~collecting
  /\ Push(Builder) \/ NotifyOne(Builder)
  /\ UNCHANGED <<collecting, ret>>

\* Every future is in the vector: the second loop begins.
Collect ==
  /\ ~collecting /\ pushed[Builder] = Len(schs) /\ Builder \notin notifying
  /\ collecting' = TRUE
  /\ UNCHANGED <<vars, ret>>

\* f.get() waits for the future; an exception, the one of a broken promise
\* too, becomes a null module.
Get ==
  /\ collecting /\ Len(ret) < Len(schs)
  /\ LET s == schs[Len(ret) + 1] IN
       /\ future[s] \in {"ready", "broken"}
       /\ ret' = Append(ret, IF future[s] = "broken" \/ s \in Throws THEN NoModule ELSE s)
  /\ UNCHANGED <<vars, collecting>>

\* Mutant of Return: the pool goes before the futures are collected.
Return_Early ==
  /\ Destroy
  /\ UNCHANGED <<collecting, ret>>

\* return ret: the local pool is destroyed on the way out.
Return ==
  /\ collecting /\ Len(ret) = Len(schs)
  /\ Destroy
  /\ UNCHANGED <<collecting, ret>>

PoolSteps ==
  /\ \E w \in Workers : Wait(w) \/ Wake(w) \/ Exit(w) \/ Take(w) \/ RunTask(w)
  /\ UNCHANGED <<collecting, ret>>

BuildNext == PushBuild \/ Collect \/ Get \/ Return \/ PoolSteps

----------------------------------------------------------------------------
\* What parallel_build has collected is, schedule by schedule, the module of
\* that schedule, and null only for a build that threw: no other result and no
\* promise broken by the pool stands in its place.
ResultsInPlace ==
  \A i \in DOMAIN ret : ret[i] = IF schs[i] \in Throws THEN NoModule ELSE schs[i]
============================================================================
