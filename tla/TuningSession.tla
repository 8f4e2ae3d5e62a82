---------------------------- MODULE TuningSession ----------------------------
(***************************************************************************)
(* One tuning task of a tg Session (src/src/tg/runtime/driver.cc).         *)
(*                                                                         *)
(* The program thread calls begin_tuning, test_schedule_reference, run and *)
(* end_tuning.  begin_tuning launches three threads:                       *)
(*   - run_evaluate measures built functions, subgraph by subgraph, and    *)
(*     asks for more by sending tokens to the two build queues;            *)
(*   - run_build turns a build token into a schedule token, then waits for *)
(*     a future function of that subgraph and collects it;                 *)
(*   - run_autoschedule turns a schedule token into a future function.     *)
(*                                                                         *)
(* Scheduling, building and measuring may fail any number of times; every  *)
(* failure path of the code is an action.  The queues of functions are     *)
(* kept as counts (nothing depends on which function is which), the best   *)
(* functions as the sequence of their performance.                         *)
(***************************************************************************)
EXTENDS Integers, Sequences, FiniteSets

CONSTANTS
  Keys,                   \* keys of the task's subgraphs, natural numbers
  Tags, Tag,              \* Tag[k]: like subgraphs have the same tag
  Succ,                   \* Succ[k] is graph_attrs[k]->successors
  CallOrder,              \* static_call_order, see AddTask
  AdvanceNumber,          \* iterations asked of run_evaluate
  AutoscheduleParallel,   \* sess_option->autoschedule_parallel
  ExecutionParallel,      \* sess_option->execution_parallel
  MaxPerf,                \* performances are 1 .. MaxPerf; 0 is a failure
  References,             \* schedule libraries: functions from tags to Perf
  MaxTunings,             \* bound: calls of begin_tuning
  MaxReferences           \* bound: calls that load a reference

\* num_predecessor counts the distinct predecessors.
Preds(k) == {p \in Keys : k \in Succ[p]}

ASSUME GraphAssumption ==
  /\ Keys \subseteq Nat /\ IsFiniteSet(Keys)
  /\ Tag \in [Keys -> Tags]
  /\ Succ \in [Keys -> SUBSET Keys]

\* The partition has no circular dependency: in every set of subgraphs one
\* depends on no other.  add_task's order lists each subgraph once.
ASSUME AcyclicAssumption ==
  \A S \in SUBSET Keys : S # {} => \E k \in S : Preds(k) \cap S = {}

ASSUME CallOrderAssumption ==
  /\ CallOrder \in Seq(Keys)
  /\ \A k \in Keys : \E i \in 1 .. Len(CallOrder) : CallOrder[i] = k

Perf == 1 .. MaxPerf

ASSUME SessionAssumption ==
  /\ AdvanceNumber \in Nat
  /\ AutoscheduleParallel \in Nat \ {0}
  /\ ExecutionParallel \in Nat \ {0}
  /\ MaxPerf \in Nat
  /\ References \subseteq UNION {[S -> Perf] : S \in SUBSET Tags}
  /\ MaxTunings \in Nat
  /\ MaxReferences \in Nat

Threads == {"sch", "build", "evaluate"}

NoKey == -1

VARIABLES
  emSchQ, nmSchQ,   \* emergency_ and normal_schedule_queue
  emBldQ, nmBldQ,   \* emergency_ and normal_build_queue
  future,           \* future[k]: size of future_functions[k]
  built,            \* built[k]: size of built_functions[k]
  best,             \* best[k]: performances in the queue best_functions[k]
  finish, inTuning, cached,   \* finish, in_tuning, cached_all_functions
  inMap,            \* inMap[t]: the thread map of t has an entry for the task
  schPc, schKey,    \* run_autoschedule: control point, key in hand
  bldPc, bldKey,    \* run_build
  evPc, ad,         \* run_evaluate, and its iteration counter
  order,            \* evaluate_order
  freeSet, todo,    \* free_set, and its keys not yet visited in this pass
  evaluated,        \* keys put in delete_set in this iteration
  updSet,           \* update_set
  cache,            \* evaluate_cache
  sendIdx,          \* place in the call order while tokens are sent
  mainPc, afterPrep, reference, prepLeft, runIdx,   \* the program thread
  tunings, references                               \* bounds

queueVars == <<emSchQ, nmSchQ, emBldQ, nmBldQ>>
flagVars == <<finish, inTuning, cached, inMap>>
schVars == <<schPc, schKey>>
bldVars == <<bldPc, bldKey>>
evVars == <<evPc, ad, order, freeSet, todo, evaluated, updSet, cache, sendIdx>>
mainVars == <<mainPc, afterPrep, reference, prepLeft, runIdx, tunings, references>>

vars == <<queueVars, future, built, best, flagVars, schVars, bldVars, evVars, mainVars>>

Spinning == {"emSpin", "nmSpin"}
WorkerPcs == {"none", "top", "emergency", "normal", "done"} \cup Spinning

Init ==
  /\ emSchQ = <<>> /\ nmSchQ = <<>> /\ emBldQ = <<>> /\ nmBldQ = <<>>
  /\ future = [k \in Keys |-> 0]
  /\ built = [k \in Keys |-> 0]
  /\ best = [k \in Keys |-> <<>>]
  /\ finish = FALSE /\ inTuning = FALSE /\ cached = FALSE
  /\ inMap = [t \in Threads |-> FALSE]
  /\ schPc = "none" /\ schKey = NoKey
  /\ bldPc = "none" /\ bldKey = NoKey
  /\ evPc = "none" /\ ad = 0
  /\ order = [k \in Keys |-> 0]
  /\ freeSet = {} /\ todo = {} /\ evaluated = {} /\ updSet = {}
  /\ cache = [t \in Tags |-> NoKey] /\ sendIdx = 1
  /\ mainPc = "idle" /\ afterPrep = "idle" /\ reference = <<>> /\ prepLeft = {}
  /\ runIdx = 1
  /\ tunings = 0 /\ references = 0

-----------------------------------------------------------------------------
(* run_autoschedule *)

ScheduleTop ==
  /\ schPc = "top"
  /\ schPc' = IF finish THEN "done" ELSE "emergency"
  /\ UNCHANGED <<queueVars, future, built, best, flagVars, schKey, bldVars, evVars, mainVars>>

ScheduleEmergency ==
  /\ schPc = "emergency"
  /\ IF emSchQ = <<>>
       THEN schPc' = "normal" /\ UNCHANGED <<schKey, emSchQ>>
       ELSE /\ schPc' = "emSpin"
            /\ schKey' = Head(emSchQ)
            /\ emSchQ' = Tail(emSchQ)
  /\ UNCHANGED <<nmSchQ, emBldQ, nmBldQ, future, built, best, flagVars, bldVars, evVars, mainVars>>

ScheduleNormal ==
  /\ schPc = "normal"
  /\ IF nmSchQ = <<>>
       THEN schPc' = "top" /\ UNCHANGED <<schKey, nmSchQ>>
       ELSE /\ schPc' = "nmSpin"
            /\ schKey' = Head(nmSchQ)
            /\ nmSchQ' = Tail(nmSchQ)
  /\ UNCHANGED <<emSchQ, emBldQ, nmBldQ, future, built, best, flagVars, bldVars, evVars, mainVars>>

\* schedule_helper returns true: a schedule was found and its build submitted.
ScheduleSucceeds ==
  /\ schPc \in Spinning
  /\ future' = [future EXCEPT ![schKey] = @ + 1]
  /\ schPc' = IF schPc = "emSpin" THEN "normal" ELSE "top"
  /\ UNCHANGED <<queueVars, built, best, flagVars, schKey, bldVars, evVars, mainVars>>

\* Mutant: the request is dropped when its schedule fails.
ScheduleFails_GivesUp ==
  /\ schPc \in Spinning
  /\ schPc' = IF finish THEN "done" ELSE "top"
  /\ UNCHANGED <<queueVars, future, built, best, flagVars, schKey, bldVars, evVars, mainVars>>

\* schedule_helper threw: retry for ever, unless the tuning was ended.
ScheduleFails ==
  /\ schPc \in Spinning
  /\ schPc' = IF finish THEN "done" ELSE schPc
  /\ UNCHANGED <<queueVars, future, built, best, flagVars, schKey, bldVars, evVars, mainVars>>

-----------------------------------------------------------------------------
(* run_build *)

BuildTop ==
  /\ bldPc = "top"
  /\ bldPc' = IF finish THEN "done" ELSE "emergency"
  /\ UNCHANGED <<queueVars, future, built, best, flagVars, schVars, bldKey, evVars, mainVars>>

BuildEmergency ==
  /\ bldPc = "emergency"
  /\ IF emBldQ = <<>>
       THEN bldPc' = "normal" /\ UNCHANGED <<bldKey, emBldQ, emSchQ>>
       ELSE /\ bldPc' = "emSpin"
            /\ bldKey' = Head(emBldQ)
            /\ emBldQ' = Tail(emBldQ)
            /\ emSchQ' = Append(emSchQ, Head(emBldQ))
  /\ UNCHANGED <<nmSchQ, nmBldQ, future, built, best, flagVars, schVars, evVars, mainVars>>

BuildNormal ==
  /\ bldPc = "normal"
  /\ IF nmBldQ = <<>>
       THEN bldPc' = "top" /\ UNCHANGED <<bldKey, nmBldQ, nmSchQ>>
       ELSE /\ bldPc' = "nmSpin"
            /\ bldKey' = Head(nmBldQ)
            /\ nmBldQ' = Tail(nmBldQ)
            /\ nmSchQ' = Append(nmSchQ, Head(nmBldQ))
  /\ UNCHANGED <<emSchQ, emBldQ, future, built, best, flagVars, schVars, evVars, mainVars>>

\* Mutant: the future queue is popped without a look at its size.
BuildSucceeds_NoPeek ==
  /\ bldPc \in Spinning
  /\ future' = [future EXCEPT ![bldKey] = @ - 1]
  /\ built' = [built EXCEPT ![bldKey] = @ + 1]
  /\ bldPc' = IF bldPc = "emSpin" THEN "normal" ELSE "top"
  /\ UNCHANGED <<queueVars, best, flagVars, schVars, bldKey, evVars, mainVars>>

\* build_helper takes a future function and its build succeeds.
BuildSucceeds ==
  /\ bldPc \in Spinning
  /\ future[bldKey] > 0
  /\ future' = [future EXCEPT ![bldKey] = @ - 1]
  /\ built' = [built EXCEPT ![bldKey] = @ + 1]
  /\ bldPc' = IF bldPc = "emSpin" THEN "normal" ELSE "top"
  /\ UNCHANGED <<queueVars, best, flagVars, schVars, bldKey, evVars, mainVars>>

\* Mutant: a failed build is not requested again.
BuildFails_NoRetry ==
  /\ bldPc \in Spinning
  /\ future[bldKey] > 0
  /\ future' = [future EXCEPT ![bldKey] = @ - 1]
  /\ bldPc' = IF finish THEN "done" ELSE bldPc
  /\ UNCHANGED <<queueVars, built, best, flagVars, schVars, bldKey, evVars, mainVars>>

\* ... or its build fails: the function is gone, another one is requested on
\* the queue the token came from.
BuildFails ==
  /\ bldPc \in Spinning
  /\ future[bldKey] > 0
  /\ future' = [future EXCEPT ![bldKey] = @ - 1]
  /\ IF bldPc = "emSpin"
       THEN emSchQ' = Append(emSchQ, bldKey) /\ UNCHANGED nmSchQ
       ELSE nmSchQ' = Append(nmSchQ, bldKey) /\ UNCHANGED emSchQ
  /\ bldPc' = IF finish THEN "done" ELSE bldPc
  /\ UNCHANGED <<emBldQ, nmBldQ, built, best, flagVars, schVars, bldKey, evVars, mainVars>>

\* Mutant: every poll that finds nothing requests another schedule.
BuildFindsNothing_AsksAgain ==
  /\ bldPc \in Spinning
  /\ future[bldKey] = 0
  /\ emSchQ' = Append(emSchQ, bldKey)
  /\ bldPc' = IF finish THEN "done" ELSE bldPc
  /\ UNCHANGED <<nmSchQ, emBldQ, nmBldQ, future, built, best, flagVars, schVars, bldKey, evVars, mainVars>>

\* Mutant: the wait does not look at finish.
BuildFindsNothing_NoFinish ==
  /\ bldPc \in Spinning
  /\ future[bldKey] = 0
  /\ UNCHANGED vars

\* build_helper finds no future function.
BuildFindsNothing ==
  /\ bldPc \in Spinning
  /\ future[bldKey] = 0
  /\ bldPc' = IF finish THEN "done" ELSE bldPc
  /\ UNCHANGED <<queueVars, future, built, best, flagVars, schVars, bldKey, evVars, mainVars>>

-----------------------------------------------------------------------------
(* run_evaluate *)

\* The subgraph at place i of the call order is the first with its tag.
FirstOfTag(i) == \A j \in 1 .. i - 1 : Tag[CallOrder[j]] # Tag[CallOrder[i]]

EvaluateIteration ==
  /\ evPc = "iteration"
  /\ IF ad = AdvanceNumber \/ finish
       THEN /\ evPc' = "done"
            /\ UNCHANGED <<order, freeSet, evaluated, cache, sendIdx>>
       ELSE /\ evPc' = "send"
            /\ order' = [k \in Keys |-> Cardinality(Preds(k))]
            /\ freeSet' = {k \in Keys : Preds(k) = {}}
            /\ evaluated' = {}
            /\ cache' = [t \in Tags |-> NoKey]
            /\ sendIdx' = 1
  /\ UNCHANGED <<queueVars, future, built, best, flagVars, schVars, bldVars,
                 ad, todo, updSet, mainVars>>

\* autoschedule_parallel build tokens for the first subgraph of each tag.
EvaluateSend ==
  /\ evPc = "send"
  /\ IF sendIdx > Len(CallOrder)
       THEN evPc' = "pass" /\ UNCHANGED <<sendIdx, nmBldQ>>
       ELSE /\ sendIdx' = sendIdx + 1
            /\ nmBldQ' = IF FirstOfTag(sendIdx)
                           THEN nmBldQ \o [j \in 1 .. AutoscheduleParallel |-> CallOrder[sendIdx]]
                           ELSE nmBldQ
            /\ UNCHANGED evPc
  /\ UNCHANGED <<emSchQ, nmSchQ, emBldQ, future, built, best, flagVars, schVars, bldVars,
                 ad, order, freeSet, todo, evaluated, updSet, cache, mainVars>>

\* The head of while (!free_set.empty()), and what follows the loop.
EvaluatePass ==
  /\ evPc = "pass"
  /\ IF freeSet = {}
       THEN /\ cached' = TRUE
            /\ ad' = ad + 1
            /\ evPc' = "iteration"
            /\ UNCHANGED todo
       ELSE /\ evPc' = IF finish THEN "done" ELSE "evaluate"
            /\ todo' = IF finish THEN todo ELSE freeSet
            /\ UNCHANGED <<cached, ad>>
  /\ UNCHANGED <<queueVars, future, built, best, finish, inTuning, inMap, schVars, bldVars,
                 order, freeSet, evaluated, updSet, cache, sendIdx, mainVars>>

\* Mutant: a successor is freed by its first predecessor.
SubgraphDone_AnyPredecessor(k) ==
  /\ evaluated' = evaluated \cup {k}
  /\ order' = [v \in Keys |-> IF v \in Succ[k] THEN order[v] - 1 ELSE order[v]]
  /\ updSet' = updSet \cup Succ[k]

\* The end of evaluate_helper when the subgraph is done.
SubgraphDone(k) ==
  /\ evaluated' = evaluated \cup {k}
  /\ order' = [v \in Keys |-> IF v \in Succ[k] THEN order[v] - 1 ELSE order[v]]
  /\ updSet' = updSet \cup {v \in Succ[k] : order[v] = 1}

SubgraphNotDone == UNCHANGED <<evaluated, order, updSet>>

\* push, then pop unless the queue was empty.
ReplaceFront(q, p) == IF q = <<>> THEN <<p>> ELSE Tail(Append(q, p))

\* A subgraph with the same tag was measured in this iteration.
HasRepeated(k) == cache[Tag[k]] # NoKey /\ best[cache[Tag[k]]] # <<>>

\* Mutant: any subgraph measured in this iteration counts as repeated.
EvaluateRepeated_AnyTag(k) ==
  /\ \E t \in Tags :
       /\ cache[t] # NoKey /\ best[cache[t]] # <<>>
       /\ best' = [best EXCEPT ![k] = ReplaceFront(@, Head(best[cache[t]]))]
  /\ SubgraphDone(k)
  /\ UNCHANGED <<emBldQ, built, cache>>

\* evaluate_helper takes over the best function of the repeated subgraph.
EvaluateRepeated(k) ==
  /\ HasRepeated(k)
  /\ best' = [best EXCEPT ![k] = ReplaceFront(@, Head(best[cache[Tag[k]]]))]
  /\ SubgraphDone(k)
  /\ UNCHANGED <<emBldQ, built, cache>>

Taken(k) == IF built[k] < ExecutionParallel THEN built[k] ELSE ExecutionParallel

\* Mutant: a full batch is asked for, however many functions were taken.
MeasureFails_FullBatch(k) ==
  /\ emBldQ' = emBldQ \o [i \in 1 .. ExecutionParallel |-> k]
  /\ SubgraphNotDone
  /\ UNCHANGED <<best, cache>>

\* Every measurement failed: as many functions are asked for again.
MeasureFails(k) ==
  /\ emBldQ' = emBldQ \o [i \in 1 .. Taken(k) |-> k]
  /\ SubgraphNotDone
  /\ UNCHANGED <<best, cache>>

MeasureSucceeds(k, perf) ==
  /\ best' = IF best[k] = <<>> \/ perf > Head(best[k])
               THEN [best EXCEPT ![k] = ReplaceFront(@, perf)]
               ELSE best
  /\ cache' = [cache EXCEPT ![Tag[k]] = k]
  /\ SubgraphDone(k)
  /\ UNCHANGED emBldQ

\* evaluate_helper measures up to execution_parallel built functions; perf is
\* the best of their performances.
EvaluateMeasured(k) ==
  /\ ~HasRepeated(k)
  /\ built[k] > 0
  /\ built' = [built EXCEPT ![k] = @ - Taken(k)]
  /\ \/ MeasureFails(k)
     \/ \E perf \in Perf : MeasureSucceeds(k, perf)

\* Mutant: a subgraph without functions counts as evaluated.
EvaluateFindsNothing_Done(k) ==
  /\ ~HasRepeated(k)
  /\ built[k] = 0
  /\ SubgraphDone(k)
  /\ UNCHANGED <<emBldQ, built, best, cache>>

\* evaluate_helper finds no function to measure.
EvaluateFindsNothing(k) ==
  /\ ~HasRepeated(k)
  /\ built[k] = 0
  /\ SubgraphNotDone
  /\ UNCHANGED <<emBldQ, built, best, cache>>

\* One call of evaluate_helper, for a key of the unordered free_set.
EvaluateHelper(k) ==
  /\ evPc = "evaluate"
  /\ k \in todo
  /\ todo' = todo \ {k}
  /\ EvaluateRepeated(k) \/ EvaluateMeasured(k) \/ EvaluateFindsNothing(k)
  /\ UNCHANGED <<emSchQ, nmSchQ, nmBldQ, future, flagVars, schVars, bldVars,
                 evPc, ad, freeSet, sendIdx, mainVars>>

EvaluatePassEnds ==
  /\ evPc = "evaluate"
  /\ todo = {}
  /\ evPc' = "pass"
  /\ freeSet' = (freeSet \ evaluated) \cup updSet
  /\ updSet' = {}
  /\ UNCHANGED <<queueVars, future, built, best, flagVars, schVars, bldVars,
                 ad, order, todo, evaluated, cache, sendIdx, mainVars>>

-----------------------------------------------------------------------------
(* The program thread *)

workerVars == <<schVars, bldVars, evVars>>

\* begin_tuning clears finish; a reference is then loaded by prepare_for_test.
BeginTuning ==
  /\ mainPc = "idle"
  /\ tunings < MaxTunings
  /\ tunings' = tunings + 1
  /\ finish' = FALSE
  /\ \/ /\ mainPc' = "launch"
        /\ UNCHANGED <<afterPrep, reference, prepLeft, references>>
     \/ /\ references < MaxReferences
        /\ references' = references + 1
        /\ reference' \in References
        /\ prepLeft' = Keys
        /\ afterPrep' = "launch"
        /\ mainPc' = "prepare"
  /\ UNCHANGED <<queueVars, future, built, best, inTuning, cached, inMap, workerVars, runIdx>>

TestScheduleReference ==
  /\ mainPc = "idle"
  /\ references < MaxReferences
  /\ references' = references + 1
  /\ reference' \in References
  /\ prepLeft' = Keys
  /\ afterPrep' = "idle"
  /\ mainPc' = "prepare"
  /\ UNCHANGED <<queueVars, future, built, best, flagVars, workerVars, runIdx, tunings>>

\* prepare_for_test visits the subgraphs by key and pushes the referenced
\* function of each behind whatever best_functions already holds.
PrepareSubgraph ==
  /\ mainPc = "prepare"
  /\ \E k \in prepLeft :
       /\ \A i \in prepLeft : k <= i
       /\ prepLeft' = prepLeft \ {k}
       /\ best' = IF Tag[k] \in DOMAIN reference
                    THEN [best EXCEPT ![k] = Append(@, reference[Tag[k]])]
                    ELSE best
  /\ UNCHANGED <<queueVars, future, built, flagVars, workerVars,
                 mainPc, afterPrep, reference, runIdx, tunings, references>>

\* The referenced schedule does not build: get() rethrows out of the call.
PrepareThrows ==
  /\ mainPc = "prepare"
  /\ \E k \in prepLeft : Tag[k] \in DOMAIN reference /\ \A i \in prepLeft : k <= i
  /\ mainPc' = "idle"
  /\ reference' = <<>> /\ prepLeft' = {} /\ afterPrep' = "idle"
  /\ UNCHANGED <<queueVars, future, built, best, flagVars, workerVars,
                 runIdx, tunings, references>>

PrepareEnds ==
  /\ mainPc = "prepare"
  /\ prepLeft = {}
  /\ cached' = (\A k \in Keys : Tag[k] \in DOMAIN reference)
  /\ mainPc' = afterPrep
  /\ reference' = <<>> /\ afterPrep' = "idle"
  /\ UNCHANGED <<queueVars, future, built, best, finish, inTuning, inMap, workerVars,
                 prepLeft, runIdx, tunings, references>>

\* begin_tuning starts each thread whose map has no entry for the task.
LaunchThreads ==
  /\ mainPc = "launch"
  /\ mainPc' = "idle"
  /\ inMap' = [t \in Threads |-> TRUE]
  /\ schPc' = IF inMap["sch"] THEN schPc ELSE "top"
  /\ bldPc' = IF inMap["build"] THEN bldPc ELSE "top"
  /\ evPc' = IF inMap["evaluate"] THEN evPc ELSE "iteration"
  /\ inTuning' = TRUE
  /\ UNCHANGED <<queueVars, future, built, best, finish, cached, schKey, bldKey,
                 ad, order, freeSet, todo, evaluated, updSet, cache, sendIdx,
                 afterPrep, reference, prepLeft, runIdx, tunings, references>>

EndTuning ==
  /\ mainPc = "idle"
  /\ mainPc' = "endWait"
  /\ UNCHANGED <<queueVars, future, built, best, flagVars, workerVars,
                 afterPrep, reference, prepLeft, runIdx, tunings, references>>

\* end_tuning joins a thread only if its map has NO entry for the task.  The
\* subscript then inserts a default std::thread, whose join throws, so the
\* entry stays and the call ends there.
JoinThreads ==
  inMap' = IF ~inMap["sch"] THEN [inMap EXCEPT !["sch"] = TRUE]
           ELSE IF ~inMap["build"] THEN [inMap EXCEPT !["build"] = TRUE]
           ELSE [inMap EXCEPT !["evaluate"] = TRUE]

\* end_tuning leaves its wait once cached_all_functions is set.
EndTuningReturns ==
  /\ mainPc = "endWait"
  /\ cached
  /\ finish' = TRUE
  /\ inTuning' = FALSE
  /\ JoinThreads
  /\ mainPc' = "idle"
  /\ UNCHANGED <<queueVars, future, built, best, cached, workerVars,
                 afterPrep, reference, prepLeft, runIdx, tunings, references>>

\* run refuses a task that is neither cached nor in tuning.
Run ==
  /\ mainPc = "idle"
  /\ cached \/ inTuning
  /\ mainPc' = "run"
  /\ runIdx' = 1
  /\ UNCHANGED <<queueVars, future, built, best, flagVars, workerVars,
                 afterPrep, reference, prepLeft, tunings, references>>

\* run_functions calls the subgraphs in order, spinning on run_helper until
\* each has a best function.
RunSubgraph ==
  /\ mainPc = "run"
  /\ runIdx <= Len(CallOrder)
  /\ best[CallOrder[runIdx]] # <<>>
  /\ runIdx' = runIdx + 1
  /\ UNCHANGED <<queueVars, future, built, best, flagVars, workerVars,
                 mainPc, afterPrep, reference, prepLeft, tunings, references>>

RunReturns ==
  /\ mainPc = "run"
  /\ runIdx > Len(CallOrder)
  /\ mainPc' = "idle"
  /\ runIdx' = 1
  /\ UNCHANGED <<queueVars, future, built, best, flagVars, workerVars,
                 afterPrep, reference, prepLeft, tunings, references>>

-----------------------------------------------------------------------------
ScheduleThread ==
  \/ ScheduleTop \/ ScheduleEmergency \/ ScheduleNormal
  \/ ScheduleSucceeds \/ ScheduleFails

BuildThread ==
  \/ BuildTop \/ BuildEmergency \/ BuildNormal
  \/ BuildSucceeds \/ BuildFails \/ BuildFindsNothing

EvaluateThread ==
  \/ EvaluateIteration \/ EvaluateSend \/ EvaluatePass \/ EvaluatePassEnds
  \/ \E k \in Keys : EvaluateHelper(k)

\* What the program thread does inside a call, once it has made it.
Returning ==
  \/ PrepareSubgraph \/ PrepareThrows \/ PrepareEnds \/ LaunchThreads
  \/ EndTuningReturns \/ RunSubgraph \/ RunReturns

ProgramThread ==
  \/ BeginTuning \/ TestScheduleReference \/ EndTuning \/ Run
  \/ Returning

Next == ScheduleThread \/ BuildThread \/ EvaluateThread \/ ProgramThread

Spec == Init /\ [][Next]_vars

\* Every thread keeps running, and so does a call once made; the program need
\* not make one.  A schedule, a build or a measurement that is tried again and
\* again succeeds at last: the code retries each of them without limit.
Measured(k) == EvaluateHelper(k) /\ evaluated' # evaluated

Fairness ==
  /\ WF_vars(ScheduleThread) /\ WF_vars(BuildThread)
  /\ WF_vars(EvaluateThread) /\ WF_vars(Returning)
  /\ WF_vars(ScheduleSucceeds) /\ SF_vars(BuildSucceeds)
  /\ \A k \in Keys : SF_vars(Measured(k))

FairSpec == Spec /\ Fairness

-----------------------------------------------------------------------------
(* Properties *)

TypeQueues ==
  /\ emSchQ \in Seq(Keys) /\ nmSchQ \in Seq(Keys)
  /\ emBldQ \in Seq(Keys) /\ nmBldQ \in Seq(Keys)
  /\ future \in [Keys -> Nat] /\ built \in [Keys -> Nat]
  /\ best \in [Keys -> Seq(Perf)]

TypeFlags ==
  /\ finish \in BOOLEAN /\ inTuning \in BOOLEAN /\ cached \in BOOLEAN
  /\ inMap \in [Threads -> BOOLEAN]

TypeWorkers ==
  /\ schPc \in WorkerPcs /\ schKey \in Keys \cup {NoKey}
  /\ bldPc \in WorkerPcs /\ bldKey \in Keys \cup {NoKey}
  /\ schPc \in Spinning => schKey \in Keys
  /\ bldPc \in Spinning => bldKey \in Keys

TypeEvaluate ==
  /\ evPc \in {"none", "iteration", "send", "pass", "evaluate", "done"}
  /\ ad \in Nat /\ sendIdx \in Nat \ {0}
  /\ order \in [Keys -> Int]
  /\ freeSet \subseteq Keys /\ todo \subseteq Keys
  /\ evaluated \subseteq Keys /\ updSet \subseteq Keys
  /\ cache \in [Tags -> Keys \cup {NoKey}]

TypeProgram ==
  /\ mainPc \in {"idle", "prepare", "launch", "endWait", "run"}
  /\ afterPrep \in {"idle", "launch"}
  /\ reference \in References \cup {<<>>}
  /\ prepLeft \subseteq Keys
  /\ runIdx \in Nat \ {0}
  /\ tunings \in Nat /\ references \in Nat

\* Types of the session's state.
TypeOK == TypeQueues /\ TypeFlags /\ TypeWorkers /\ TypeEvaluate /\ TypeProgram

\* The place of the one schedule request that may be in flight for k: in a
\* schedule queue, in the hand of run_autoschedule, or a future function.
NoFuture == \A j \in Keys : future[j] = 0

NothingInFlight ==
  emSchQ = <<>> /\ nmSchQ = <<>> /\ schPc \notin Spinning /\ NoFuture

OnlyInFlight(k) ==
  \/ emSchQ = <<k>> /\ nmSchQ = <<>> /\ schPc \notin Spinning /\ NoFuture
  \/ emSchQ = <<>> /\ nmSchQ = <<k>> /\ schPc \notin Spinning /\ NoFuture
  \/ emSchQ = <<>> /\ nmSchQ = <<>> /\ schPc \in Spinning /\ schKey = k /\ NoFuture
  \/ /\ emSchQ = <<>> /\ nmSchQ = <<>> /\ schPc \notin Spinning
     /\ future[k] = 1 /\ \A j \in Keys \ {k} : future[j] = 0

\* While run_build waits for a function of a subgraph, exactly one request
\* for that subgraph is on its way, and no other request exists anywhere:
\* build_helper repeats a request only when it has taken the previous one.
\* When run_build is not waiting nothing is on its way.  A thread that left
\* because the tuning was ended may leave one request behind or lose it.
OneRequestInFlight ==
  /\ NothingInFlight \/ \E k \in Keys : OnlyInFlight(k)
  /\ bldPc \in Spinning =>
       \/ OnlyInFlight(bldKey)
       \/ schPc = "done" /\ NothingInFlight
  /\ bldPc \notin Spinning \cup {"done"} => NothingInFlight

UniqueKeys == {CallOrder[i] : i \in {j \in 1 .. Len(CallOrder) : FirstOfTag(j)}}

Occurrences(q, k) == Cardinality({i \in DOMAIN q : q[i] = k})

Tokens(k) ==
  Occurrences(emBldQ, k) + Occurrences(nmBldQ, k) + built[k]
    + (IF bldPc \in Spinning /\ bldKey = k THEN 1 ELSE 0)

\* A subgraph that run_evaluate still has to measure never has fewer functions
\* built, being built or asked for by a build token than autoschedule_parallel:
\* the tokens sent when the iteration started are given back when a measurement
\* fails. It never has more than were sent in all iterations ("so that we won't
\* overuse builder").
TokensConserved ==
  \A k \in Keys :
    /\ Tokens(k) <= AutoscheduleParallel * (ad + 1)
    /\ (evPc \in {"pass", "evaluate"} /\ bldPc # "done"
          /\ k \in UniqueKeys /\ cache[Tag[k]] = NoKey)
        => Tokens(k) >= AutoscheduleParallel

\* cached_all_functions means what run and end_tuning take it for: every
\* subgraph has a best function.
CachedIsTrue == cached => \A k \in Keys : best[k] # <<>>

\* What run_evaluate will still visit, in this pass or the next.
ToVisit == IF evPc = "pass" THEN freeSet ELSE todo \cup updSet

\* A subgraph is visited only after all its predecessors were measured in the
\* same iteration, and never again in that iteration once it was measured.
PredecessorsFirst ==
  evPc \in {"pass", "evaluate"} =>
    \A k \in ToVisit : Preds(k) \subseteq evaluated /\ k \notin evaluated

\* All iterations are evaluated unless the tuning is ended: no thread waits
\* for another for ever.
TuningCompletes == (evPc = "iteration") ~> (evPc = "done")

\* end_tuning of a task in tuning returns.
EndTuningTerminates == (mainPc = "endWait" /\ inTuning) ~> (mainPc = "idle")

\* run returns, even when called while the functions are still being tuned.
RunTerminates == (mainPc = "run") ~> (mainPc = "idle")

\* end_tuning ends the three threads before it returns, as its comments say.
EndTuningEndsThreads ==
  [][EndTuningReturns =>
       \A pc \in {schPc', bldPc', evPc'} : pc \in {"none", "done"}]_vars
=============================================================================
