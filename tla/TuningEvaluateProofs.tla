------------------------ MODULE TuningEvaluateProofs ------------------------
(***************************************************************************)
(* Proofs about run_evaluate: what cached_all_functions means and the      *)
(* order of evaluation, the build tokens it sends, and the best functions  *)
(* it keeps until the session is deleted.                                  *)
(***************************************************************************)
EXTENDS TuningSessionProofs, FiniteSetTheorems

LEMMA PredsAreCounted == PredsCounted
  BY GraphAssumption, FS_Subset, FS_CardinalityType DEF Preds, PredsCounted

LEMMA TypeNext == TypeOK /\ [Next]_vars => TypeOK'
  BY PredsAreCounted, TypeStep

\* The state of a session keeps its types, whatever the task, the options and
\* the number of calls.
THEOREM TypeCorrect == Spec => []TypeOK
<1> QED
  BY TypeInit, TypeNext, PTL DEF Spec

\* While run_build waits for a function exactly one request for it is on its
\* way, and never is there a second request: the guard `taken' of build_helper
\* and the retry loop of run_autoschedule neither lose nor repeat one.
THEOREM PipelineCorrect == Spec => []OneRequestInFlight
<1>1. Init => NeverStarted
  BY DEF Init, NeverStarted
<1> QED
  BY <1>1, TypeInit, TypeNext, PipeInit, StartedStep, PipeStep, PTL DEF Spec
-----------------------------------------------------------------------------
(***************************************************************************)
(* The order of evaluation.  The invariant says what run_evaluate's        *)
(* counters and sets mean: a counter is the number of predecessors not yet *)
(* evaluated, the free and update sets hold what may be evaluated next and *)
(* nothing else.  With an acyclic graph an empty free set then means that  *)
(* everything was evaluated.                                               *)
(***************************************************************************)
CountersRight ==
  /\ \A k \in Keys : order[k] = Cardinality(Preds(k) \ evaluated)
  /\ \A k \in Keys \ evaluated : order[k] = 0 => k \in freeSet \cup updSet
  /\ \A k \in freeSet \cup updSet \cup evaluated : Preds(k) \subseteq evaluated

SetsApart ==
  /\ updSet \cap freeSet = {}
  /\ updSet \cap evaluated = {}
  /\ evPc = "evaluate" => todo \subseteq freeSet \ evaluated
  /\ evPc # "evaluate" => freeSet \cap evaluated = {}

EvaluateInv ==
  /\ CachedIsTrue
  /\ evPc # "evaluate" => updSet = {}
  /\ evPc \in {"send", "pass", "evaluate"} =>
       /\ \A k \in evaluated : best[k] # <<>>
       /\ CountersRight
       /\ SetsApart

\* The functions prepare_for_test has loaded so far.
PrepareInv ==
  mainPc = "prepare" =>
    \A k \in Keys \ prepLeft : Tag[k] \in DOMAIN reference => best[k] # <<>>

\* No step takes the last best function of a subgraph away.
LEMMA BestStays ==
  ASSUME TypeOK, [Next]_vars, NEW k \in Keys, best[k] # <<>>
  PROVE  best'[k] # <<>>
<1>1. CASE UNCHANGED best
  BY <1>1
<1>2. ASSUME NEW j \in Keys, EvaluateHelper(j)
      PROVE  best'[k] # <<>>
  <2>1. CASE EvaluateRepeated(j)
    <3>1. ReplaceFront(best[j], Head(best[cache[Tag[j]]])) # <<>>
      BY <2>1, RepeatedFacts DEF EvaluateRepeated
    <3> QED
      BY <2>1, <3>1 DEF TypeOK, TypeQueues, EvaluateRepeated
  <2>2. ASSUME NEW perf \in Perf, MeasureSucceeds(j, perf)
        PROVE  best'[k] # <<>>
    <3>1. ReplaceFront(best[j], perf) # <<>>
      BY ReplaceFrontFacts DEF TypeOK, TypeQueues
    <3> QED
      BY <2>2, <3>1 DEF TypeOK, TypeQueues, MeasureSucceeds
  <2> QED
    BY <1>1, <1>2, <2>1, <2>2 DEF EvaluateHelper, EvaluateMeasured, EvaluateFindsNothing,
                                  MeasureFails
<1>3. CASE PrepareSubgraph
  <2>1. PICK j \in prepLeft :
          best' = IF Tag[j] \in DOMAIN reference
                    THEN [best EXCEPT ![j] = Append(@, reference[Tag[j]])]
                    ELSE best
    BY <1>3, Zenon DEF PrepareSubgraph
  <2>2. j \in Keys
    BY DEF TypeOK, TypeProgram
  <2>3. Tag[j] \in DOMAIN reference => Append(best[j], reference[Tag[j]]) # <<>>
    BY <2>2, ReferenceFacts
  <2> QED
    BY <2>1, <2>2, <2>3 DEF TypeOK, TypeQueues
<1>4. CASE EvaluateThread /\ ~\E j \in Keys : EvaluateHelper(j)
  BY <1>1, <1>4, Zenon DEF EvaluateThread, EvaluateIteration, EvaluateSend, EvaluatePass,
                    EvaluatePassEnds
<1>5. CASE ScheduleThread \/ BuildThread \/ UNCHANGED vars
  BY <1>1, <1>5, Zenon DEF ScheduleThread, ScheduleTop, ScheduleEmergency, ScheduleNormal,
     ScheduleSucceeds, ScheduleFails, BuildThread, BuildTop, BuildEmergency, BuildNormal,
     BuildSucceeds, BuildFails, BuildFindsNothing, vars
<1>6. CASE ProgramThread /\ ~PrepareSubgraph
  BY <1>1, <1>6, Zenon DEF ProgramThread, Returning, BeginTuning, TestScheduleReference,
     PrepareThrows, PrepareEnds, LaunchThreads, EndTuning, EndTuningReturns, Run, RunSubgraph,
     RunReturns
<1> QED
  BY <1>2, <1>3, <1>4, <1>5, <1>6 DEF Next

\* Counting the predecessors that are left.
LEMMA PredsLeft ==
  ASSUME NEW E, NEW v \in Keys
  PROVE  /\ Cardinality(Preds(v) \ E) \in Nat
         /\ Cardinality(Preds(v) \ E) = 0 <=> Preds(v) \subseteq E
         /\ \A k \in Preds(v) \ E :
              Cardinality(Preds(v) \ (E \cup {k})) = Cardinality(Preds(v) \ E) - 1
<1>1. IsFiniteSet(Preds(v) \ E)
  BY GraphAssumption, FS_Subset DEF Preds
<1>2. Cardinality(Preds(v) \ E) \in Nat
  BY <1>1, FS_CardinalityType
<1>3. Cardinality(Preds(v) \ E) = 0 <=> Preds(v) \ E = {}
  BY <1>1, FS_EmptySet
<1>4. ASSUME NEW k \in Preds(v) \ E
      PROVE  Cardinality(Preds(v) \ (E \cup {k})) = Cardinality(Preds(v) \ E) - 1
  <2>1. Preds(v) \ (E \cup {k}) = (Preds(v) \ E) \ {k}
    OBVIOUS
  <2> QED
    BY <1>1, <2>1, FS_RemoveElement, Zenon
<1> QED
  BY <1>2, <1>3, <1>4

\* One subgraph becomes evaluated.
LEMMA SubgraphDoneStep ==
  ASSUME TypeOK, CountersRight, SetsApart, evPc = "evaluate",
         NEW k \in Keys, k \in todo, todo' = todo \ {k}, SubgraphDone(k),
         UNCHANGED <<evPc, freeSet>>
  PROVE  CountersRight' /\ SetsApart'
<1>1. k \in freeSet /\ k \notin evaluated /\ k \notin updSet /\ Preds(k) \subseteq evaluated
  BY DEF SetsApart, CountersRight
<1>2. evaluated' = evaluated \cup {k}
  BY DEF SubgraphDone
<1>3. \A v \in Keys : k \in Preds(v) <=> v \in Succ[k]
  BY DEF Preds
<1>4. ASSUME NEW v \in Keys
      PROVE  order'[v] = Cardinality(Preds(v) \ evaluated')
  <2>1. CASE v \in Succ[k]
    <3>1. k \in Preds(v) \ evaluated
      BY <1>1, <1>3, <2>1
    <3>2. Cardinality(Preds(v) \ (evaluated \cup {k})) = Cardinality(Preds(v) \ evaluated) - 1
      BY <3>1, PredsLeft
    <3>3. order'[v] = order[v] - 1 /\ order[v] = Cardinality(Preds(v) \ evaluated)
      BY <2>1 DEF SubgraphDone, CountersRight
    <3> QED
      BY <1>2, <3>2, <3>3
  <2>2. CASE v \notin Succ[k]
    <3>1. Preds(v) \ (evaluated \cup {k}) = Preds(v) \ evaluated
      BY <1>3, <2>2
    <3>2. order'[v] = order[v] /\ order[v] = Cardinality(Preds(v) \ evaluated)
      BY <2>2 DEF SubgraphDone, CountersRight
    <3> QED
      BY <1>2, <3>1, <3>2
  <2> QED
    BY <2>1, <2>2
<1>5. ASSUME NEW v \in updSet', v \notin updSet
      PROVE  /\ v \in Keys /\ v \in Succ[k] /\ order[v] = 1
             /\ v \notin evaluated /\ v \notin freeSet
             /\ Preds(v) \subseteq evaluated'
  <2>1. v \in Succ[k] /\ v \in Keys /\ order[v] = 1
    BY <1>5, GraphAssumption DEF SubgraphDone
  <2>2. ~ Preds(v) \subseteq evaluated
    <3>1. order[v] = Cardinality(Preds(v) \ evaluated)
      BY <2>1 DEF CountersRight
    <3>2. Cardinality(Preds(v) \ evaluated) # 0
      BY <2>1, <3>1
    <3> QED
      BY <2>1, <3>2, PredsLeft
  <2>3. order'[v] = 0
    BY <2>1 DEF SubgraphDone
  <2>4. Preds(v) \subseteq evaluated'
    BY <1>4, <2>1, <2>3, PredsLeft, Zenon
  <2> QED
    BY <2>1, <2>2, <2>4 DEF CountersRight
<1>6. ASSUME NEW v \in Keys \ evaluated', order'[v] = 0
      PROVE  v \in freeSet' \cup updSet'
  <2>1. CASE v \in Succ[k]
    <3>1. order'[v] = order[v] - 1 /\ order[v] \in Int
      BY <2>1 DEF SubgraphDone, TypeOK, TypeEvaluate
    <3>2. order[v] = 1
      BY <1>6, <3>1
    <3> QED
      BY <2>1, <3>2 DEF SubgraphDone
  <2>2. CASE v \notin Succ[k]
    <3>1. order[v] = 0
      BY <1>6, <2>2 DEF SubgraphDone
    <3>2. v \in freeSet \cup updSet
      BY <1>2, <3>1 DEF CountersRight
    <3> QED
      BY <3>2 DEF SubgraphDone
  <2> QED
    BY <2>1, <2>2
<1>7. \A v \in freeSet' \cup updSet' \cup evaluated' : Preds(v) \subseteq evaluated'
  BY <1>1, <1>2, <1>5 DEF CountersRight
<1>8. CountersRight'
  <2>1. (\A v \in Keys : order[v] = Cardinality(Preds(v) \ evaluated))'
    BY <1>4 DEF Preds
  <2>2. (\A v \in freeSet \cup updSet \cup evaluated : Preds(v) \subseteq evaluated)'
    BY <1>7 DEF Preds
  <2> QED
    BY <1>6, <2>1, <2>2 DEF CountersRight
<1>9. SetsApart'
  BY <1>1, <1>2, <1>5 DEF SetsApart
<1> QED
  BY <1>8, <1>9

\* With nothing left to free, everything was evaluated.
LEMMA AllEvaluated ==
  ASSUME CountersRight, freeSet = {}, updSet = {}
  PROVE  Keys \subseteq evaluated
<1> SUFFICES ASSUME Keys \ evaluated # {} PROVE FALSE
  OBVIOUS
<1>1. PICK k \in Keys \ evaluated : Preds(k) \cap (Keys \ evaluated) = {}
  BY AcyclicAssumption, Zenon
<1>2. Preds(k) \subseteq evaluated
  BY <1>1 DEF Preds
<1>3. order[k] = 0
  BY <1>2, PredsLeft, Zenon DEF CountersRight
<1> QED
  BY <1>3 DEF CountersRight

LEMMA EvaluateInvHelper ==
  ASSUME TypeOK, EvaluateInv, NEW k \in Keys, EvaluateHelper(k)
  PROVE  EvaluateInv'
<1>1. /\ evPc = "evaluate" /\ k \in todo /\ todo' = todo \ {k}
      /\ UNCHANGED <<evPc, freeSet, cached>>
  BY DEF EvaluateHelper, flagVars
<1>2. CountersRight /\ SetsApart /\ \A j \in evaluated : best[j] # <<>>
  BY <1>1 DEF EvaluateInv
<1>3. \A j \in Keys : best[j] # <<>> => best'[j] # <<>>
  <2>1. [Next]_vars
    BY DEF Next, EvaluateThread
  <2> QED
    BY <2>1, BestStays
<1>4. CachedIsTrue'
  BY <1>1, <1>3 DEF EvaluateInv, CachedIsTrue
<1>5. evaluated \subseteq Keys
  BY DEF TypeOK, TypeEvaluate
<1>6. CASE SubgraphNotDone
  <2>1. CountersRight'
    BY <1>1, <1>2, <1>6, Zenon DEF SubgraphNotDone, CountersRight, Preds
  <2>2. SetsApart'
    BY <1>1, <1>2, <1>6, Zenon DEF SubgraphNotDone, SetsApart
  <2>3. \A j \in evaluated' : best'[j] # <<>>
    BY <1>2, <1>3, <1>5, <1>6 DEF SubgraphNotDone
  <2> QED
    BY <1>1, <1>4, <2>1, <2>2, <2>3 DEF EvaluateInv
<1>7. CASE SubgraphDone(k) /\ best'[k] # <<>>
  <2>1. CountersRight' /\ SetsApart'
    BY <1>1, <1>2, <1>7, SubgraphDoneStep, Zenon
  <2>2. \A j \in evaluated' : best'[j] # <<>>
    BY <1>2, <1>3, <1>5, <1>7 DEF SubgraphDone
  <2> QED
    BY <1>1, <1>4, <2>1, <2>2 DEF EvaluateInv
<1>8. CASE EvaluateRepeated(k)
  <2>1. ReplaceFront(best[k], Head(best[cache[Tag[k]]])) # <<>>
    BY <1>8, RepeatedFacts, Zenon DEF EvaluateRepeated
  <2>2. SubgraphDone(k) /\ best'[k] # <<>>
    BY <1>8, <2>1, Zenon DEF TypeOK, TypeQueues, EvaluateRepeated
  <2> QED
    BY <1>7, <2>2
<1>9. ASSUME NEW perf \in Perf, MeasureSucceeds(k, perf)
      PROVE  EvaluateInv'
  <2>1. ReplaceFront(best[k], perf) # <<>>
    BY ReplaceFrontFacts DEF TypeOK, TypeQueues
  <2>2. SubgraphDone(k) /\ best'[k] # <<>>
    BY <1>9, <2>1 DEF TypeOK, TypeQueues, MeasureSucceeds
  <2> QED
    BY <1>7, <2>2
<1> QED
  BY <1>6, <1>8, <1>9, Zenon DEF EvaluateHelper, EvaluateMeasured, EvaluateFindsNothing, MeasureFails

LEMMA EvaluateInvStep ==
  ASSUME TypeOK, NeverStarted, EvaluateInv, PrepareInv, [Next]_vars
  PROVE  EvaluateInv'
<1>1. \A j \in Keys : best[j] # <<>> => best'[j] # <<>>
  BY BestStays
<1>2. evaluated \subseteq Keys
  BY DEF TypeOK, TypeEvaluate
<1>3. ASSUME UNCHANGED <<evVars, cached>>
      PROVE  EvaluateInv'
  <2>1. UNCHANGED <<evPc, order, freeSet, todo, evaluated, updSet>>
    BY <1>3 DEF evVars
  <2>2. CachedIsTrue'
    BY <1>1, <1>3 DEF EvaluateInv, CachedIsTrue
  <2>3. CountersRight => CountersRight'
    BY <2>1 DEF CountersRight, Preds
  <2>4. SetsApart => SetsApart'
    BY <2>1 DEF SetsApart
  <2> QED
    BY <1>1, <1>2, <2>1, <2>2, <2>3, <2>4 DEF EvaluateInv
<1>4. CASE EvaluateIteration
  <2>1. CachedIsTrue' /\ updSet' = {} /\ evPc' # "evaluate"
    BY <1>1, <1>4, Zenon DEF EvaluateInv, CachedIsTrue, EvaluateIteration, flagVars
  <2>2. CASE evPc' = "done"
    BY <2>1, <2>2 DEF EvaluateInv
  <2>3. CASE evPc' = "send"
    <3>1. /\ order' = [k \in Keys |-> Cardinality(Preds(k))]
          /\ freeSet' = {k \in Keys : Preds(k) = {}}
          /\ evaluated' = {}
      BY <1>4, <2>3 DEF EvaluateIteration
    <3>2. \A k \in Keys : order'[k] = Cardinality(Preds(k) \ evaluated')
      BY <3>1
    <3>3. \A k \in Keys : order'[k] = 0 => k \in freeSet'
      <4>1. ASSUME NEW k \in Keys, Cardinality(Preds(k) \ evaluated') = 0
            PROVE  Preds(k) \subseteq evaluated'
        BY <4>1, PredsLeft
      <4> QED
        BY <3>1, <3>2, <4>1
    <3>4. CountersRight'
      BY <2>1, <3>1, <3>2, <3>3, Zenon DEF CountersRight, Preds
    <3>5. SetsApart'
      BY <2>1, <3>1 DEF SetsApart
    <3> QED
      BY <2>1, <3>1, <3>4, <3>5, Zenon DEF EvaluateInv
  <2> QED
    BY <1>4, <2>2, <2>3, Zenon DEF EvaluateIteration
<1>5. CASE EvaluateSend
  <2>1. /\ UNCHANGED <<order, freeSet, todo, evaluated, updSet, best, cached>>
        /\ evPc = "send" /\ evPc' \in {"send", "pass"}
    BY <1>5, Zenon DEF EvaluateSend, flagVars
  <2>2. CountersRight'
    BY <2>1, Zenon DEF EvaluateInv, CountersRight, Preds
  <2>3. SetsApart'
    BY <2>1, Zenon DEF EvaluateInv, SetsApart
  <2> QED
    BY <2>1, <2>2, <2>3, Zenon DEF EvaluateInv, CachedIsTrue
<1>6. CASE EvaluatePass
  <2>1. /\ UNCHANGED <<order, freeSet, evaluated, updSet, best>>
        /\ evPc = "pass" /\ updSet = {} /\ CountersRight /\ SetsApart
    BY <1>6, Zenon DEF EvaluatePass, EvaluateInv
  <2>2. CASE freeSet = {}
    <3>1. \A k \in Keys : best'[k] # <<>>
      BY <2>1, <2>2, AllEvaluated DEF EvaluateInv
    <3>2. evPc' = "iteration"
      BY <1>6, <2>2 DEF EvaluatePass
    <3> QED
      BY <2>1, <3>1, <3>2, Zenon DEF EvaluateInv, CachedIsTrue
  <2>3. CASE freeSet # {}
    <3>1. cached' = cached /\ evPc' \in {"done", "evaluate"}
      BY <1>6, <2>3 DEF EvaluatePass
    <3>2. evPc' = "evaluate" => todo' = freeSet
      BY <1>6, <2>3 DEF EvaluatePass
    <3>3. CountersRight'
      BY <2>1, Zenon DEF CountersRight, Preds
    <3>4. evPc' = "evaluate" => SetsApart'
      BY <2>1, <3>2 DEF SetsApart
    <3> QED
      BY <2>1, <3>1, <3>3, <3>4, Zenon DEF EvaluateInv, CachedIsTrue
  <2> QED
    BY <2>2, <2>3
<1>7. CASE EvaluatePassEnds
  <2>1. /\ UNCHANGED <<order, evaluated, best, cached>>
        /\ evPc = "evaluate" /\ evPc' = "pass" /\ updSet' = {}
        /\ freeSet' = (freeSet \ evaluated) \cup updSet
        /\ CountersRight /\ SetsApart
    BY <1>7, Zenon DEF EvaluatePassEnds, EvaluateInv, flagVars
  <2>2. CountersRight'
    BY <2>1, Zenon DEF CountersRight, Preds
  <2>3. SetsApart'
    BY <2>1 DEF SetsApart
  <2> QED
    BY <2>1, <2>2, <2>3, Zenon DEF EvaluateInv, CachedIsTrue
<1>8. CASE PrepareEnds
  <2>1. cached' => \A k \in Keys : best[k] # <<>>
    BY <1>8, Zenon DEF PrepareEnds, PrepareInv
  <2>2. UNCHANGED <<evPc, order, freeSet, todo, evaluated, updSet, best>>
    BY <1>8, Zenon DEF PrepareEnds, workerVars, evVars
  <2>3. (CountersRight => CountersRight') /\ (SetsApart => SetsApart')
    BY <2>2, Zenon DEF CountersRight, SetsApart, Preds
  <2> QED
    BY <2>1, <2>2, <2>3, Zenon DEF EvaluateInv, CachedIsTrue
<1>9. CASE LaunchThreads
  <2>1. /\ UNCHANGED <<order, freeSet, todo, evaluated, updSet, best, cached>>
        /\ evPc' = evPc \/ (evPc = "none" /\ evPc' = "iteration")
    BY <1>9, Zenon DEF LaunchThreads, NeverStarted
  <2>2. CountersRight => CountersRight'
    BY <2>1, Zenon DEF CountersRight, Preds
  <2>3. evPc' = evPc => (SetsApart => SetsApart')
    BY <2>1, Zenon DEF SetsApart
  <2> QED
    BY <2>1, <2>2, <2>3, Zenon DEF EvaluateInv, CachedIsTrue
<1>10. CASE ScheduleThread \/ BuildThread \/ UNCHANGED vars
  BY <1>3, <1>10, Zenon DEF ScheduleThread, ScheduleTop, ScheduleEmergency, ScheduleNormal,
     ScheduleSucceeds, ScheduleFails, BuildThread, BuildTop, BuildEmergency, BuildNormal,
     BuildSucceeds, BuildFails, BuildFindsNothing, flagVars, vars
<1>11. CASE ProgramThread /\ ~PrepareEnds /\ ~LaunchThreads
  BY <1>3, <1>11, Zenon DEF ProgramThread, Returning, BeginTuning, TestScheduleReference,
     PrepareSubgraph, PrepareThrows, EndTuning, EndTuningReturns, Run, RunSubgraph,
     RunReturns, flagVars, workerVars
<1> QED
  BY <1>4, <1>5, <1>6, <1>7, <1>8, <1>9, <1>10, <1>11, EvaluateInvHelper
     DEF Next, EvaluateThread

LEMMA PrepareInvStep ==
  ASSUME TypeOK, PrepareInv, [Next]_vars
  PROVE  PrepareInv'
<1>1. \A j \in Keys : best[j] # <<>> => best'[j] # <<>>
  BY BestStays, Zenon
<1>2. ASSUME UNCHANGED <<mainPc, prepLeft, reference>>
      PROVE  PrepareInv'
  BY <1>1, <1>2, Zenon DEF PrepareInv
<1>3. CASE BeginTuning \/ TestScheduleReference
  <2>1. mainPc' = "prepare" => prepLeft' = Keys
    BY <1>3, Zenon DEF BeginTuning, TestScheduleReference
  <2> QED
    BY <2>1, Zenon DEF PrepareInv
<1>4. CASE PrepareSubgraph
  <2>1. PICK k \in prepLeft :
          /\ prepLeft' = prepLeft \ {k}
          /\ best' = IF Tag[k] \in DOMAIN reference
                       THEN [best EXCEPT ![k] = Append(@, reference[Tag[k]])]
                       ELSE best
    BY <1>4, Zenon DEF PrepareSubgraph
  <2>2. k \in Keys /\ reference' = reference /\ mainPc = "prepare"
    BY <1>4, Zenon DEF TypeOK, TypeProgram, PrepareSubgraph
  <2>3. Tag[k] \in DOMAIN reference => best'[k] # <<>>
    BY <2>1, <2>2, ReferenceFacts, Zenon DEF TypeOK, TypeQueues
  <2>4. \A j \in Keys \ prepLeft' : j = k \/ j \in Keys \ prepLeft
    BY <2>1, Zenon
  <2> QED
    BY <1>1, <2>2, <2>3, <2>4, Zenon DEF PrepareInv
<1>5. CASE PrepareThrows \/ PrepareEnds \/ LaunchThreads \/ EndTuning \/ EndTuningReturns
           \/ Run \/ RunSubgraph \/ RunReturns
  <2>1. mainPc' # "prepare"
    BY <1>5, Zenon DEF PrepareThrows, PrepareEnds, LaunchThreads, EndTuning, EndTuningReturns, Run,
                RunSubgraph, RunReturns, TypeOK, TypeProgram
  <2> QED
    BY <2>1 DEF PrepareInv
<1>6. CASE ScheduleThread \/ BuildThread \/ UNCHANGED vars
  BY <1>2, <1>6, Zenon DEF ScheduleThread, ScheduleTop, ScheduleEmergency, ScheduleNormal,
     ScheduleSucceeds, ScheduleFails, BuildThread, BuildTop, BuildEmergency, BuildNormal,
     BuildSucceeds, BuildFails, BuildFindsNothing, mainVars, vars
<1>7. CASE EvaluateThread
  BY <1>2, <1>7, Zenon DEF EvaluateThread, EvaluateIteration, EvaluateSend, EvaluatePass,
     EvaluatePassEnds, EvaluateHelper, mainVars
<1> QED
  BY <1>3, <1>4, <1>5, <1>6, <1>7 DEF Next, ProgramThread, Returning

\* The inductive invariant behind the two theorems below.
FullInv == TypeOK /\ NeverStarted /\ EvaluateInv /\ PrepareInv

LEMMA FullInvariant == Spec => []FullInv
<1>1. Init => FullInv
  <2> SUFFICES ASSUME Init PROVE NeverStarted /\ EvaluateInv /\ PrepareInv
    BY TypeInit DEF FullInv
  <2> QED
    BY Zenon DEF Init, NeverStarted, EvaluateInv, CachedIsTrue, PrepareInv
<1>2. FullInv /\ [Next]_vars => FullInv'
  BY TypeNext, StartedStep, EvaluateInvStep, PrepareInvStep DEF FullInv
<1> QED
  BY <1>1, <1>2, PTL DEF Spec

\* Whenever cached_all_functions is set every subgraph of the task has a best
\* function: end_tuning never ends a tuning too early, and a run admitted
\* because of the flag never waits for a function.
THEOREM CachedCorrect == Spec => []CachedIsTrue
<1>1. FullInv => CachedIsTrue
  BY DEF FullInv, EvaluateInv
<1> QED
  BY <1>1, FullInvariant, PTL

\* run_evaluate visits a subgraph only after all its predecessors were measured,
\* and not again once it was measured itself, in every acyclic graph and whatever
\* measurements fail.
THEOREM OrderCorrect == Spec => []PredecessorsFirst
<1>1. FullInv => PredecessorsFirst
  BY Zenon DEF FullInv, EvaluateInv, CountersRight, SetsApart, PredecessorsFirst, ToVisit
<1> QED
  BY <1>1, FullInvariant, PTL

-----------------------------------------------------------------------------
(* Counting the tokens of a subgraph in a queue. *)

LEMMA OccurrencesType ==
  ASSUME NEW q \in Seq(Keys), NEW k
  PROVE  /\ IsFiniteSet({i \in DOMAIN q : q[i] = k})
         /\ Occurrences(q, k) \in Nat
         /\ Occurrences(q, k) > 0 => \E i \in 1 .. Len(q) : q[i] = k
<1> DEFINE S == {i \in DOMAIN q : q[i] = k}
<1>1. Len(q) \in Nat /\ DOMAIN q = 1 .. Len(q)  OBVIOUS
<1>2. IsFiniteSet(1 .. Len(q))  BY <1>1, FS_Interval
<1>3. S \in SUBSET (1 .. Len(q))  BY <1>1
<1>4. IsFiniteSet(S)  BY <1>2, <1>3, FS_Subset
<1>5. Cardinality(S) \in Nat  BY <1>4, FS_CardinalityType
<1>6. S = {} => Cardinality(S) = 0  BY FS_EmptySet, Zenon
<1>7. S # {} => \E i \in 1 .. Len(q) : q[i] = k  BY <1>1
<1>8. Occurrences(q, k) = Cardinality(S)  BY DEF Occurrences
<1> HIDE DEF S
<1>9. Occurrences(q, k) > 0 => S # {}  BY <1>5, <1>6, <1>8
<1> QED BY <1>4, <1>5, <1>7, <1>8, <1>9, Zenon DEF S

LEMMA OccurrencesPush ==
  ASSUME NEW q \in Seq(Keys), NEW b \in Seq(Keys), NEW j \in Keys, NEW k \in Keys,
         \A i \in 1 .. Len(b) : b[i] = j
  PROVE  Occurrences(q \o b, k) = Occurrences(q, k) + (IF j = k THEN Len(b) ELSE 0)
<1> DEFINE n == Len(b)
           A == {i \in DOMAIN q : q[i] = k}
           B == IF j = k THEN Len(q) + 1 .. Len(q) + n ELSE {}
           S == {i \in DOMAIN (q \o b) : (q \o b)[i] = k}
<1>1. Len(q) \in Nat /\ DOMAIN q = 1 .. Len(q)  OBVIOUS
<1>2. Len(b) = n /\ n \in Nat  OBVIOUS
<1>3. \A i \in 1 .. n : b[i] = j  OBVIOUS
<1> HIDE DEF n
<1>4. /\ DOMAIN (q \o b) = 1 .. Len(q) + n
      /\ \A i \in 1 .. Len(q) + n : (q \o b)[i] = IF i <= Len(q) THEN q[i] ELSE b[i - Len(q)]
  BY <1>2
<1>5. \A i \in Len(q) + 1 .. Len(q) + n : (q \o b)[i] = j
  BY <1>1, <1>2, <1>3, <1>4
<1>6. S = A \cup B
  <2>1. ASSUME NEW i \in S PROVE i \in A \cup B
    BY <1>1, <1>2, <1>4, <1>5, <2>1
  <2>2. ASSUME NEW i \in A PROVE i \in S
    BY <1>1, <1>2, <1>4, <2>2
  <2>3. ASSUME NEW i \in B PROVE i \in S
    BY <1>1, <1>2, <1>4, <1>5, <2>3
  <2> QED BY <2>1, <2>2, <2>3, Zenon
<1>7. A \cap B = {}  BY <1>1
<1>8. IsFiniteSet(A)  BY OccurrencesType, Zenon
<1>9. IsFiniteSet(B) /\ Cardinality(B) = IF j = k THEN n ELSE 0
  <2>1. CASE j = k
    <3>1. /\ IsFiniteSet(Len(q) + 1 .. Len(q) + n)
          /\ Cardinality(Len(q) + 1 .. Len(q) + n)
               = IF Len(q) + 1 > Len(q) + n THEN 0 ELSE (Len(q) + n) - (Len(q) + 1) + 1
      <4>1. Len(q) + 1 \in Int /\ Len(q) + n \in Int  BY <1>1, <1>2
      <4> QED BY <4>1, FS_Interval, Zenon
    <3>2. (IF Len(q) + 1 > Len(q) + n THEN 0 ELSE (Len(q) + n) - (Len(q) + 1) + 1) = n
      BY <1>1, <1>2
    <3> QED BY <2>1, <3>1, <3>2
  <2>2. CASE j # k  BY <2>2, FS_EmptySet
  <2> QED BY <2>1, <2>2, Zenon
<1> HIDE DEF A, B, S
<1>10. Cardinality(A \cup B) = Cardinality(A) + Cardinality(B) - Cardinality(A \cap B)
  BY <1>8, <1>9, FS_Union
<1>11. Cardinality(A \cap B) = 0  BY <1>7, FS_EmptySet, Zenon
<1>12. Cardinality(A) \in Nat  BY <1>8, FS_CardinalityType
<1>13. Occurrences(q, k) = Cardinality(A) /\ Occurrences(q \o b, k) = Cardinality(S)
  BY DEF Occurrences, A, S
<1> QED BY <1>2, <1>6, <1>9, <1>10, <1>11, <1>12, <1>13

LEMMA OccurrencesPop ==
  ASSUME NEW q \in Seq(Keys), q # <<>>, NEW k
  PROVE  Occurrences(Tail(q), k) = Occurrences(q, k) - (IF Head(q) = k THEN 1 ELSE 0)
<1> DEFINE S == {i \in DOMAIN q : q[i] = k}
           T == {i \in DOMAIN Tail(q) : Tail(q)[i] = k}
           f == [i \in T |-> i + 1]
<1>1. Len(q) \in Nat /\ Len(q) >= 1 /\ DOMAIN q = 1 .. Len(q) /\ Head(q) = q[1]  OBVIOUS
<1>2. /\ Tail(q) \in Seq(Keys) /\ DOMAIN Tail(q) = 1 .. Len(q) - 1
      /\ \A i \in 1 .. Len(q) - 1 : Tail(q)[i] = q[i + 1]
  OBVIOUS
<1>3. f \in Bijection(T, S \ {1})
  <2>1. \A i \in T : i \in Nat /\ i + 1 \in S \ {1}  BY <1>1, <1>2
  <2>2. f \in [T -> S \ {1}]  BY <2>1
  <2>3. \A i, j \in T : f[i] = f[j] => i = j  BY <2>1
  <2>4. \A s \in S \ {1} : \E i \in T : f[i] = s
    <3> SUFFICES ASSUME NEW s \in S \ {1} PROVE s - 1 \in T /\ f[s - 1] = s
      BY Zenon
    <3>1. s \in 2 .. Len(q) /\ q[s] = k  BY <1>1
    <3>2. s - 1 \in 1 .. Len(q) - 1 /\ (s - 1) + 1 = s  BY <1>1, <3>1
    <3>3. s - 1 \in T  BY <1>2, <3>1, <3>2
    <3> QED BY <3>2, <3>3
  <2> HIDE DEF f, S, T
  <2> QED BY <2>2, <2>3, <2>4 DEF Bijection, Injection, Surjection, IsInjective
<1>4. IsFiniteSet(S) /\ IsFiniteSet(T)  BY <1>2, OccurrencesType, Zenon
<1>5. Occurrences(q, k) = Cardinality(S) /\ Occurrences(Tail(q), k) = Cardinality(T)
  BY DEF Occurrences
<1>6. 1 \in S <=> Head(q) = k  BY <1>1
<1> HIDE DEF S, T, f
<1>7. Cardinality(S \ {1}) = Cardinality(T)
  <2>1. ExistsBijection(T, S \ {1})  BY <1>3, Zenon DEF ExistsBijection
  <2> QED BY <1>4, <2>1, FS_Bijection, Zenon
<1>8. Cardinality(S \ {1}) = IF 1 \in S THEN Cardinality(S) - 1 ELSE Cardinality(S)
  BY <1>4, FS_RemoveElement, Zenon
<1>9. Cardinality(S) \in Nat  BY <1>4, FS_CardinalityType
<1> QED BY <1>5, <1>6, <1>7, <1>8, <1>9

-----------------------------------------------------------------------------
(***************************************************************************)
(* The build tokens.  A token of a subgraph is in a build queue, in the    *)
(* hand of run_build, or a built function; only run_evaluate makes and     *)
(* takes them.  The bounds of TokensConserved are not inductive: the upper *)
(* one needs to know which subgraphs have been sent tokens in this         *)
(* iteration, the lower one that those have had theirs.                    *)
(***************************************************************************)
SentNow(k) ==
  \E i \in 1 .. Len(CallOrder) : i < sendIdx /\ FirstOfTag(i) /\ CallOrder[i] = k

Allowance(k) ==
  IF evPc \in {"pass", "evaluate", "done"} \/ (evPc = "send" /\ SentNow(k))
  THEN AutoscheduleParallel ELSE 0

TokensAtMost ==
  \A k \in Keys : Tokens(k) <= AutoscheduleParallel * ad + Allowance(k)

TokensAtLeast ==
  bldPc # "done" =>
    /\ evPc = "send" =>
         \A k \in Keys : SentNow(k) => Tokens(k) >= AutoscheduleParallel
    /\ evPc \in {"pass", "evaluate"} =>
         \A k \in UniqueKeys : cache[Tag[k]] = NoKey => Tokens(k) >= AutoscheduleParallel

TokenInv == TokensAtMost /\ TokensAtLeast

LEMMA TokensType == ASSUME TypeOK, NEW k \in Keys PROVE Tokens(k) \in Nat
<1>1. Occurrences(emBldQ, k) \in Nat /\ Occurrences(nmBldQ, k) \in Nat
  BY OccurrencesType, Zenon DEF TypeOK, TypeQueues
<1>2. built[k] \in Nat  BY DEF TypeOK, TypeQueues
<1> QED BY <1>1, <1>2 DEF Tokens

LEMMA TokensTypeNext == ASSUME TypeOK', NEW k \in Keys PROVE Tokens(k)' \in Nat
<1>1. Occurrences(emBldQ', k) \in Nat /\ Occurrences(nmBldQ', k) \in Nat
  BY OccurrencesType, Zenon DEF TypeOK, TypeQueues
<1>2. built'[k] \in Nat  BY Zenon DEF TypeOK, TypeQueues
<1> QED BY <1>1, <1>2 DEF Tokens

LEMMA BatchesSent ==
  ASSUME TypeOK
  PROVE  AutoscheduleParallel \in Nat /\ ad \in Nat /\ AutoscheduleParallel * ad \in Nat
<1>1. AutoscheduleParallel \in Nat  BY SessionAssumption
<1>2. ad \in Nat  BY Zenon DEF TypeOK, TypeEvaluate
<1> QED BY <1>1, <1>2

LEMMA TokensFrame ==
  ASSUME NEW k \in Keys, UNCHANGED <<emBldQ, nmBldQ, built, bldPc, bldKey>>
  PROVE  Tokens(k)' = Tokens(k)
BY Zenon DEF Tokens, Occurrences

\* run_build moves a token: from its queue to its hand, from its hand to the
\* built functions.  It loses the one in its hand when it leaves.
LEMMA TokensBuild ==
  ASSUME TypeOK, BuildThread, NEW k \in Keys
  PROVE  Tokens(k)' <= Tokens(k) /\ (bldPc' # "done" => Tokens(k)' = Tokens(k))
<1> DEFINE e == Occurrences(emBldQ, k)
           n == Occurrences(nmBldQ, k)
           h == IF bldPc \in Spinning /\ bldKey = k THEN 1 ELSE 0
<1>1. e \in Nat /\ n \in Nat
  BY OccurrencesType, Zenon DEF TypeOK, TypeQueues
<1>2. built[k] \in Nat /\ h \in {0, 1}  BY Zenon DEF TypeOK, TypeQueues
<1>3. Tokens(k) = e + n + built[k] + h /\ Tokens(k)' = e' + n' + built'[k] + h'
  BY Zenon DEF Tokens
<1>4. emBldQ \in Seq(Keys) /\ nmBldQ \in Seq(Keys)  BY DEF TypeOK, TypeQueues
<1>5. CASE BuildTop
  <2>1. UNCHANGED <<emBldQ, nmBldQ, built>> /\ bldPc \notin Spinning /\ bldPc' \notin Spinning
    BY <1>5 DEF BuildTop, queueVars, Spinning
  <2>2. e' = e /\ n' = n /\ built'[k] = built[k] /\ h = 0 /\ h' = 0
    BY <2>1, Zenon DEF Occurrences
  <2> HIDE DEF e, n, h
  <2> QED BY <1>1, <1>2, <1>3, <2>2
<1>6. CASE BuildEmergency
  <2>1. UNCHANGED <<nmBldQ, built>> /\ bldPc \notin Spinning
    BY <1>6, Zenon DEF BuildEmergency, Spinning
  <2>2. n' = n /\ built'[k] = built[k] /\ h = 0
    BY <2>1, Zenon DEF Occurrences
  <2>3. CASE emBldQ = <<>>
    <3>1. emBldQ' = emBldQ /\ bldPc' \notin Spinning
      BY <1>6, <2>3, Zenon DEF BuildEmergency, Spinning
    <3>2. e' = e /\ h' = 0  BY <3>1 DEF Occurrences
    <3> HIDE DEF e, n, h
    <3> QED BY <1>1, <1>2, <1>3, <2>2, <3>2
  <2>4. CASE emBldQ # <<>>
    <3>1. emBldQ' = Tail(emBldQ) /\ bldKey' = Head(emBldQ) /\ bldPc' \in Spinning
      BY <1>6, <2>4, Zenon DEF BuildEmergency, Spinning
    <3>2. e' = e - (IF Head(emBldQ) = k THEN 1 ELSE 0)
      BY <1>4, <2>4, <3>1, OccurrencesPop, Zenon
    <3>3. h' = IF Head(emBldQ) = k THEN 1 ELSE 0  BY <3>1
    <3> HIDE DEF e, n, h
    <3> QED BY <1>1, <1>2, <1>3, <2>2, <3>2, <3>3
  <2> QED BY <2>3, <2>4
<1>7. CASE BuildNormal
  <2>1. UNCHANGED <<emBldQ, built>> /\ bldPc \notin Spinning
    BY <1>7, Zenon DEF BuildNormal, Spinning
  <2>2. e' = e /\ built'[k] = built[k] /\ h = 0
    BY <2>1 DEF Occurrences
  <2>3. CASE nmBldQ = <<>>
    <3>1. nmBldQ' = nmBldQ /\ bldPc' \notin Spinning
      BY <1>7, <2>3, Zenon DEF BuildNormal, Spinning
    <3>2. n' = n /\ h' = 0  BY <3>1 DEF Occurrences
    <3> HIDE DEF e, n, h
    <3> QED BY <1>1, <1>2, <1>3, <2>2, <3>2
  <2>4. CASE nmBldQ # <<>>
    <3>1. nmBldQ' = Tail(nmBldQ) /\ bldKey' = Head(nmBldQ) /\ bldPc' \in Spinning
      BY <1>7, <2>4, Zenon DEF BuildNormal, Spinning
    <3>2. n' = n - (IF Head(nmBldQ) = k THEN 1 ELSE 0)
      BY <1>4, <2>4, <3>1, OccurrencesPop, Zenon
    <3>3. h' = IF Head(nmBldQ) = k THEN 1 ELSE 0  BY <3>1
    <3> HIDE DEF e, n, h
    <3> QED BY <1>1, <1>2, <1>3, <2>2, <3>2, <3>3
  <2> QED BY <2>3, <2>4
<1>8. CASE BuildSucceeds
  <2>1. UNCHANGED <<emBldQ, nmBldQ, bldKey>> /\ bldPc \in Spinning /\ bldPc' \notin Spinning
    BY <1>8, Zenon DEF BuildSucceeds, queueVars, Spinning
  <2>2. built'[k] = IF bldKey = k THEN built[k] + 1 ELSE built[k]
    BY <1>8, Zenon DEF BuildSucceeds, TypeOK, TypeQueues
  <2>3. e' = e /\ n' = n /\ h' = 0 /\ h = IF bldKey = k THEN 1 ELSE 0
    BY <2>1, Zenon DEF Occurrences
  <2> HIDE DEF e, n, h
  <2> QED BY <1>1, <1>2, <1>3, <2>2, <2>3
<1>9. CASE BuildFails \/ BuildFindsNothing
  <2>1. UNCHANGED <<emBldQ, nmBldQ, built, bldKey>> /\ bldPc' \in {bldPc, "done"}
    BY <1>9, Zenon DEF BuildFails, BuildFindsNothing, queueVars
  <2>2. e' = e /\ n' = n /\ built'[k] = built[k]  BY <2>1, Zenon DEF Occurrences
  <2>3. (bldPc' # "done" => h' = h) /\ h' <= h
    BY <2>1 DEF Spinning
  <2>4. h' \in {0, 1}  OBVIOUS
  <2> HIDE DEF e, n, h
  <2> QED BY <1>1, <1>2, <1>3, <2>2, <2>3, <2>4
<1> QED BY <1>5, <1>6, <1>7, <1>8, <1>9, Zenon DEF BuildThread

\* run_evaluate takes functions and, when they all fail, asks for as many.
LEMMA TokensHelper ==
  ASSUME TypeOK, NEW j \in Keys, EvaluateHelper(j), NEW k \in Keys
  PROVE  /\ Tokens(k)' <= Tokens(k)
         /\ cache'[Tag[k]] = NoKey => Tokens(k)' = Tokens(k) /\ cache[Tag[k]] = NoKey
<1> DEFINE e == Occurrences(emBldQ, k)
           n == Occurrences(nmBldQ, k)
           h == IF bldPc \in Spinning /\ bldKey = k THEN 1 ELSE 0
<1>1. e \in Nat /\ n \in Nat
  BY OccurrencesType, Zenon DEF TypeOK, TypeQueues
<1>2. built[k] \in Nat /\ built[j] \in Nat /\ h \in {0, 1}  BY Zenon DEF TypeOK, TypeQueues
<1>3. Tokens(k) = e + n + built[k] + h /\ Tokens(k)' = e' + n' + built'[k] + h'
  BY Zenon DEF Tokens
<1>4. UNCHANGED <<nmBldQ, bldPc, bldKey>>  BY DEF EvaluateHelper, bldVars
<1>5. n' = n /\ h' = h  BY <1>4 DEF Occurrences
<1>6. Tag[k] \in Tags /\ Tag[j] \in Tags /\ j # NoKey
  BY GraphAssumption DEF NoKey
<1>7. Taken(j) \in Nat /\ Taken(j) <= built[j]
  BY <1>2, SessionAssumption DEF Taken
<1>8. CASE EvaluateRepeated(j) \/ EvaluateFindsNothing(j)
  <2>1. UNCHANGED <<emBldQ, built, cache>>
    BY <1>8, Zenon DEF EvaluateRepeated, EvaluateFindsNothing
  <2>2. e' = e /\ built'[k] = built[k]  BY <2>1, Zenon DEF Occurrences
  <2> HIDE DEF e, n, h
  <2> QED BY <1>1, <1>2, <1>3, <1>5, <2>1, <2>2
<1>9. CASE EvaluateMeasured(j)
  <2>1. built'[k] = IF j = k THEN built[k] - Taken(j) ELSE built[k]
    BY <1>9, Zenon DEF EvaluateMeasured, TypeOK, TypeQueues
  <2>2. CASE MeasureFails(j)
    <3>1. e' = e + (IF j = k THEN Taken(j) ELSE 0)
      <4> DEFINE b == [i \in 1 .. Taken(j) |-> j]
      <4>1. emBldQ' = emBldQ \o b  BY <2>2 DEF MeasureFails
      <4>2. emBldQ \in Seq(Keys)  BY DEF TypeOK, TypeQueues
      <4>3. b \in Seq(Keys) /\ Len(b) = Taken(j) /\ \A i \in 1 .. Len(b) : b[i] = j
        BY <1>7
      <4> HIDE DEF b
      <4>4. Occurrences(emBldQ \o b, k) = Occurrences(emBldQ, k) + (IF j = k THEN Len(b) ELSE 0)
        BY <4>2, <4>3, OccurrencesPush
      <4> QED BY <4>1, <4>3, <4>4, Zenon
    <3>2. cache' = cache  BY <2>2 DEF MeasureFails
    <3> HIDE DEF e, n, h
    <3>3. built'[k] + e' = built[k] + e /\ built'[k] \in Nat /\ e' \in Nat
      BY <1>1, <1>2, <1>7, <2>1, <3>1
    <3>4. Tokens(k)' = Tokens(k) /\ Tokens(k) \in Nat  BY <1>1, <1>2, <1>3, <1>5, <3>3
    <3>5. Tokens(k) <= Tokens(k)  BY <3>4
    <3> QED BY <3>2, <3>4, <3>5, Zenon
  <2>3. ASSUME NEW perf \in Perf, MeasureSucceeds(j, perf)
        PROVE  /\ Tokens(k)' <= Tokens(k)
               /\ cache'[Tag[k]] = NoKey => Tokens(k)' = Tokens(k) /\ cache[Tag[k]] = NoKey
    <3>1. emBldQ' = emBldQ /\ cache' = [cache EXCEPT ![Tag[j]] = j]
      BY <2>3, Zenon DEF MeasureSucceeds
    <3>2. e' = e  BY <3>1, Zenon DEF Occurrences
    <3>3. cache'[Tag[k]] = NoKey => k # j /\ cache[Tag[k]] = NoKey
      BY <1>6, <3>1, Zenon DEF TypeOK, TypeEvaluate
    <3> HIDE DEF e, n, h
    <3>4. /\ built'[k] \in Nat /\ built'[k] <= built[k]
          /\ k # j => built'[k] = built[k]
      BY <1>2, <1>7, <2>1
    <3>5. /\ Tokens(k)' <= Tokens(k)
          /\ k # j => Tokens(k)' = Tokens(k)
      BY <1>1, <1>2, <1>3, <1>5, <3>2, <3>4
    <3> QED BY <3>3, <3>5, Zenon
  <2> QED BY <1>9, <2>2, <2>3, Zenon DEF EvaluateMeasured
<1> QED BY <1>8, <1>9, Zenon DEF EvaluateHelper

\* Iteration after iteration, run_evaluate sends a subgraph one batch of tokens.
LEMMA TokensSend ==
  ASSUME TypeOK, TokenInv, EvaluateSend
  PROVE  TokenInv'
<1>1. /\ evPc = "send" /\ UNCHANGED <<emBldQ, built, bldPc, bldKey, ad, cache>>
  BY Zenon DEF EvaluateSend, bldVars
<1>2. sendIdx \in Nat \ {0} /\ Len(CallOrder) \in Nat /\ ad \in Nat /\ nmBldQ \in Seq(Keys)
  BY CallOrderAssumption DEF TypeOK, TypeEvaluate, TypeQueues
<1>3. AutoscheduleParallel \in Nat /\ AutoscheduleParallel * ad \in Nat
  BY BatchesSent
<1>4. \A k \in Keys : Tokens(k) \in Nat  BY TokensType
<1>5. CASE sendIdx > Len(CallOrder)
  <2>1. evPc' = "pass" /\ UNCHANGED <<sendIdx, nmBldQ>>
    BY <1>5, Zenon DEF EvaluateSend
  <2>2. \A k \in Keys : Tokens(k)' = Tokens(k)
    BY <1>1, <2>1, TokensFrame, Zenon
  <2>3. TokensAtMost'
    <3> SUFFICES ASSUME NEW k \in Keys
                 PROVE  Tokens(k)' <= AutoscheduleParallel * ad + AutoscheduleParallel
      BY <1>1, <2>1, Zenon DEF TokensAtMost, Allowance
    <3>1. Tokens(k) <= AutoscheduleParallel * ad + Allowance(k)
      BY DEF TokenInv, TokensAtMost
    <3>2. Allowance(k) \in {0, AutoscheduleParallel}  BY DEF Allowance
    <3> QED BY <1>3, <1>4, <2>2, <3>1, <3>2
  <2>4. TokensAtLeast'
    <3> SUFFICES ASSUME bldPc # "done", NEW k \in UniqueKeys
                 PROVE  Tokens(k)' >= AutoscheduleParallel
      BY <1>1, <2>1, Zenon DEF TokensAtLeast
    <3>1. PICK i \in 1 .. Len(CallOrder) : FirstOfTag(i) /\ CallOrder[i] = k
      BY Zenon DEF UniqueKeys
    <3>2. k \in Keys  BY <3>1, CallOrderAssumption
    <3>3. SentNow(k)  BY <1>2, <1>5, <3>1 DEF SentNow
    <3> QED BY <1>1, <2>2, <3>2, <3>3, Zenon DEF TokenInv, TokensAtLeast
  <2> QED BY <2>3, <2>4 DEF TokenInv
<1>6. CASE sendIdx <= Len(CallOrder)
  <2> DEFINE s == CallOrder[sendIdx]
             first == FirstOfTag(sendIdx)
             b == [j \in 1 .. AutoscheduleParallel |-> s]
  <2>1. /\ evPc' = "send" /\ sendIdx' = sendIdx + 1
        /\ nmBldQ' = IF first THEN nmBldQ \o b ELSE nmBldQ
    <3>1. ~(sendIdx > Len(CallOrder))  BY <1>2, <1>6
    <3> QED BY <1>1, <3>1, Zenon DEF EvaluateSend
  <2>2. sendIdx \in 1 .. Len(CallOrder) /\ s \in Keys
    BY <1>2, <1>6, CallOrderAssumption
  <2>8. /\ b \in Seq(Keys) /\ Len(b) = AutoscheduleParallel
        /\ \A i \in 1 .. Len(b) : b[i] = s
    <3> HIDE DEF s
    <3> QED BY <1>3, <2>2
  <2> HIDE DEF b
  <2>3. ASSUME NEW k \in Keys
        PROVE  Tokens(k)' = Tokens(k) + (IF first /\ s = k THEN AutoscheduleParallel ELSE 0)
    <3>1. Occurrences(nmBldQ', k)
            = Occurrences(nmBldQ, k) + (IF first /\ s = k THEN AutoscheduleParallel ELSE 0)
      <4>1. Occurrences(nmBldQ, k) \in Nat  BY <1>2, OccurrencesType, Zenon
      <4> HIDE DEF s, first
      <4>2. Occurrences(nmBldQ \o b, k) = Occurrences(nmBldQ, k) + (IF s = k THEN Len(b) ELSE 0)
        BY <1>2, <2>2, <2>8, OccurrencesPush
      <4> QED BY <2>1, <2>8, <4>1, <4>2
    <3>2. Occurrences(emBldQ', k) = Occurrences(emBldQ, k) /\ built'[k] = built[k]
      BY <1>1
    <3>3. /\ Occurrences(emBldQ, k) \in Nat /\ Occurrences(nmBldQ, k) \in Nat
          /\ built[k] \in Nat
      BY OccurrencesType, Zenon DEF TypeOK, TypeQueues
    <3> DEFINE d == IF first /\ s = k THEN AutoscheduleParallel ELSE 0
               h == IF bldPc \in Spinning /\ bldKey = k THEN 1 ELSE 0
    <3>4. d \in Nat /\ h \in Nat /\ h' = h  BY <1>1, <1>3
    <3>5. Tokens(k) = Occurrences(emBldQ, k) + Occurrences(nmBldQ, k) + built[k] + h
      BY DEF Tokens
    <3>6. Tokens(k)' = Occurrences(emBldQ', k) + Occurrences(nmBldQ', k) + built'[k] + h'
      BY DEF Tokens
    <3>7. Occurrences(nmBldQ', k) = Occurrences(nmBldQ, k) + d  BY <3>1, Zenon
    <3> HIDE DEF d, h
    <3>8. Tokens(k)' = Tokens(k) + d
      BY <3>2, <3>3, <3>4, <3>5, <3>6, <3>7
    <3> QED BY <3>8, Zenon DEF d
  <2>4. ASSUME NEW k \in Keys
        PROVE  SentNow(k)' <=> SentNow(k) \/ (first /\ s = k)
    <3>1. ASSUME NEW i \in 1 .. Len(CallOrder)
          PROVE  i < sendIdx' <=> i < sendIdx \/ i = sendIdx
      BY <1>2, <2>1, <2>2
    <3>2. sendIdx \in 1 .. Len(CallOrder)  BY <1>2, <1>6
    <3>3. SentNow(k)' <=> \E i \in 1 .. Len(CallOrder) :
                            i < sendIdx' /\ FirstOfTag(i) /\ CallOrder[i] = k
      BY DEF SentNow, FirstOfTag
    <3> QED BY <3>1, <3>2, <3>3, Zenon DEF SentNow
  <2>5. ASSUME NEW k \in Keys, first, s = k
        PROVE  ~SentNow(k)
    BY <1>2, <2>2, <2>5 DEF SentNow, FirstOfTag
  <2> HIDE DEF s, first
  <2>6. TokensAtMost'
    <3> SUFFICES ASSUME NEW k \in Keys
                 PROVE  Tokens(k)' <= AutoscheduleParallel * ad + Allowance(k)'
      BY <1>1, Zenon DEF TokensAtMost
    <3>1. Tokens(k) <= AutoscheduleParallel * ad + Allowance(k)
      BY DEF TokenInv, TokensAtMost
    <3>2. Allowance(k) = IF SentNow(k) THEN AutoscheduleParallel ELSE 0
      BY <1>1 DEF Allowance
    <3>3. Allowance(k)' = IF SentNow(k)' THEN AutoscheduleParallel ELSE 0
      BY <2>1 DEF Allowance
    <3>4. CASE first /\ s = k
      <4>1. Allowance(k) = 0 /\ Allowance(k)' = AutoscheduleParallel
        BY <2>4, <2>5, <3>2, <3>3, <3>4, Zenon
      <4>2. Tokens(k)' = Tokens(k) + AutoscheduleParallel  BY <2>3, <3>4
      <4> QED BY <1>3, <1>4, <3>1, <4>1, <4>2
    <3>5. CASE ~(first /\ s = k)
      <4>1. Allowance(k)' = Allowance(k)  BY <2>4, <3>2, <3>3, <3>5, Zenon
      <4>2. Tokens(k)' = Tokens(k) + 0  BY <2>3, <3>5
      <4> QED BY <1>3, <1>4, <3>1, <4>1, <4>2
    <3> QED BY <3>4, <3>5
  <2>7. TokensAtLeast'
    <3> SUFFICES ASSUME bldPc # "done", NEW k \in Keys, SentNow(k)'
                 PROVE  Tokens(k)' >= AutoscheduleParallel
      BY <1>1, <2>1, Zenon DEF TokensAtLeast
    <3>1. CASE first /\ s = k
      BY <1>3, <1>4, <2>3, <3>1
    <3>2. CASE ~(first /\ s = k)
      <4>1. SentNow(k)  BY <2>4, <3>2
      <4>2. Tokens(k) >= AutoscheduleParallel
        BY <1>1, <4>1, Zenon DEF TokenInv, TokensAtLeast
      <4>3. Tokens(k)' = Tokens(k) + 0  BY <2>3, <3>2
      <4> QED BY <1>3, <1>4, <4>2, <4>3
    <3> QED BY <3>1, <3>2
  <2> QED BY <2>6, <2>7 DEF TokenInv
<1> QED BY <1>2, <1>5, <1>6

\* Steps that keep the place in the iteration and neither make nor lose tokens,
\* unless run_build leaves.
LEMMA TokensKept ==
  ASSUME TypeOK, TokenInv, UNCHANGED <<evPc, ad, sendIdx, cache>>,
         bldPc' # "done" => bldPc # "done",
         \A k \in Keys : Tokens(k)' <= Tokens(k) /\ (bldPc' # "done" => Tokens(k)' = Tokens(k)),
         \A k \in Keys : Tokens(k)' \in Nat
  PROVE  TokenInv'
<1>1. AutoscheduleParallel \in Nat /\ AutoscheduleParallel * ad \in Nat
  BY BatchesSent, Zenon
<1>2. \A k \in Keys : Tokens(k) \in Nat  BY TokensType, Zenon
<1>3. \A k \in Keys : (SentNow(k)' <=> SentNow(k)) /\ Allowance(k)' = Allowance(k)
  BY Zenon DEF SentNow, Allowance, FirstOfTag
<1>4. UniqueKeys \subseteq Keys  BY UniqueAreKeys
<1>5. TokensAtMost'
  <2> SUFFICES ASSUME NEW k \in Keys
               PROVE  Tokens(k)' <= AutoscheduleParallel * ad + Allowance(k)
    BY <1>3, Zenon DEF TokensAtMost
  <2>1. Tokens(k) <= AutoscheduleParallel * ad + Allowance(k)
    BY DEF TokenInv, TokensAtMost
  <2>2. Allowance(k) \in Nat  BY <1>1 DEF Allowance
  <2> QED BY <1>1, <1>2, <2>1, <2>2
<1>6. TokensAtLeast'
  BY <1>3, <1>4, Zenon DEF TokenInv, TokensAtLeast, UniqueKeys, FirstOfTag
<1> QED BY <1>5, <1>6, Zenon DEF TokenInv

LEMMA TokensEvaluate ==
  ASSUME TypeOK, TypeOK', TokenInv, EvaluateThread
  PROVE  TokenInv'
<1>1. \A k \in Keys : Tokens(k) \in Nat  BY TokensType
<1>2. \A k \in Keys : Tokens(k)' \in Nat  BY TokensTypeNext
<1>3. UniqueKeys \subseteq Keys  BY UniqueAreKeys
<1>4. AutoscheduleParallel \in Nat /\ ad \in Nat /\ AutoscheduleParallel * ad \in Nat
  BY BatchesSent
<1>5. \A k \in Keys : Tokens(k) <= AutoscheduleParallel * ad + Allowance(k)
  BY DEF TokenInv, TokensAtMost
<1>6. CASE EvaluateIteration
  <2>1. \A k \in Keys : Tokens(k)' = Tokens(k)
    BY <1>6, TokensFrame, Zenon DEF EvaluateIteration, queueVars, bldVars
  <2>2. evPc = "iteration" /\ ad' = ad /\ evPc' \in {"done", "send"} /\ (evPc' = "send" => sendIdx' = 1)
    BY <1>6, Zenon DEF EvaluateIteration
  <2>3. \A k \in Keys : Allowance(k) = 0 /\ Allowance(k)' \in Nat
    BY <1>4, <2>2, Zenon DEF Allowance
  <2>4. TokensAtMost'
    <3> SUFFICES ASSUME NEW k \in Keys
                 PROVE  Tokens(k)' <= AutoscheduleParallel * ad + Allowance(k)'
      BY <2>2 DEF TokensAtMost
    <3> QED BY <1>1, <1>4, <1>5, <2>1, <2>3
  <2>5. TokensAtLeast'
    <3>1. evPc' = "send" => \A k \in Keys : ~SentNow(k)'
      BY <2>2, CallOrderAssumption DEF SentNow
    <3> QED BY <2>2, <3>1, Zenon DEF TokensAtLeast
  <2> QED BY <2>4, <2>5 DEF TokenInv
<1>7. CASE EvaluateSend  BY <1>7, TokensSend
<1>8. CASE EvaluatePass
  <2>1. \A k \in Keys : Tokens(k)' = Tokens(k)
    BY <1>8, TokensFrame, Zenon DEF EvaluatePass, queueVars, bldVars
  <2>2. /\ evPc = "pass" /\ cache' = cache /\ bldPc' = bldPc
        /\ \/ ad' = ad + 1 /\ evPc' = "iteration"
           \/ ad' = ad /\ evPc' \in {"done", "evaluate"}
    BY <1>8, Zenon DEF EvaluatePass, bldVars
  <2>3. TokensAtMost'
    <3>1. AutoscheduleParallel * (ad + 1) = AutoscheduleParallel * ad + AutoscheduleParallel
      BY <1>4
    <3>2. \A k \in Keys : Allowance(k) = AutoscheduleParallel  BY <2>2, Zenon DEF Allowance
    <3> SUFFICES ASSUME NEW k \in Keys
                 PROVE  Tokens(k)' <= AutoscheduleParallel * ad' + Allowance(k)'
      BY DEF TokensAtMost
    <3>3. CASE ad' = ad + 1 /\ evPc' = "iteration"
      <4>1. Allowance(k)' = 0  BY <3>3, Zenon DEF Allowance
      <4> QED BY <1>1, <1>4, <1>5, <2>1, <3>1, <3>2, <3>3, <4>1
    <3>4. CASE ad' = ad /\ evPc' \in {"done", "evaluate"}
      <4>1. Allowance(k)' = AutoscheduleParallel  BY <3>4 DEF Allowance
      <4> QED BY <1>1, <1>4, <1>5, <2>1, <3>2, <3>4, <4>1
    <3> QED BY <2>2, <3>3, <3>4, Zenon
  <2>4. TokensAtLeast'
    BY <1>3, <2>1, <2>2, Zenon DEF TokenInv, TokensAtLeast, UniqueKeys, FirstOfTag
  <2> QED BY <2>3, <2>4 DEF TokenInv
<1>9. CASE EvaluatePassEnds
  <2>1. \A k \in Keys : Tokens(k)' = Tokens(k)
    BY <1>9, TokensFrame, Zenon DEF EvaluatePassEnds, queueVars, bldVars
  <2>2. /\ evPc = "evaluate" /\ evPc' = "pass" /\ UNCHANGED <<ad, cache, bldPc>>
    BY <1>9, Zenon DEF EvaluatePassEnds, bldVars
  <2>3. \A k \in Keys : Allowance(k) = AutoscheduleParallel /\ Allowance(k)' = AutoscheduleParallel
    BY <2>2 DEF Allowance
  <2>4. TokensAtMost'
    BY <1>5, <2>1, <2>2, <2>3, Zenon DEF TokensAtMost
  <2>5. TokensAtLeast'
    BY <1>3, <2>1, <2>2, Zenon DEF TokenInv, TokensAtLeast, UniqueKeys, FirstOfTag
  <2> QED BY <2>4, <2>5 DEF TokenInv
<1>10. ASSUME NEW j \in Keys, EvaluateHelper(j) PROVE TokenInv'
  <2>1. /\ evPc = "evaluate" /\ UNCHANGED <<evPc, ad, bldPc>>
    BY <1>10, Zenon DEF EvaluateHelper, bldVars
  <2>2. \A k \in Keys : Allowance(k) = AutoscheduleParallel /\ Allowance(k)' = AutoscheduleParallel
    BY <2>1, Zenon DEF Allowance
  <2>3. \A k \in Keys :
          /\ Tokens(k)' <= Tokens(k)
          /\ cache'[Tag[k]] = NoKey => Tokens(k)' = Tokens(k) /\ cache[Tag[k]] = NoKey
    BY <1>10, TokensHelper, Zenon
  <2>4. TokensAtMost'
    <3> SUFFICES ASSUME NEW k \in Keys
                 PROVE  Tokens(k)' <= AutoscheduleParallel * ad + AutoscheduleParallel
      BY <2>1, <2>2, Zenon DEF TokensAtMost
    <3> QED BY <1>1, <1>2, <1>4, <1>5, <2>2, <2>3
  <2>5. TokensAtLeast'
    BY <1>3, <2>1, <2>3, Zenon DEF TokenInv, TokensAtLeast, UniqueKeys, FirstOfTag
  <2> QED BY <2>4, <2>5 DEF TokenInv
<1> QED BY <1>6, <1>7, <1>8, <1>9, <1>10 DEF EvaluateThread

LEMMA TokensStep ==
  ASSUME TypeOK, TypeOK', NeverStarted, TokenInv, [Next]_vars
  PROVE  TokenInv'
<1>1. \A k \in Keys : Tokens(k) \in Nat  BY TokensType
<1>2. \A k \in Keys : Tokens(k)' \in Nat  BY TokensTypeNext
<1>3. ASSUME UNCHANGED <<emBldQ, nmBldQ, built, bldPc, bldKey, evPc, ad, sendIdx, cache>>
      PROVE  TokenInv'
  <2>1. \A k \in Keys : Tokens(k)' = Tokens(k)  BY <1>3, TokensFrame, Zenon
  <2>2. \A k \in Keys : Tokens(k)' <= Tokens(k) /\ (bldPc' # "done" => Tokens(k)' = Tokens(k))
    BY <1>1, <2>1
  <2> QED BY <1>2, <1>3, <2>2, TokensKept, Zenon
<1>4. CASE ScheduleThread
  BY <1>3, <1>4, Zenon DEF ScheduleThread, ScheduleTop, ScheduleEmergency, ScheduleNormal,
     ScheduleSucceeds, ScheduleFails, queueVars, bldVars, evVars
<1>5. CASE BuildThread
  <2>1. \A k \in Keys : Tokens(k)' <= Tokens(k) /\ (bldPc' # "done" => Tokens(k)' = Tokens(k))
    BY <1>5, TokensBuild, Zenon
  <2>2. UNCHANGED <<evPc, ad, sendIdx, cache>> /\ bldPc # "done"
    BY <1>5, Zenon DEF BuildThread, BuildTop, BuildEmergency, BuildNormal, BuildSucceeds, BuildFails,
       BuildFindsNothing, evVars, Spinning
  <2> QED BY <1>2, <2>1, <2>2, TokensKept, Zenon
<1>6. CASE EvaluateThread  BY <1>6, TokensEvaluate
<1>7. CASE LaunchThreads
  <2>1. /\ UNCHANGED <<emBldQ, nmBldQ, built, bldKey, ad, sendIdx, cache>>
        /\ bldPc' = bldPc \/ (bldPc = "none" /\ bldPc' = "top")
        /\ evPc' = evPc \/ (evPc = "none" /\ evPc' = "iteration")
    BY <1>7, Zenon DEF LaunchThreads, NeverStarted, queueVars
  <2>2. \A k \in Keys : Tokens(k)' = Tokens(k)
    BY <2>1, Zenon DEF Tokens, Occurrences, Spinning
  <2>3. \A k \in Keys : (SentNow(k)' <=> SentNow(k)) /\ Allowance(k)' = Allowance(k)
    BY <2>1, Zenon DEF SentNow, Allowance, FirstOfTag
  <2>4. UniqueKeys \subseteq Keys  BY UniqueAreKeys
  <2>5. TokensAtMost'  BY <2>1, <2>2, <2>3, Zenon DEF TokenInv, TokensAtMost
  <2>6. TokensAtLeast'
    BY <2>1, <2>2, <2>3, <2>4, Zenon DEF TokenInv, TokensAtLeast, UniqueKeys, FirstOfTag
  <2> QED BY <2>5, <2>6 DEF TokenInv
<1>8. CASE ProgramThread /\ ~LaunchThreads
  BY <1>3, <1>8, Zenon DEF ProgramThread, Returning, BeginTuning, TestScheduleReference,
     PrepareSubgraph, PrepareThrows, PrepareEnds, EndTuning, EndTuningReturns, Run, RunSubgraph,
     RunReturns, queueVars, workerVars, schVars, bldVars, evVars
<1>9. CASE UNCHANGED vars
  BY <1>3, <1>9, Zenon DEF vars, queueVars, bldVars, evVars
<1> QED BY <1>4, <1>5, <1>6, <1>7, <1>8, <1>9, Zenon DEF Next

LEMMA TokensInit == Init => TokenInv
<1> SUFFICES ASSUME Init PROVE TokenInv  OBVIOUS
<1>1. \A k \in Keys : Tokens(k) = 0
  <2> SUFFICES ASSUME NEW k \in Keys PROVE Tokens(k) = 0  OBVIOUS
  <2>1. Occurrences(<<>>, k) = 0
    <3>1. {i \in DOMAIN <<>> : <<>>[i] = k} = {}  OBVIOUS
    <3> QED BY <3>1, FS_EmptySet, Zenon DEF Occurrences
  <2> QED BY <2>1 DEF Init, Tokens, Spinning
<1>2. \A k \in Keys : Allowance(k) = 0  BY Zenon DEF Init, Allowance
<1>3. AutoscheduleParallel * ad = 0  BY SessionAssumption DEF Init
<1> QED BY <1>1, <1>2, <1>3 DEF Init, TokenInv, TokensAtMost, TokensAtLeast

LEMMA TokenInvariant == Spec => [](TypeOK /\ TokenInv)
<1>1. Init => NeverStarted  BY DEF Init, NeverStarted
<1>2. TypeOK /\ TypeOK' /\ NeverStarted /\ TokenInv /\ [Next]_vars => TokenInv'
  BY TokensStep
<1> QED BY <1>1, <1>2, TokensInit, TypeInit, TypeNext, StartedStep, PTL DEF Spec

\* The build tokens and the functions made from them are conserved: as long as
\* a subgraph of a tag is to be measured there are never fewer than
\* autoschedule_parallel of them, and there are never more than one batch for
\* each iteration begun, whatever fails and is asked for again.
THEOREM TokensAlwaysConserved == Spec => []TokensConserved
<1>1. TypeOK /\ TokenInv => TokensConserved
  <2> SUFFICES ASSUME TypeOK, TokenInv, NEW k \in Keys
               PROVE  /\ Tokens(k) <= AutoscheduleParallel * (ad + 1)
                      /\ (evPc \in {"pass", "evaluate"} /\ bldPc # "done"
                            /\ k \in UniqueKeys /\ cache[Tag[k]] = NoKey)
                          => Tokens(k) >= AutoscheduleParallel
    BY Zenon DEF TokensConserved
  <2>1. AutoscheduleParallel \in Nat /\ AutoscheduleParallel * ad \in Nat /\ ad \in Nat
    BY BatchesSent
  <2>2. AutoscheduleParallel * (ad + 1) = AutoscheduleParallel * ad + AutoscheduleParallel
    BY <2>1
  <2>3. Allowance(k) \in {0, AutoscheduleParallel}  BY DEF Allowance
  <2>4. Tokens(k) \in Nat /\ Tokens(k) <= AutoscheduleParallel * ad + Allowance(k)
    BY TokensType, Zenon DEF TokenInv, TokensAtMost
  <2>5. Tokens(k) <= AutoscheduleParallel * (ad + 1)  BY <2>1, <2>2, <2>3, <2>4
  <2> QED BY <2>5, Zenon DEF TokenInv, TokensAtLeast
<1> QED BY <1>1, TokenInvariant, PTL

-----------------------------------------------------------------------------
\* A session that is tuned and loads no reference, whatever its task and its
\* options: until it is deleted, evaluate_helper never lets the best function of
\* a subgraph give way to a worse one, taken over or measured.
THEOREM BestOnlyImproves ==
  ASSUME References = {}
  PROVE  LifeSpec => BestNeverWorsensAlive
<1> DEFINE Inv == TypeOK /\ BestInv
           Improves == life' \in {"alive", "ending"} => BestGrows
<1>1. LifeInit => Inv  BY LifeStart
<1>2. Inv /\ [LifeNext]_lifeVars => Inv'  BY PredsAreCounted, LifeStep
<1>3. Inv /\ [LifeNext]_lifeVars => [Improves]_lifeVars  BY PredsAreCounted, LifeStep, Zenon
<1>4. BestNeverWorsensAlive <=> [][Improves]_lifeVars
  BY DEF BestNeverWorsensAlive, BestGrows
<1> HIDE DEF Inv, Improves
<1> QED BY <1>1, <1>2, <1>3, <1>4, PTL DEF LifeSpec
=============================================================================
