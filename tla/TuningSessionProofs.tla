------------------------- MODULE TuningSessionProofs -------------------------
(***************************************************************************)
(* Steps of TuningSession, for any task, any options and any bounds: its   *)
(* types, the pipeline of schedule requests between run_build and          *)
(* run_autoschedule, and the best functions until the session is deleted.  *)
(* The theorems they give are in TuningEvaluateProofs, which knows the     *)
(* facts about finite sets; the one that the types rest on is PredsCounted.*)
(***************************************************************************)
EXTENDS SessionLifetime, TLAPS

\* num_predecessor is a number: a task has finitely many subgraphs.
PredsCounted == \A k \in Keys : Cardinality(Preds(k)) \in Nat

\* Tokens pushed together: n times the same key.
LEMMA RepeatSeq ==
  ASSUME NEW k \in Keys, NEW n \in Nat
  PROVE  /\ [i \in 1 .. n |-> k] \in Seq(Keys)
         /\ Len([i \in 1 .. n |-> k]) = n
  OBVIOUS

\* Replacing the front of best_functions[k] never leaves it empty.
LEMMA ReplaceFrontFacts ==
  ASSUME NEW q \in Seq(Perf), NEW p \in Perf
  PROVE  ReplaceFront(q, p) \in Seq(Perf) /\ ReplaceFront(q, p) # <<>>
<1>1. CASE q = <<>>
  BY <1>1 DEF ReplaceFront
<1>2. CASE q # <<>>
  <2>1. Len(q) \in Nat /\ Len(q) >= 1
    BY <1>2
  <2>2. Append(q, p) \in Seq(Perf) /\ Len(Append(q, p)) = Len(q) + 1
    OBVIOUS
  <2>3. Tail(Append(q, p)) \in Seq(Perf) /\ Len(Tail(Append(q, p))) = Len(q)
    BY <2>1, <2>2
  <2> QED
    BY <1>2, <2>1, <2>3 DEF ReplaceFront
<1> QED
  BY <1>1, <1>2

LEMMA FrontFacts ==
  ASSUME NEW q \in Seq(Perf), q # <<>>
  PROVE  Head(q) \in Perf
  OBVIOUS

\* The function taken over from a repeated subgraph.
LEMMA RepeatedFacts ==
  ASSUME TypeOK, NEW k \in Keys, HasRepeated(k)
  PROVE  /\ ReplaceFront(best[k], Head(best[cache[Tag[k]]])) \in Seq(Perf)
         /\ ReplaceFront(best[k], Head(best[cache[Tag[k]]])) # <<>>
<1>1. cache[Tag[k]] \in Keys
  BY GraphAssumption DEF TypeOK, TypeEvaluate, HasRepeated
<1>2. best[cache[Tag[k]]] \in Seq(Perf) /\ best[k] \in Seq(Perf)
  BY <1>1 DEF TypeOK, TypeQueues
<1>3. Head(best[cache[Tag[k]]]) \in Perf
  BY <1>2, FrontFacts DEF HasRepeated
<1> QED
  BY <1>2, <1>3, ReplaceFrontFacts, Zenon

\* Taking the front of a queue of keys, and pushing one.
LEMMA PopFacts ==
  ASSUME NEW q \in Seq(Keys), q # <<>>
  PROVE  Head(q) \in Keys /\ Tail(q) \in Seq(Keys) /\ Len(Tail(q)) = Len(q) - 1
  OBVIOUS

LEMMA PushFacts ==
  ASSUME NEW q \in Seq(Keys), NEW k \in Keys
  PROVE  Append(q, k) \in Seq(Keys)
  OBVIOUS

LEMMA ConcatFacts ==
  ASSUME NEW q \in Seq(Keys), NEW r \in Seq(Keys)
  PROVE  q \o r \in Seq(Keys)
  OBVIOUS

-----------------------------------------------------------------------------
(* Type correctness.  The type invariant is inductive as it stands. *)

LEMMA FrameFlags == TypeFlags /\ UNCHANGED flagVars => TypeFlags'
  BY DEF TypeFlags, flagVars

LEMMA FrameWorkers == TypeWorkers /\ UNCHANGED <<schVars, bldVars>> => TypeWorkers'
  BY DEF TypeWorkers, schVars, bldVars

LEMMA FrameEvaluate == TypeEvaluate /\ UNCHANGED evVars => TypeEvaluate'
  BY DEF TypeEvaluate, evVars

LEMMA FrameProgram == TypeProgram /\ UNCHANGED mainVars => TypeProgram'
  BY DEF TypeProgram, mainVars

LEMMA FrameQueues ==
  TypeQueues /\ UNCHANGED <<queueVars, future, built, best>> => TypeQueues'
  BY DEF TypeQueues, queueVars

LEMMA TypeInit == Init => TypeOK
<1> SUFFICES ASSUME Init PROVE TypeOK
  OBVIOUS
<1>1. TypeQueues
  BY DEF Init, TypeQueues
<1>2. TypeFlags
  BY Zenon DEF Init, TypeFlags
<1>3. TypeWorkers
  BY DEF Init, TypeWorkers, WorkerPcs, Spinning
<1>4. TypeEvaluate
  BY DEF Init, TypeEvaluate
<1>5. TypeProgram
  BY DEF Init, TypeProgram
<1> QED
  BY <1>1, <1>2, <1>3, <1>4, <1>5 DEF TypeOK

LEMMA TypeSchedule == TypeOK /\ ScheduleThread => TypeOK'
<1> SUFFICES ASSUME TypeOK, ScheduleThread
             PROVE  TypeOK'
  OBVIOUS
<1>1. UNCHANGED flagVars /\ UNCHANGED evVars /\ UNCHANGED mainVars
  BY DEF ScheduleThread, ScheduleTop, ScheduleEmergency, ScheduleNormal, ScheduleSucceeds,
         ScheduleFails
<1>2. CASE ScheduleTop \/ ScheduleFails
  <2>1. TypeQueues'
    BY <1>2, FrameQueues DEF TypeOK, ScheduleTop, ScheduleFails
  <2>2. TypeWorkers'
    BY <1>2 DEF TypeOK, TypeWorkers, WorkerPcs, Spinning, bldVars, ScheduleTop, ScheduleFails
  <2> QED
    BY <1>1, <2>1, <2>2, FrameFlags, FrameEvaluate, FrameProgram DEF TypeOK
<1>3. CASE ScheduleEmergency
  <2>1. emSchQ # <<>> => Head(emSchQ) \in Keys /\ Tail(emSchQ) \in Seq(Keys)
    BY PopFacts DEF TypeOK, TypeQueues
  <2>2. TypeQueues'
    BY <1>3, <2>1, Zenon DEF TypeOK, TypeQueues, ScheduleEmergency
  <2>3. TypeWorkers'
    BY <1>3, <2>1 DEF TypeOK, TypeWorkers, WorkerPcs, Spinning, bldVars, ScheduleEmergency
  <2> QED
    BY <1>1, <2>2, <2>3, FrameFlags, FrameEvaluate, FrameProgram DEF TypeOK
<1>4. CASE ScheduleNormal
  <2>1. nmSchQ # <<>> => Head(nmSchQ) \in Keys /\ Tail(nmSchQ) \in Seq(Keys)
    BY PopFacts DEF TypeOK, TypeQueues
  <2>2. TypeQueues'
    BY <1>4, <2>1, Zenon DEF TypeOK, TypeQueues, ScheduleNormal
  <2>3. TypeWorkers'
    BY <1>4, <2>1, Zenon DEF TypeOK, TypeWorkers, WorkerPcs, Spinning, bldVars, ScheduleNormal
  <2> QED
    BY <1>1, <2>2, <2>3, FrameFlags, FrameEvaluate, FrameProgram DEF TypeOK
<1>5. CASE ScheduleSucceeds
  <2>1. TypeQueues'
    <3>1. TypeQueues /\ schKey \in Keys /\ future' = [future EXCEPT ![schKey] = @ + 1]
          /\ UNCHANGED <<queueVars, built, best>>
      BY <1>5, Zenon DEF TypeOK, TypeWorkers, ScheduleSucceeds
    <3>2. future' \in [Keys -> Nat]
      <4>1. future \in [Keys -> Nat]
        BY <3>1, Zenon DEF TypeQueues
      <4> QED
        BY <3>1, <4>1
    <3> QED
      BY <3>1, <3>2, Zenon DEF TypeQueues, queueVars
  <2>2. TypeWorkers'
    BY <1>5 DEF TypeOK, TypeWorkers, WorkerPcs, Spinning, bldVars, ScheduleSucceeds
  <2> QED
    BY <1>1, <2>1, <2>2, FrameFlags, FrameEvaluate, FrameProgram DEF TypeOK
<1> QED
  BY <1>2, <1>3, <1>4, <1>5 DEF ScheduleThread

LEMMA TypeBuild == TypeOK /\ BuildThread => TypeOK'
<1> SUFFICES ASSUME TypeOK, BuildThread
             PROVE  TypeOK'
  OBVIOUS
<1>1. UNCHANGED flagVars /\ UNCHANGED evVars /\ UNCHANGED mainVars
  BY DEF BuildThread, BuildTop, BuildEmergency, BuildNormal, BuildSucceeds, BuildFails,
         BuildFindsNothing
<1>2. CASE BuildTop \/ BuildFindsNothing
  <2>1. TypeQueues'
    BY <1>2, FrameQueues DEF TypeOK, BuildTop, BuildFindsNothing
  <2>2. TypeWorkers'
    BY <1>2 DEF TypeOK, TypeWorkers, WorkerPcs, Spinning, schVars, BuildTop, BuildFindsNothing
  <2> QED
    BY <1>1, <2>1, <2>2, FrameFlags, FrameEvaluate, FrameProgram DEF TypeOK
<1>3. CASE BuildEmergency
  <2>1. emBldQ # <<>> => /\ Head(emBldQ) \in Keys /\ Tail(emBldQ) \in Seq(Keys)
                         /\ Append(emSchQ, Head(emBldQ)) \in Seq(Keys)
    BY PopFacts, PushFacts DEF TypeOK, TypeQueues
  <2>2. TypeQueues'
    BY <1>3, <2>1, Zenon DEF TypeOK, TypeQueues, BuildEmergency
  <2>3. TypeWorkers'
    BY <1>3, <2>1 DEF TypeOK, TypeWorkers, WorkerPcs, Spinning, schVars, BuildEmergency
  <2> QED
    BY <1>1, <2>2, <2>3, FrameFlags, FrameEvaluate, FrameProgram DEF TypeOK
<1>4. CASE BuildNormal
  <2>1. nmBldQ # <<>> => /\ Head(nmBldQ) \in Keys /\ Tail(nmBldQ) \in Seq(Keys)
                         /\ Append(nmSchQ, Head(nmBldQ)) \in Seq(Keys)
    BY PopFacts, PushFacts DEF TypeOK, TypeQueues
  <2>2. TypeQueues'
    BY <1>4, <2>1, Zenon DEF TypeOK, TypeQueues, BuildNormal
  <2>3. TypeWorkers'
    BY <1>4, <2>1 DEF TypeOK, TypeWorkers, WorkerPcs, Spinning, schVars, BuildNormal
  <2> QED
    BY <1>1, <2>2, <2>3, FrameFlags, FrameEvaluate, FrameProgram DEF TypeOK
<1>5. CASE BuildSucceeds
  <2>1. TypeQueues'
    <3>1. bldKey \in Keys
      BY <1>5 DEF TypeOK, TypeWorkers, BuildSucceeds
    <3>2. future' \in [Keys -> Nat]
      BY <1>5, <3>1 DEF TypeOK, TypeQueues, BuildSucceeds
    <3>3. built' \in [Keys -> Nat]
      BY <1>5, <3>1 DEF TypeOK, TypeQueues, BuildSucceeds
    <3> QED
      BY <1>5, <3>2, <3>3, Zenon DEF TypeOK, TypeQueues, queueVars, BuildSucceeds
  <2>2. TypeWorkers'
    BY <1>5 DEF TypeOK, TypeWorkers, WorkerPcs, Spinning, schVars, BuildSucceeds
  <2> QED
    BY <1>1, <2>1, <2>2, FrameFlags, FrameEvaluate, FrameProgram DEF TypeOK
<1>6. CASE BuildFails
  <2>1. bldKey \in Keys
    BY <1>6 DEF TypeOK, TypeWorkers, BuildFails
  <2>2. Append(emSchQ, bldKey) \in Seq(Keys) /\ Append(nmSchQ, bldKey) \in Seq(Keys)
    BY <2>1, PushFacts DEF TypeOK, TypeQueues
  <2>3. future' \in [Keys -> Nat]
    BY <1>6, <2>1 DEF TypeOK, TypeQueues, BuildFails
  <2>4. TypeQueues'
    BY <1>6, <2>2, <2>3, Zenon DEF TypeOK, TypeQueues, BuildFails
  <2>5. TypeWorkers'
    BY <1>6 DEF TypeOK, TypeWorkers, WorkerPcs, Spinning, schVars, BuildFails
  <2> QED
    BY <1>1, <2>4, <2>5, FrameFlags, FrameEvaluate, FrameProgram DEF TypeOK
<1> QED
  BY <1>2, <1>3, <1>4, <1>5, <1>6 DEF BuildThread

LEMMA TypeEvaluateThread == PredsCounted /\ TypeOK /\ EvaluateThread => TypeOK'
<1> SUFFICES ASSUME PredsCounted, TypeOK, EvaluateThread
             PROVE  TypeOK'
  OBVIOUS
<1>1. CASE EvaluateIteration
  <2>1. \A k \in Keys : Cardinality(Preds(k)) \in Nat
    BY DEF PredsCounted
  <2>2. TypeEvaluate'
    BY <1>1, <2>1 DEF TypeOK, TypeEvaluate, EvaluateIteration
  <2>3. TypeQueues' /\ TypeFlags' /\ TypeWorkers' /\ TypeProgram'
    BY <1>1, FrameQueues, FrameFlags, FrameWorkers, FrameProgram DEF TypeOK, EvaluateIteration
  <2> QED
    BY <2>2, <2>3 DEF TypeOK
<1>2. CASE EvaluateSend
  <2>1. sendIdx <= Len(CallOrder) => CallOrder[sendIdx] \in Keys
    BY CallOrderAssumption DEF TypeOK, TypeEvaluate
  <2>2. sendIdx <= Len(CallOrder) =>
          nmBldQ \o [j \in 1 .. AutoscheduleParallel |-> CallOrder[sendIdx]] \in Seq(Keys)
    BY <2>1, RepeatSeq, ConcatFacts, SessionAssumption DEF TypeOK, TypeQueues
  <2>3. nmBldQ' \in Seq(Keys)
    <3>1. Len(CallOrder) \in Nat /\ sendIdx \in Nat /\ nmBldQ \in Seq(Keys)
      BY CallOrderAssumption DEF TypeOK, TypeQueues, TypeEvaluate
    <3>2. CASE sendIdx > Len(CallOrder)
      BY <1>2, <3>1, <3>2 DEF EvaluateSend
    <3>3. CASE sendIdx <= Len(CallOrder)
      BY <1>2, <2>2, <3>1, <3>3, Zenon DEF EvaluateSend
    <3> QED
      BY <3>1, <3>2, <3>3
  <2>4. TypeQueues'
    BY <1>2, <2>3 DEF TypeOK, TypeQueues, EvaluateSend
  <2>5. TypeEvaluate'
    BY <1>2 DEF TypeOK, TypeEvaluate, EvaluateSend
  <2>6. TypeFlags' /\ TypeWorkers' /\ TypeProgram'
    BY <1>2, FrameFlags, FrameWorkers, FrameProgram DEF TypeOK, EvaluateSend
  <2> QED
    BY <2>4, <2>5, <2>6 DEF TypeOK
<1>3. CASE EvaluatePass
  <2>1. TypeEvaluate'
    BY <1>3 DEF TypeOK, TypeEvaluate, EvaluatePass
  <2>2. TypeFlags'
    BY <1>3, Zenon DEF TypeOK, TypeFlags, EvaluatePass
  <2>3. TypeQueues' /\ TypeWorkers' /\ TypeProgram'
    BY <1>3, FrameQueues, FrameWorkers, FrameProgram DEF TypeOK, EvaluatePass
  <2> QED
    BY <2>1, <2>2, <2>3 DEF TypeOK
<1>4. CASE EvaluatePassEnds
  <2>1. TypeEvaluate'
    BY <1>4 DEF TypeOK, TypeEvaluate, EvaluatePassEnds
  <2>2. TypeQueues' /\ TypeFlags' /\ TypeWorkers' /\ TypeProgram'
    BY <1>4, FrameQueues, FrameFlags, FrameWorkers, FrameProgram DEF TypeOK, EvaluatePassEnds
  <2> QED
    BY <2>1, <2>2 DEF TypeOK
<1>5. ASSUME NEW k \in Keys, EvaluateHelper(k)
      PROVE  TypeOK'
  <2>1. Tag[k] \in Tags /\ Succ[k] \subseteq Keys
    BY GraphAssumption
  <2>2. \/ EvaluateRepeated(k)
        \/ EvaluateFindsNothing(k)
        \/ EvaluateMeasured(k) /\ MeasureFails(k)
        \/ EvaluateMeasured(k) /\ \E perf \in Perf : MeasureSucceeds(k, perf)
    BY <1>5 DEF EvaluateHelper, EvaluateMeasured
  <2>3. evaluated' \subseteq Keys /\ order' \in [Keys -> Int] /\ updSet' \subseteq Keys
    <3>1. SubgraphDone(k) \/ SubgraphNotDone
      BY <2>2, Zenon DEF EvaluateRepeated, EvaluateFindsNothing, MeasureFails, MeasureSucceeds
    <3> QED
      BY <2>1, <3>1 DEF TypeOK, TypeEvaluate, SubgraphDone, SubgraphNotDone
  <2>4. cache' \in [Tags -> Keys \cup {NoKey}]
    BY <2>1, <2>2, Zenon DEF TypeOK, TypeEvaluate, EvaluateRepeated, EvaluateFindsNothing,
                      MeasureFails, MeasureSucceeds
  <2>5. TypeEvaluate'
    BY <1>5, <2>3, <2>4 DEF TypeOK, TypeEvaluate, EvaluateHelper
  <2>6. Taken(k) \in Nat /\ (built[k] > 0 => built[k] - Taken(k) \in Nat)
    BY SessionAssumption DEF TypeOK, TypeQueues, Taken
  <2>7. built' \in [Keys -> Nat]
    BY <2>2, <2>6, Zenon DEF TypeOK, TypeQueues, EvaluateRepeated, EvaluateFindsNothing,
                      EvaluateMeasured
  <2>8. emBldQ \o [i \in 1 .. Taken(k) |-> k] \in Seq(Keys)
    BY <2>6, RepeatSeq, ConcatFacts, Zenon DEF TypeOK, TypeQueues
  <2>9. emBldQ' \in Seq(Keys)
    BY <2>2, <2>8, Zenon DEF TypeOK, TypeQueues, EvaluateRepeated, EvaluateFindsNothing,
                      MeasureFails, MeasureSucceeds
  <2>10. best' \in [Keys -> Seq(Perf)]
    <3>1. CASE EvaluateRepeated(k)
      <4>1. ReplaceFront(best[k], Head(best[cache[Tag[k]]])) \in Seq(Perf)
        BY <3>1, RepeatedFacts DEF EvaluateRepeated
      <4> QED
        BY <3>1, <4>1 DEF TypeOK, TypeQueues, EvaluateRepeated
    <3>2. ASSUME NEW perf \in Perf, MeasureSucceeds(k, perf)
          PROVE  best' \in [Keys -> Seq(Perf)]
      <4>1. ReplaceFront(best[k], perf) \in Seq(Perf)
        BY ReplaceFrontFacts DEF TypeOK, TypeQueues
      <4> QED
        BY <3>2, <4>1 DEF TypeOK, TypeQueues, MeasureSucceeds
    <3> QED
      BY <2>2, <3>1, <3>2 DEF TypeOK, TypeQueues, EvaluateFindsNothing, MeasureFails
  <2>11. TypeQueues'
    BY <1>5, <2>7, <2>9, <2>10, Zenon DEF TypeOK, TypeQueues, EvaluateHelper
  <2>12. TypeFlags' /\ TypeWorkers' /\ TypeProgram'
    BY <1>5, FrameFlags, FrameWorkers, FrameProgram DEF TypeOK, EvaluateHelper
  <2> QED
    BY <2>5, <2>11, <2>12 DEF TypeOK
<1> QED
  BY <1>1, <1>2, <1>3, <1>4, <1>5 DEF EvaluateThread

\* A function loaded from a reference is pushed on best_functions.
LEMMA ReferenceFacts ==
  ASSUME TypeOK, NEW k \in Keys, Tag[k] \in DOMAIN reference
  PROVE  /\ Append(best[k], reference[Tag[k]]) \in Seq(Perf)
         /\ Append(best[k], reference[Tag[k]]) # <<>>
<1>1. reference \in References
  BY DEF TypeOK, TypeProgram
<1>2. PICK S \in SUBSET Tags : reference \in [S -> Perf]
  BY <1>1, SessionAssumption
<1>3. reference[Tag[k]] \in Perf
  BY <1>2
<1>4. best[k] \in Seq(Perf)
  BY DEF TypeOK, TypeQueues
<1>5. Len(Append(best[k], reference[Tag[k]])) = Len(best[k]) + 1 /\ Len(best[k]) \in Nat
  BY <1>3, <1>4
<1> QED
  BY <1>3, <1>4, <1>5

LEMMA TypeProgramThread == TypeOK /\ ProgramThread => TypeOK'
<1> SUFFICES ASSUME TypeOK, ProgramThread
             PROVE  TypeOK'
  OBVIOUS
<1> USE DEF workerVars
<1>1. CASE BeginTuning
  <2>1. TypeFlags'
    BY <1>1, Zenon DEF TypeOK, TypeFlags, BeginTuning
  <2>2. TypeProgram'
    BY <1>1 DEF TypeOK, TypeProgram, BeginTuning
  <2>3. TypeQueues' /\ TypeWorkers' /\ TypeEvaluate'
    BY <1>1, FrameQueues, FrameWorkers, FrameEvaluate DEF TypeOK, BeginTuning
  <2> QED
    BY <2>1, <2>2, <2>3 DEF TypeOK
<1>2. CASE TestScheduleReference
  <2>1. TypeProgram'
    BY <1>2 DEF TypeOK, TypeProgram, TestScheduleReference
  <2>2. TypeQueues' /\ TypeFlags' /\ TypeWorkers' /\ TypeEvaluate'
    BY <1>2, FrameQueues, FrameFlags, FrameWorkers, FrameEvaluate
       DEF TypeOK, TestScheduleReference
  <2> QED
    BY <2>1, <2>2 DEF TypeOK
<1>3. CASE PrepareSubgraph
  <2>1. PICK k \in prepLeft :
          /\ prepLeft' = prepLeft \ {k}
          /\ best' = IF Tag[k] \in DOMAIN reference
                       THEN [best EXCEPT ![k] = Append(@, reference[Tag[k]])]
                       ELSE best
    BY <1>3, Zenon DEF PrepareSubgraph
  <2>2. k \in Keys
    BY DEF TypeOK, TypeProgram
  <2>3. Tag[k] \in DOMAIN reference => Append(best[k], reference[Tag[k]]) \in Seq(Perf)
    BY <2>2, ReferenceFacts
  <2>5. best' \in [Keys -> Seq(Perf)]
    BY <2>1, <2>2, <2>3, Zenon DEF TypeOK, TypeQueues
  <2>6. TypeQueues'
    BY <1>3, <2>5, Zenon DEF TypeOK, TypeQueues, queueVars, PrepareSubgraph
  <2>7. TypeProgram'
    BY <1>3, <2>1 DEF TypeOK, TypeProgram, PrepareSubgraph
  <2>8. TypeFlags' /\ TypeWorkers' /\ TypeEvaluate'
    BY <1>3, FrameFlags, FrameWorkers, FrameEvaluate, Zenon DEF TypeOK, PrepareSubgraph
  <2> QED
    BY <2>6, <2>7, <2>8 DEF TypeOK
<1>4. CASE PrepareThrows
  <2>1. TypeProgram'
    BY <1>4 DEF TypeOK, TypeProgram, PrepareThrows
  <2>2. TypeQueues' /\ TypeFlags' /\ TypeWorkers' /\ TypeEvaluate'
    BY <1>4, FrameQueues, FrameFlags, FrameWorkers, FrameEvaluate DEF TypeOK, PrepareThrows
  <2> QED
    BY <2>1, <2>2 DEF TypeOK
<1>5. CASE PrepareEnds
  <2>1. TypeProgram'
    BY <1>5 DEF TypeOK, TypeProgram, PrepareEnds
  <2>2. TypeFlags'
    BY <1>5 DEF TypeOK, TypeFlags, PrepareEnds
  <2>3. TypeQueues' /\ TypeWorkers' /\ TypeEvaluate'
    BY <1>5, FrameQueues, FrameWorkers, FrameEvaluate DEF TypeOK, PrepareEnds
  <2> QED
    BY <2>1, <2>2, <2>3 DEF TypeOK
<1>6. CASE LaunchThreads
  <2>1. TypeProgram'
    BY <1>6 DEF TypeOK, TypeProgram, LaunchThreads
  <2>2. TypeFlags'
    BY <1>6 DEF TypeOK, TypeFlags, LaunchThreads
  <2>3. TypeWorkers'
    BY <1>6, Zenon DEF TypeOK, TypeWorkers, WorkerPcs, Spinning, LaunchThreads
  <2>4. TypeEvaluate'
    BY <1>6, Zenon DEF TypeOK, TypeEvaluate, LaunchThreads
  <2>5. TypeQueues'
    BY <1>6, FrameQueues DEF TypeOK, LaunchThreads
  <2> QED
    BY <2>1, <2>2, <2>3, <2>4, <2>5 DEF TypeOK
<1>7. CASE EndTuningReturns
  <2>1. TypeProgram'
    BY <1>7 DEF TypeOK, TypeProgram, EndTuningReturns
  <2>2. TypeFlags'
    BY <1>7, Zenon DEF TypeOK, TypeFlags, EndTuningReturns, JoinThreads
  <2>3. TypeQueues' /\ TypeWorkers' /\ TypeEvaluate'
    BY <1>7, FrameQueues, FrameWorkers, FrameEvaluate DEF TypeOK, EndTuningReturns
  <2> QED
    BY <2>1, <2>2, <2>3 DEF TypeOK
<1>8. CASE EndTuning \/ Run \/ RunSubgraph \/ RunReturns
  <2>1. TypeProgram'
    BY <1>8 DEF TypeOK, TypeProgram, EndTuning, Run, RunSubgraph, RunReturns
  <2>2. TypeQueues' /\ TypeFlags' /\ TypeWorkers' /\ TypeEvaluate'
    BY <1>8, FrameQueues, FrameFlags, FrameWorkers, FrameEvaluate, Zenon
       DEF TypeOK, EndTuning, Run, RunSubgraph, RunReturns
  <2> QED
    BY <2>1, <2>2 DEF TypeOK
<1> QED
  BY <1>1, <1>2, <1>3, <1>4, <1>5, <1>6, <1>7, <1>8 DEF ProgramThread, Returning

LEMMA TypeStep == PredsCounted /\ TypeOK /\ [Next]_vars => TypeOK'
<1>1. TypeOK /\ UNCHANGED vars => TypeOK'
  BY FrameQueues, FrameFlags, FrameWorkers, FrameEvaluate, FrameProgram DEF TypeOK, vars
<1> QED
  BY <1>1, TypeSchedule, TypeBuild, TypeEvaluateThread, TypeProgramThread DEF Next

-----------------------------------------------------------------------------
\* A thread whose map has no entry for the task was never started.
NeverStarted ==
  /\ ~inMap["sch"] => schPc = "none"
  /\ ~inMap["build"] => bldPc = "none"
  /\ ~inMap["evaluate"] => evPc = "none"

LEMMA StartedStep == TypeOK /\ NeverStarted /\ [Next]_vars => NeverStarted'
<1> SUFFICES ASSUME TypeOK, NeverStarted, [Next]_vars
             PROVE  NeverStarted'
  OBVIOUS
<1> USE DEF NeverStarted
<1>1. CASE UNCHANGED vars
  BY <1>1, Zenon DEF vars, flagVars, schVars, bldVars, evVars
<1>2. CASE ScheduleThread
  BY <1>2, Zenon DEF ScheduleThread, ScheduleTop, ScheduleEmergency, ScheduleNormal,
              ScheduleSucceeds, ScheduleFails, Spinning, flagVars, bldVars, evVars
<1>3. CASE BuildThread
  BY <1>3, Zenon DEF BuildThread, BuildTop, BuildEmergency, BuildNormal, BuildSucceeds, BuildFails,
              BuildFindsNothing, Spinning, flagVars, schVars, evVars
<1>4. CASE EvaluateThread
  BY <1>4, Zenon DEF EvaluateThread, EvaluateIteration, EvaluateSend, EvaluatePass, EvaluatePassEnds,
              EvaluateHelper, flagVars, schVars, bldVars
<1>5. CASE LaunchThreads
  BY <1>5, Zenon DEF LaunchThreads, Threads
<1>6. CASE EndTuningReturns
  BY <1>6, Zenon DEF EndTuningReturns, JoinThreads, TypeOK, TypeFlags, Threads, workerVars, schVars,
              bldVars, evVars
<1>7. CASE ProgramThread /\ ~LaunchThreads /\ ~EndTuningReturns
  BY <1>7, Zenon DEF ProgramThread, Returning, BeginTuning, TestScheduleReference, PrepareSubgraph,
              PrepareThrows, PrepareEnds, EndTuning, Run, RunSubgraph, RunReturns, flagVars,
              workerVars, schVars, bldVars, evVars
<1> QED
  BY <1>1, <1>2, <1>3, <1>4, <1>5, <1>6, <1>7, Zenon DEF Next

-----------------------------------------------------------------------------
(***************************************************************************)
(* The request pipeline.  OneRequestInFlight is inductive together with    *)
(* the types: a step either moves the one request one place further, or    *)
(* consumes it and requests anew, or leaves it alone.                      *)
(***************************************************************************)

pipeVars == <<emSchQ, nmSchQ, future, schPc, schKey, bldPc, bldKey>>

LEMMA FramePipe ==
  OneRequestInFlight /\ UNCHANGED pipeVars => OneRequestInFlight'
  BY Zenon DEF OneRequestInFlight, NothingInFlight, OnlyInFlight, NoFuture, pipeVars

LEMMA PipeInit == Init => OneRequestInFlight
  BY Zenon DEF Init, OneRequestInFlight, NothingInFlight, NoFuture, Spinning

LEMMA PipeSchedule ==
  TypeOK /\ OneRequestInFlight /\ ScheduleThread => OneRequestInFlight'
<1> SUFFICES ASSUME TypeOK, OneRequestInFlight, ScheduleThread
             PROVE  OneRequestInFlight'
  OBVIOUS
<1> USE DEF OneRequestInFlight, NothingInFlight, OnlyInFlight, NoFuture, Spinning
<1>1. CASE ScheduleTop
  BY <1>1, Zenon DEF ScheduleTop, queueVars, bldVars
<1>2. CASE ScheduleEmergency
  <2>1. CASE emSchQ = <<>>
    BY <1>2, <2>1, Zenon DEF ScheduleEmergency, bldVars
  <2>2. CASE emSchQ # <<>>
    <3>1. PICK k \in Keys : emSchQ = <<k>> /\ nmSchQ = <<>> /\ schPc \notin Spinning /\ NoFuture
      BY <2>2, Zenon
    <3>2. emSchQ' = <<>> /\ nmSchQ' = <<>> /\ schPc' = "emSpin" /\ schKey' = k /\ NoFuture'
      BY <1>2, <3>1 DEF ScheduleEmergency
    <3>3. bldPc \in Spinning => bldKey = k
      BY <3>1, Zenon
    <3> QED
      BY <1>2, <3>1, <3>2, <3>3, Zenon DEF ScheduleEmergency, bldVars
  <2> QED
    BY <2>1, <2>2, Zenon
<1>3. CASE ScheduleNormal
  <2>1. CASE nmSchQ = <<>>
    BY <1>3, <2>1, Zenon DEF ScheduleNormal, bldVars
  <2>2. CASE nmSchQ # <<>>
    <3>1. PICK k \in Keys : emSchQ = <<>> /\ nmSchQ = <<k>> /\ schPc \notin Spinning /\ NoFuture
      BY <2>2, Zenon
    <3>2. emSchQ' = <<>> /\ nmSchQ' = <<>> /\ schPc' = "nmSpin" /\ schKey' = k /\ NoFuture'
      BY <1>3, <3>1 DEF ScheduleNormal
    <3>3. bldPc \in Spinning => bldKey = k
      BY <3>1, Zenon
    <3> QED
      BY <1>3, <3>1, <3>2, <3>3, Zenon DEF ScheduleNormal, bldVars
  <2> QED
    BY <2>1, <2>2, Zenon
<1>4. CASE ScheduleSucceeds
  <2>1. /\ schKey \in Keys /\ emSchQ = <<>> /\ nmSchQ = <<>> /\ NoFuture
        /\ bldPc \in Spinning => bldKey = schKey
        /\ bldPc \in Spinning \cup {"done"}
    BY <1>4, Zenon DEF ScheduleSucceeds
  <2>2. future'[schKey] = 1 /\ \A j \in Keys \ {schKey} : future'[j] = 0
    BY <1>4, <2>1 DEF ScheduleSucceeds, TypeOK, TypeQueues
  <2>3. OnlyInFlight(schKey)'
    BY <1>4, <2>1, <2>2, Zenon DEF ScheduleSucceeds, queueVars
  <2> QED
    BY <1>4, <2>1, <2>3, Zenon DEF ScheduleSucceeds, bldVars
<1>5. CASE ScheduleFails
  BY <1>5, Zenon DEF ScheduleFails, queueVars, bldVars
<1> QED
  BY <1>1, <1>2, <1>3, <1>4, <1>5, Zenon DEF ScheduleThread

LEMMA PipeBuild ==
  TypeOK /\ OneRequestInFlight /\ BuildThread => OneRequestInFlight'
<1> SUFFICES ASSUME TypeOK, OneRequestInFlight, BuildThread
             PROVE  OneRequestInFlight'
  OBVIOUS
<1> USE DEF OneRequestInFlight, NothingInFlight, OnlyInFlight, NoFuture, Spinning
<1>1. CASE BuildTop
  BY <1>1, Zenon DEF BuildTop, queueVars, schVars
<1>2. CASE BuildEmergency
  <2>1. CASE emBldQ = <<>>
    BY <1>2, <2>1, Zenon DEF BuildEmergency, schVars
  <2>2. CASE emBldQ # <<>>
    <3>1. NothingInFlight
      BY <1>2, Zenon DEF BuildEmergency
    <3>2. Head(emBldQ) \in Keys
      BY <2>2, PopFacts, Zenon DEF TypeOK, TypeQueues
    <3>3. /\ bldPc' = "emSpin" /\ bldKey' = Head(emBldQ) /\ emSchQ' = <<Head(emBldQ)>>
          /\ UNCHANGED <<nmSchQ, future, schPc>>
      BY <1>2, <2>2, <3>1 DEF BuildEmergency, schVars
    <3> QED
      BY <3>1, <3>2, <3>3, Zenon
  <2> QED
    BY <2>1, <2>2, Zenon
<1>3. CASE BuildNormal
  <2>1. CASE nmBldQ = <<>>
    BY <1>3, <2>1, Zenon DEF BuildNormal, schVars
  <2>2. CASE nmBldQ # <<>>
    <3>1. NothingInFlight
      BY <1>3, Zenon DEF BuildNormal
    <3>2. Head(nmBldQ) \in Keys
      BY <2>2, PopFacts, Zenon DEF TypeOK, TypeQueues
    <3>3. /\ bldPc' = "nmSpin" /\ bldKey' = Head(nmBldQ) /\ nmSchQ' = <<Head(nmBldQ)>>
          /\ UNCHANGED <<emSchQ, future, schPc>>
      BY <1>3, <2>2, <3>1 DEF BuildNormal, schVars
    <3> QED
      BY <3>1, <3>2, <3>3, Zenon
  <2> QED
    BY <2>1, <2>2, Zenon
<1>4. ASSUME bldPc \in Spinning, future[bldKey] > 0
      PROVE  /\ bldKey \in Keys /\ emSchQ = <<>> /\ nmSchQ = <<>> /\ schPc \notin Spinning
             /\ future[bldKey] = 1 /\ \A j \in Keys \ {bldKey} : future[j] = 0
  BY <1>4 DEF TypeOK, TypeWorkers, TypeQueues
<1>5. CASE BuildSucceeds
  <2>1. /\ bldKey \in Keys /\ emSchQ = <<>> /\ nmSchQ = <<>> /\ schPc \notin Spinning
        /\ future[bldKey] = 1 /\ \A j \in Keys \ {bldKey} : future[j] = 0
    BY <1>4, <1>5, Zenon DEF BuildSucceeds
  <2>2. NoFuture'
    BY <1>5, <2>1 DEF BuildSucceeds, TypeOK, TypeQueues
  <2>3. NothingInFlight'
    BY <1>5, <2>1, <2>2, Zenon DEF BuildSucceeds, queueVars, schVars
  <2>4. bldPc' \notin Spinning
    BY <1>5, Zenon DEF BuildSucceeds
  <2> QED
    BY <2>3, <2>4, Zenon
<1>6. CASE BuildFails
  <2>1. /\ bldKey \in Keys /\ emSchQ = <<>> /\ nmSchQ = <<>> /\ schPc \notin Spinning
        /\ future[bldKey] = 1 /\ \A j \in Keys \ {bldKey} : future[j] = 0
    BY <1>4, <1>6, Zenon DEF BuildFails
  <2>2. NoFuture'
    <3>1. future \in [Keys -> Nat]
      BY Zenon DEF TypeOK, TypeQueues
    <3>2. future' = [future EXCEPT ![bldKey] = @ - 1]
      BY <1>6, Zenon DEF BuildFails
    <3> QED
      BY <2>1, <3>1, <3>2
  <2>3. Append(<<>>, bldKey) = <<bldKey>>
    BY <2>1
  <2>4. \/ emSchQ' = <<bldKey>> /\ nmSchQ' = <<>>
        \/ emSchQ' = <<>> /\ nmSchQ' = <<bldKey>>
    BY <1>6, <2>1, <2>3, Zenon DEF BuildFails
  <2>5. OnlyInFlight(bldKey)'
    BY <1>6, <2>1, <2>2, <2>4, Zenon DEF BuildFails, schVars
  <2>6. bldKey' = bldKey /\ bldPc' \in Spinning \cup {"done"}
    BY <1>6, Zenon DEF BuildFails
  <2> QED
    BY <2>1, <2>5, <2>6, Zenon
<1>7. CASE BuildFindsNothing
  BY <1>7, Zenon DEF BuildFindsNothing, queueVars, schVars
<1> QED
  BY <1>1, <1>2, <1>3, <1>5, <1>6, <1>7, Zenon DEF BuildThread

LEMMA PipeStep ==
  TypeOK /\ NeverStarted /\ OneRequestInFlight /\ [Next]_vars => OneRequestInFlight'
<1> SUFFICES ASSUME TypeOK, NeverStarted, OneRequestInFlight, [Next]_vars
             PROVE  OneRequestInFlight'
  OBVIOUS
<1>1. CASE UNCHANGED vars
  BY <1>1, FramePipe, Zenon DEF vars, pipeVars, queueVars, schVars, bldVars
<1>2. CASE EvaluateThread
  BY <1>2, FramePipe, Zenon DEF EvaluateThread, EvaluateIteration, EvaluateSend, EvaluatePass,
     EvaluatePassEnds, EvaluateHelper, pipeVars, queueVars, schVars, bldVars
<1>3. CASE LaunchThreads
  BY <1>3, Zenon DEF LaunchThreads, NeverStarted, OneRequestInFlight, NothingInFlight, OnlyInFlight,
              NoFuture, Spinning, queueVars
<1>4. CASE ProgramThread /\ ~LaunchThreads
  BY <1>4, FramePipe, Zenon DEF ProgramThread, Returning, BeginTuning, TestScheduleReference,
     PrepareSubgraph, PrepareThrows, PrepareEnds, EndTuning, EndTuningReturns, Run, RunSubgraph,
     RunReturns, pipeVars, queueVars, workerVars, schVars, bldVars
<1> QED
  BY <1>1, <1>2, <1>3, <1>4, PipeSchedule, PipeBuild DEF Next

-----------------------------------------------------------------------------
(***************************************************************************)
(* The best functions of a session that is tuned and loads no reference.   *)
(* Only the first subgraph of each tag is ever built and measured; the     *)
(* others take its function over.  So no subgraph is better than the first *)
(* of its tag, and taking over cannot lose anything.                       *)
(***************************************************************************)
NoReference == mainPc # "prepare"

OnlyFirstsAreBuilt ==
  /\ emBldQ \in Seq(UniqueKeys) /\ nmBldQ \in Seq(UniqueKeys)
  /\ bldPc \in Spinning => bldKey \in UniqueKeys
  /\ \A k \in Keys : built[k] > 0 => k \in UniqueKeys
  /\ \A t \in Tags : cache[t] # NoKey => cache[t] \in UniqueKeys /\ Tag[cache[t]] = t

FirstIsBest ==
  /\ \A k \in Keys : Len(best[k]) \in {0, 1}
  /\ \A k \in Keys, u \in UniqueKeys :
       Tag[k] = Tag[u] /\ best[k] # <<>> =>
         best[u] # <<>> /\ Head(best[k]) <= Head(best[u])

BestInv == NoReference /\ OnlyFirstsAreBuilt /\ FirstIsBest

LEMMA UniqueAreKeys == UniqueKeys \subseteq Keys
<1> SUFFICES ASSUME NEW i \in 1 .. Len(CallOrder) PROVE CallOrder[i] \in Keys
  BY DEF UniqueKeys
<1> QED BY CallOrderAssumption

\* There is one first subgraph of a tag.
LEMMA OneFirst ==
  ASSUME NEW u \in UniqueKeys, NEW v \in UniqueKeys, Tag[u] = Tag[v]
  PROVE  u = v
<1>1. PICK i \in 1 .. Len(CallOrder) : FirstOfTag(i) /\ CallOrder[i] = u
  BY Zenon DEF UniqueKeys
<1>2. PICK j \in 1 .. Len(CallOrder) : FirstOfTag(j) /\ CallOrder[j] = v
  BY DEF UniqueKeys
<1>3. ~(i < j)  BY <1>1, <1>2 DEF FirstOfTag
<1>4. ~(j < i)  BY <1>1, <1>2 DEF FirstOfTag
<1> QED BY <1>1, <1>2, <1>3, <1>4

\* A queue of at most one function holds the new one after ReplaceFront.
LEMMA ReplaceOnly ==
  ASSUME NEW q \in Seq(Perf), Len(q) \in {0, 1}, NEW p \in Perf
  PROVE  ReplaceFront(q, p) = <<p>>
<1>1. CASE q = <<>>  BY <1>1 DEF ReplaceFront
<1>2. CASE q # <<>>
  <2>1. Len(q) \in Nat /\ Len(q) >= 1  BY <1>2
  <2>2. Len(q) = 1  BY <2>1
  <2> DEFINE a == Append(q, p)
             t == Tail(a)
  <2>3. a \in Seq(Perf) /\ Len(a) = Len(q) + 1 /\ a[Len(q) + 1] = p  OBVIOUS
  <2>4. a # <<>> /\ Len(a) = 2 /\ a[2] = p  BY <2>2, <2>3
  <2> HIDE DEF a
  <2>6. t \in Seq(Perf) /\ Len(t) = Len(a) - 1 /\ \A i \in 1 .. Len(a) - 1 : t[i] = a[i + 1]
    BY <2>3, <2>4
  <2>7. Len(t) = 1 /\ t[1] = p  BY <2>4, <2>6
  <2> HIDE DEF t
  <2>8. <<p>> \in Seq(Perf) /\ Len(<<p>>) = 1 /\ <<p>>[1] = p  OBVIOUS
  <2>9. t = <<p>>  BY <2>6, <2>7, <2>8
  <2>5. Tail(Append(q, p)) = <<p>>  BY <2>9 DEF t, a
  <2> QED BY <1>2, <2>5 DEF ReplaceFront
<1> QED BY <1>1, <1>2

\* The best functions get a new one for j, as good as what the first subgraph of
\* its tag has afterwards.
LEMMA NewBest ==
  ASSUME TypeOK, FirstIsBest, NEW j \in Keys, NEW p \in Perf,
         best' = [best EXCEPT ![j] = ReplaceFront(@, p)],
         best[j] # <<>> => Head(best[j]) <= p,
         \/ j \in UniqueKeys
         \/ \A u \in UniqueKeys : Tag[u] = Tag[j] => best[u] # <<>> /\ p <= Head(best[u])
  PROVE  /\ FirstIsBest'
         /\ \A k \in Keys : best[k] # <<>> => best'[k] # <<>> /\ Head(best'[k]) >= Head(best[k])
<1>1. \A k \in Keys : best[k] \in Seq(Perf) /\ Len(best[k]) \in {0, 1}
  BY Zenon DEF TypeOK, TypeQueues, FirstIsBest
<1>2. \A k \in Keys : best[k] # <<>> => Head(best[k]) \in Int
  BY <1>1, FrontFacts, SessionAssumption DEF Perf
<1>3. p \in Int  BY SessionAssumption DEF Perf
<1>4. ReplaceFront(best[j], p) = <<p>>  BY <1>1, ReplaceOnly, Zenon
<1>5. \A k \in Keys : best'[k] = IF k = j THEN <<p>> ELSE best[k]
  BY <1>4 DEF TypeOK, TypeQueues
<1>6. best'[j] # <<>> /\ Head(best'[j]) = p /\ Len(best'[j]) = 1
  BY <1>5
<1>7. \A k \in Keys \ {j} : best'[k] = best[k]  BY <1>5, Zenon
<1>8. \A k \in Keys : best[k] # <<>> => best'[k] # <<>> /\ Head(best'[k]) >= Head(best[k])
  <2> SUFFICES ASSUME NEW k \in Keys, best[k] # <<>>
               PROVE  best'[k] # <<>> /\ Head(best'[k]) >= Head(best[k])
    BY Zenon
  <2>1. CASE k = j  BY <1>2, <1>3, <1>6, <2>1, Zenon
  <2>2. CASE k # j  BY <1>2, <1>7, <2>2
  <2> QED BY <2>1, <2>2, Zenon
<1>9. \A k \in Keys : Len(best'[k]) \in {0, 1}
  <2> SUFFICES ASSUME NEW k \in Keys PROVE Len(best'[k]) \in {0, 1}  OBVIOUS
  <2>1. CASE k = j  BY <1>6, <2>1
  <2>2. CASE k # j  BY <1>1, <1>7, <2>2
  <2> QED BY <2>1, <2>2
<1>10. ASSUME NEW k \in Keys, NEW u \in UniqueKeys, Tag[k] = Tag[u], best'[k] # <<>>
       PROVE  best'[u] # <<>> /\ Head(best'[k]) <= Head(best'[u])
  <2>0. u \in Keys  BY UniqueAreKeys
  <2>1. CASE k = j /\ u = j  BY <1>3, <1>6, <2>1
  <2>2. CASE k = j /\ u # j
    <3>1. best[u] # <<>> /\ p <= Head(best[u])
      BY <1>10, <2>2, OneFirst, Zenon
    <3> QED BY <1>6, <1>7, <2>0, <2>2, <3>1, Zenon
  <2>3. CASE k # j
    <3>1. best[k] # <<>> /\ Head(best'[k]) = Head(best[k])  BY <1>7, <1>10, <2>3, Zenon
    <3>2. best[u] # <<>> /\ Head(best[k]) <= Head(best[u])
      BY <1>10, <3>1, Zenon DEF FirstIsBest
    <3>3. best'[u] # <<>> /\ Head(best'[u]) >= Head(best[u])  BY <1>8, <2>0, <3>2, Zenon
    <3>4. Head(best'[u]) \in Int
      <4>1. CASE u = j  BY <1>3, <1>6, <4>1
      <4>2. CASE u # j  BY <1>2, <1>7, <2>0, <3>2, <4>2, Zenon
      <4> QED BY <4>1, <4>2, Zenon
    <3> QED BY <1>2, <2>0, <3>1, <3>2, <3>3, <3>4
  <2> QED BY <2>1, <2>2, <2>3, Zenon
<1>11. FirstIsBest'
  <2>1. UniqueKeys' = UniqueKeys  BY Zenon DEF UniqueKeys, FirstOfTag
  <2> QED BY <1>9, <1>10, <2>1, Zenon DEF FirstIsBest
<1> QED BY <1>8, <1>11, Zenon

BestGrows ==
  \A k \in Keys : best[k] # <<>> => best'[k] # <<>> /\ Head(best'[k]) >= Head(best[k])

\* Steps that leave the best functions alone.
LEMMA SameBest ==
  ASSUME TypeOK, FirstIsBest, best' = best
  PROVE  FirstIsBest' /\ BestGrows
<1>1. \A k \in Keys : best[k] # <<>> => Head(best[k]) \in Int
  BY FrontFacts, SessionAssumption DEF TypeOK, TypeQueues, Perf
<1>2. UniqueKeys' = UniqueKeys  BY DEF UniqueKeys, FirstOfTag
<1> QED BY <1>1, <1>2 DEF FirstIsBest, BestGrows

LEMMA BestHelper ==
  ASSUME TypeOK, BestInv, NEW j \in Keys, EvaluateHelper(j)
  PROVE  FirstIsBest' /\ BestGrows
<1>1. FirstIsBest /\ OnlyFirstsAreBuilt  BY DEF BestInv
<1>2. CASE EvaluateRepeated(j)
  <2> DEFINE u == cache[Tag[j]]
             p == Head(best[u])
  <2>1. u # NoKey /\ best[u] # <<>> /\ best' = [best EXCEPT ![j] = ReplaceFront(@, p)]
    BY <1>2, Zenon DEF EvaluateRepeated, HasRepeated
  <2>2. Tag[j] \in Tags  BY GraphAssumption
  <2>3. u \in UniqueKeys /\ Tag[u] = Tag[j] /\ u \in Keys
    BY <1>1, <2>1, <2>2, UniqueAreKeys, Zenon DEF OnlyFirstsAreBuilt
  <2>4. p \in Perf  BY <2>1, <2>3, FrontFacts, Zenon DEF TypeOK, TypeQueues
  <2>5. best[j] # <<>> => Head(best[j]) <= p
    BY <1>1, <2>3, Zenon DEF FirstIsBest
  <2>6. \A v \in UniqueKeys : Tag[v] = Tag[j] => v = u
    BY <2>3, OneFirst, Zenon
  <2>7. p <= p  BY <2>4, SessionAssumption DEF Perf
  <2>8. \A v \in UniqueKeys : Tag[v] = Tag[j] => best[v] # <<>> /\ p <= Head(best[v])
    BY <2>1, <2>6, <2>7, Zenon
  <2> HIDE DEF u, p
  <2>9. \E z \in Perf : z = p  BY <2>4
  <2> QED BY <1>1, <2>1, <2>5, <2>8, <2>9, NewBest, Zenon DEF BestGrows
<1>3. ASSUME NEW perf \in Perf, EvaluateMeasured(j), MeasureSucceeds(j, perf)
      PROVE  FirstIsBest' /\ BestGrows
  <2>1. j \in UniqueKeys  BY <1>1, <1>3, Zenon DEF EvaluateMeasured, OnlyFirstsAreBuilt
  <2>2. CASE best[j] = <<>> \/ perf > Head(best[j])
    <3>1. best' = [best EXCEPT ![j] = ReplaceFront(@, perf)]
      BY <1>3, <2>2 DEF MeasureSucceeds
    <3>2. best[j] # <<>> => Head(best[j]) <= perf
      <4>1. best[j] # <<>> => Head(best[j]) \in Int
        BY FrontFacts, SessionAssumption DEF TypeOK, TypeQueues, Perf
      <4> QED BY <2>2, <4>1, SessionAssumption DEF Perf
    <3> QED BY <1>1, <2>1, <3>1, <3>2, NewBest, Zenon DEF BestGrows
  <2>3. CASE ~(best[j] = <<>> \/ perf > Head(best[j]))
    <3>1. best' = best  BY <1>3, <2>3 DEF MeasureSucceeds
    <3> QED BY <1>1, <3>1, SameBest
  <2> QED BY <2>2, <2>3, Zenon
<1>4. CASE best' = best  BY <1>1, <1>4, SameBest
<1> QED BY <1>2, <1>3, <1>4, Zenon DEF EvaluateHelper, EvaluateMeasured, EvaluateFindsNothing, MeasureFails

LEMMA FrameBuilt ==
  ASSUME OnlyFirstsAreBuilt, UNCHANGED <<emBldQ, nmBldQ, built, cache>>,
         bldPc' \in Spinning => bldPc \in Spinning /\ bldKey' = bldKey
  PROVE  OnlyFirstsAreBuilt'
<1>1. UniqueKeys' = UniqueKeys  BY Zenon DEF UniqueKeys, FirstOfTag
<1> QED BY <1>1, Zenon DEF OnlyFirstsAreBuilt

LEMMA BuiltBuild ==
  ASSUME TypeOK, OnlyFirstsAreBuilt, BuildThread
  PROVE  OnlyFirstsAreBuilt'
<1>0. UniqueKeys' = UniqueKeys  BY DEF UniqueKeys, FirstOfTag
<1>1. cache' = cache
  BY Zenon DEF BuildThread, BuildTop, BuildEmergency, BuildNormal, BuildSucceeds, BuildFails,
     BuildFindsNothing, evVars
<1>2. CASE BuildTop \/ BuildFails \/ BuildFindsNothing
  <2>1. /\ UNCHANGED <<emBldQ, nmBldQ, built, bldKey>>
        /\ bldPc' \in Spinning => bldPc \in Spinning
    BY <1>2, Zenon DEF BuildTop, BuildFails, BuildFindsNothing, queueVars, Spinning
  <2> QED BY <1>1, <2>1, FrameBuilt
<1>3. CASE BuildEmergency
  <2>1. CASE emBldQ = <<>>
    BY <1>1, <1>3, <2>1, FrameBuilt DEF BuildEmergency, Spinning
  <2>2. CASE emBldQ # <<>>
    <3>1. Head(emBldQ) \in UniqueKeys /\ Tail(emBldQ) \in Seq(UniqueKeys)
      BY <2>2 DEF OnlyFirstsAreBuilt
    <3>2. emBldQ' = Tail(emBldQ) /\ bldKey' = Head(emBldQ) /\ UNCHANGED <<nmBldQ, built>>
      BY <1>3, <2>2 DEF BuildEmergency
    <3> QED BY <1>0, <1>1, <3>1, <3>2, Zenon DEF OnlyFirstsAreBuilt
  <2> QED BY <2>1, <2>2
<1>4. CASE BuildNormal
  <2>1. CASE nmBldQ = <<>>
    BY <1>1, <1>4, <2>1, FrameBuilt DEF BuildNormal, Spinning
  <2>2. CASE nmBldQ # <<>>
    <3>1. Head(nmBldQ) \in UniqueKeys /\ Tail(nmBldQ) \in Seq(UniqueKeys)
      BY <2>2 DEF OnlyFirstsAreBuilt
    <3>2. nmBldQ' = Tail(nmBldQ) /\ bldKey' = Head(nmBldQ) /\ UNCHANGED <<emBldQ, built>>
      BY <1>4, <2>2 DEF BuildNormal
    <3> QED BY <1>0, <1>1, <3>1, <3>2, Zenon DEF OnlyFirstsAreBuilt
  <2> QED BY <2>1, <2>2
<1>5. CASE BuildSucceeds
  <2>1. /\ UNCHANGED <<emBldQ, nmBldQ, bldKey>> /\ bldPc \in Spinning /\ bldPc' \notin Spinning
        /\ built' = [built EXCEPT ![bldKey] = @ + 1]
    BY <1>5 DEF BuildSucceeds, queueVars, Spinning
  <2>2. bldKey \in UniqueKeys  BY <2>1, Zenon DEF OnlyFirstsAreBuilt
  <2>3. \A k \in Keys : built'[k] > 0 => k \in UniqueKeys
    BY <2>1, <2>2, Zenon DEF OnlyFirstsAreBuilt, TypeOK, TypeQueues
  <2> QED BY <1>0, <1>1, <2>1, <2>3, Zenon DEF OnlyFirstsAreBuilt
<1> QED BY <1>2, <1>3, <1>4, <1>5 DEF BuildThread

LEMMA BuiltEvaluate ==
  ASSUME TypeOK, OnlyFirstsAreBuilt, EvaluateThread
  PROVE  OnlyFirstsAreBuilt'
<1>0. UniqueKeys' = UniqueKeys  BY DEF UniqueKeys, FirstOfTag
<1>1. CASE EvaluateIteration
  <2>1. /\ UNCHANGED <<emBldQ, nmBldQ, built, bldPc, bldKey>>
        /\ cache' = cache \/ cache' = [t \in Tags |-> NoKey]
    BY <1>1 DEF EvaluateIteration, queueVars, bldVars
  <2> QED BY <1>0, <2>1 DEF OnlyFirstsAreBuilt
<1>2. CASE EvaluateSend
  <2>1. UNCHANGED <<emBldQ, built, bldPc, bldKey, cache>>
    BY <1>2 DEF EvaluateSend, bldVars
  <2>2. nmBldQ' \in Seq(UniqueKeys)
    <3>1. nmBldQ \in Seq(UniqueKeys)  BY Zenon DEF OnlyFirstsAreBuilt
    <3>2. CASE nmBldQ' = nmBldQ  BY <3>1, <3>2
    <3>3. CASE nmBldQ' # nmBldQ
      <4> DEFINE b == [j \in 1 .. AutoscheduleParallel |-> CallOrder[sendIdx]]
      <4>1. ~(sendIdx > Len(CallOrder)) /\ FirstOfTag(sendIdx) /\ nmBldQ' = nmBldQ \o b
        BY <1>2, <3>3, Zenon DEF EvaluateSend
      <4>2. sendIdx \in 1 .. Len(CallOrder)
        BY <4>1, CallOrderAssumption DEF TypeOK, TypeEvaluate
      <4>3. CallOrder[sendIdx] \in UniqueKeys  BY <4>1, <4>2 DEF UniqueKeys
      <4>4. b \in Seq(UniqueKeys)  BY <4>3, SessionAssumption
      <4> HIDE DEF b
      <4> QED BY <3>1, <4>1, <4>4
    <3> QED BY <3>2, <3>3
  <2> QED BY <1>0, <2>1, <2>2, Zenon DEF OnlyFirstsAreBuilt
<1>3. CASE EvaluatePass \/ EvaluatePassEnds
  BY <1>3, FrameBuilt, Zenon DEF EvaluatePass, EvaluatePassEnds, queueVars, bldVars
<1>4. ASSUME NEW j \in Keys, EvaluateHelper(j) PROVE OnlyFirstsAreBuilt'
  <2>1. UNCHANGED <<nmBldQ, bldPc, bldKey>>  BY <1>4 DEF EvaluateHelper, bldVars
  <2>2. CASE EvaluateRepeated(j) \/ EvaluateFindsNothing(j)
    BY <2>1, <2>2, FrameBuilt DEF EvaluateRepeated, EvaluateFindsNothing
  <2>3. CASE EvaluateMeasured(j)
    <3>1. j \in UniqueKeys /\ built[j] \in Nat
      BY <2>3, Zenon DEF EvaluateMeasured, OnlyFirstsAreBuilt, TypeOK, TypeQueues
    <3>2. \A k \in Keys : built'[k] > 0 => k \in UniqueKeys
      BY <2>3, <3>1, Zenon DEF EvaluateMeasured, OnlyFirstsAreBuilt, TypeOK, TypeQueues
    <3>3. emBldQ \in Seq(UniqueKeys)  BY Zenon DEF OnlyFirstsAreBuilt
    <3>4. CASE MeasureFails(j)
      <4> DEFINE b == [i \in 1 .. Taken(j) |-> j]
      <4>1. emBldQ' = emBldQ \o b /\ cache' = cache  BY <3>4 DEF MeasureFails
      <4>2. Taken(j) \in Nat  BY <3>1, SessionAssumption, Zenon DEF Taken
      <4>3. b \in Seq(UniqueKeys)  BY <3>1, <4>2
      <4> HIDE DEF b
      <4>4. emBldQ' \in Seq(UniqueKeys)  BY <3>3, <4>1, <4>3
      <4> QED BY <1>0, <2>1, <3>2, <4>1, <4>4, Zenon DEF OnlyFirstsAreBuilt
    <3>5. ASSUME NEW perf \in Perf, MeasureSucceeds(j, perf) PROVE OnlyFirstsAreBuilt'
      <4>1. emBldQ' = emBldQ /\ cache' = [cache EXCEPT ![Tag[j]] = j]
        BY <3>5 DEF MeasureSucceeds
      <4>2. \A t \in Tags : cache'[t] # NoKey => cache'[t] \in UniqueKeys /\ Tag[cache'[t]] = t
        BY <3>1, <4>1, GraphAssumption, Zenon DEF OnlyFirstsAreBuilt, TypeOK, TypeEvaluate
      <4> QED BY <1>0, <2>1, <3>2, <4>1, <4>2, Zenon DEF OnlyFirstsAreBuilt
    <3> QED BY <2>3, <3>4, <3>5 DEF EvaluateMeasured
  <2> QED BY <1>4, <2>2, <2>3 DEF EvaluateHelper
<1> QED BY <1>1, <1>2, <1>3, <1>4 DEF EvaluateThread

LEMMA BestStep ==
  ASSUME References = {}, TypeOK, BestInv, [Next]_vars
  PROVE  BestInv' /\ BestGrows
<1>0. NoReference /\ OnlyFirstsAreBuilt /\ FirstIsBest  BY DEF BestInv
<1>1. CASE ScheduleThread
  <2>1. UNCHANGED <<emBldQ, nmBldQ, built, cache, bldPc, bldKey, best, mainPc>>
    BY <1>1, Zenon DEF ScheduleThread, ScheduleTop, ScheduleEmergency, ScheduleNormal,
       ScheduleSucceeds, ScheduleFails, queueVars, bldVars, evVars, mainVars
  <2> QED BY <1>0, <2>1, SameBest, FrameBuilt DEF BestInv, NoReference
<1>2. CASE BuildThread
  <2>1. UNCHANGED <<best, mainPc>>
    BY <1>2, Zenon DEF BuildThread, BuildTop, BuildEmergency, BuildNormal, BuildSucceeds,
       BuildFails, BuildFindsNothing, mainVars
  <2> QED BY <1>0, <1>2, <2>1, SameBest, BuiltBuild DEF BestInv, NoReference
<1>3. CASE EvaluateThread
  <2>1. mainPc' = mainPc
    BY <1>3, Zenon DEF EvaluateThread, EvaluateIteration, EvaluateSend, EvaluatePass,
       EvaluatePassEnds, EvaluateHelper, mainVars
  <2>2. FirstIsBest' /\ BestGrows
    <3>1. ASSUME NEW j \in Keys, EvaluateHelper(j) PROVE FirstIsBest' /\ BestGrows
      BY <3>1, BestHelper
    <3>2. CASE EvaluateIteration \/ EvaluateSend \/ EvaluatePass \/ EvaluatePassEnds
      <4>1. best' = best
        BY <3>2, Zenon DEF EvaluateIteration, EvaluateSend, EvaluatePass, EvaluatePassEnds
      <4> QED BY <1>0, <4>1, SameBest
    <3> QED BY <1>3, <3>1, <3>2 DEF EvaluateThread
  <2> QED BY <1>0, <1>3, <2>1, <2>2, BuiltEvaluate DEF BestInv, NoReference
<1>4. CASE ProgramThread
  <2>1. ~PrepareSubgraph /\ ~PrepareThrows /\ ~PrepareEnds
    BY <1>0, Zenon DEF NoReference, PrepareSubgraph, PrepareThrows, PrepareEnds
  <2>2. ~TestScheduleReference  BY DEF TestScheduleReference
  <2>3. BeginTuning => mainPc' = "launch"  BY DEF BeginTuning
  <2>4. mainPc' # "prepare"
    BY <1>0, <1>4, <2>1, <2>2, <2>3, Zenon DEF ProgramThread, Returning, LaunchThreads, EndTuning,
       EndTuningReturns, Run, RunSubgraph, RunReturns, NoReference
  <2>5. best' = best
    BY <1>4, <2>1, <2>2, Zenon DEF ProgramThread, Returning, BeginTuning, LaunchThreads, EndTuning,
       EndTuningReturns, Run, RunSubgraph, RunReturns
  <2>6. UNCHANGED <<emBldQ, nmBldQ, built, cache, bldKey>> /\ bldPc' \in {bldPc, "top"}
    <3>1. CASE LaunchThreads
      BY <3>1, Zenon DEF LaunchThreads, queueVars
    <3>2. CASE ~LaunchThreads
      <4>1. UNCHANGED <<emBldQ, nmBldQ, built, cache, bldKey, bldPc>>
        BY <1>4, <2>1, <2>2, <3>2, Zenon DEF ProgramThread, Returning, BeginTuning, EndTuning,
           EndTuningReturns, Run, RunSubgraph, RunReturns, queueVars, workerVars, bldVars, evVars
      <4> QED BY <4>1
    <3> QED BY <3>1, <3>2
  <2>7. bldPc' \in Spinning => bldPc \in Spinning  BY <2>6 DEF Spinning
  <2> QED BY <1>0, <2>4, <2>5, <2>6, <2>7, SameBest, FrameBuilt, Zenon DEF BestInv, NoReference
<1>5. CASE UNCHANGED vars
  <2>1. UNCHANGED <<emBldQ, nmBldQ, built, cache, bldPc, bldKey, best, mainPc>>
    BY <1>5, Zenon DEF vars, queueVars, bldVars, evVars, mainVars
  <2> QED BY <1>0, <2>1, SameBest, FrameBuilt DEF BestInv, NoReference
<1> QED BY <1>1, <1>2, <1>3, <1>4, <1>5 DEF Next

LEMMA LifeStep ==
  ASSUME References = {}, PredsCounted, TypeOK, BestInv, [LifeNext]_lifeVars
  PROVE  TypeOK' /\ BestInv' /\ (life' \in {"alive", "ending"} => BestGrows)
<1>1. CASE [Next]_vars
  BY <1>1, TypeStep, BestStep
<1>2. CASE DeleteSession
  <2>1. /\ UNCHANGED <<emSchQ, nmSchQ, emBldQ, nmBldQ, cache, bldPc, bldKey, mainPc>>
        /\ best' = [k \in Keys |-> <<>>] /\ built' = [k \in Keys |-> 0]
        /\ future' = [k \in Keys |-> 0] /\ life' = "sch"
    BY <1>2, Zenon DEF DeleteSession, queueVars, workerVars, bldVars, evVars, mainVars
  <2>2. TypeQueues'  BY <2>1 DEF TypeOK, TypeQueues
  <2>3. TypeFlags' /\ TypeWorkers' /\ TypeEvaluate' /\ TypeProgram'
    BY <1>2, FrameFlags, FrameWorkers, FrameEvaluate, FrameProgram, Zenon
       DEF DeleteSession, TypeOK, workerVars
  <2>4. UniqueKeys' = UniqueKeys  BY Zenon DEF UniqueKeys, FirstOfTag
  <2>5. OnlyFirstsAreBuilt'
    BY <2>1, <2>4 DEF BestInv, OnlyFirstsAreBuilt
  <2>6. FirstIsBest'  BY <2>1 DEF FirstIsBest
  <2> QED BY <2>1, <2>2, <2>3, <2>5, <2>6, Zenon DEF TypeOK, BestInv, NoReference
<1>3. CASE Join
  <2>1. UNCHANGED <<emBldQ, nmBldQ, built, cache, bldPc, bldKey, best, mainPc>>
    BY <1>3, Zenon DEF Join, queueVars, workerVars, bldVars, evVars, mainVars
  <2>2. TypeFlags'
    <3>1. inMap' \in [Threads -> BOOLEAN]
      BY <1>3, Zenon DEF Join, TypeOK, TypeFlags
    <3>2. UNCHANGED <<finish, inTuning, cached>>  BY <1>3, Zenon DEF Join
    <3> QED BY <3>1, <3>2 DEF TypeOK, TypeFlags
  <2>3. TypeQueues' /\ TypeWorkers' /\ TypeEvaluate' /\ TypeProgram'
    BY <1>3, FrameQueues, FrameWorkers, FrameEvaluate, FrameProgram, Zenon DEF Join, TypeOK, workerVars
  <2>4. FirstIsBest' /\ BestGrows  BY <2>1, SameBest DEF BestInv
  <2>5. OnlyFirstsAreBuilt'  BY <2>1, FrameBuilt DEF BestInv
  <2> QED BY <2>1, <2>2, <2>3, <2>4, <2>5, Zenon DEF TypeOK, BestInv, NoReference
<1>4. CASE UNCHANGED lifeVars
  BY <1>1, <1>4 DEF lifeVars
<1>5. Del => Next  BY DEF Del, Next, ProgramThread
<1>6. Returning => ProgramThread  BY DEF ProgramThread
<1> QED BY <1>1, <1>2, <1>3, <1>4, <1>5, <1>6 DEF LifeNext, Destroy, Next

LEMMA LifeStart == ASSUME LifeInit PROVE TypeOK /\ BestInv
<1>1. TypeOK  BY TypeInit DEF LifeInit
<1>2. OnlyFirstsAreBuilt
  BY DEF LifeInit, Init, OnlyFirstsAreBuilt, Spinning
<1>3. FirstIsBest  BY Zenon DEF LifeInit, Init, FirstIsBest
<1> QED BY <1>1, <1>2, <1>3, Zenon DEF BestInv, NoReference, LifeInit, Init
=============================================================================
