-------------------------- MODULE TensorizeProofs --------------------------
(***************************************************************************)
(* Proofs about the two stages of auto_tensorize: the exploration of the   *)
(* mappings (MappingExploration), for any matchings, any number of rounds  *)
(* and trials, and any number of kills; and the measurement of a batch     *)
(* (MeasureBatch, with the ParallelBuild inside it), for any batch, any    *)
(* pool of build threads and any number of processes. The two share no     *)
(* constant and no variable, so that neither narrows the other.            *)
(***************************************************************************)
EXTENDS MappingExploration, MeasureBatch, TLAPS

-----------------------------------------------------------------------------
(* The exploration                                                           *)

Exploring == {"apply", "search", "record", "redistribute"}
Pcs == Exploring \cup {"filter", "done", "undefined", "failed", "dead"}

Types ==
  /\ pc \in Pcs /\ feasible \subseteq Keys
  /\ DOMAIN contexts \subseteq feasible
  /\ contexts = [k \in DOMAIN contexts |-> contexts[k]]
  /\ \A k \in DOMAIN contexts : contexts[k] = [value |-> contexts[k].value, trials |-> contexts[k].trials]
  /\ pc = "filter" => contexts = <<>> /\ best = Nothing /\ round = 1 /\ match = 1
  /\ log \in [Keys -> Nat]
  /\ best \in [key : Keys \cup {NoKey}, value : Nat]

\* The cursor is on a matching, and what lies behind it in this round, or in an
\* earlier one, has a context.
Visited(i, j) == Matchings[i][j] \in DOMAIN contexts

Progress ==
  /\ pc \in Exploring =>
       /\ \A i \in DOMAIN Matchings : all_mappings(i) # {}
       /\ match \in DOMAIN Matchings /\ round \in Nat \ {0}
       /\ todo \subseteq all_mappings(match)
       /\ \A i \in DOMAIN Matchings : i < match \/ round > 1 => \A j \in all_mappings(i) : Visited(i, j)
       /\ \A j \in all_mappings(match) \ todo : Visited(match, j)
  /\ pc \in {"search", "record"} => mapping \in all_mappings(match) \ todo
  /\ pc = "redistribute" => todo = {}
  /\ pc = "done" => \A i \in DOMAIN Matchings : \A j \in all_mappings(i) : Visited(i, j)

\* A context has what its log has, and the best has seen every context but that
\* of the mapping being searched.
InHand == IF pc \in {"search", "record"} THEN {Record} ELSE {}

Values ==
  /\ \A k \in DOMAIN contexts : contexts[k].value = log[k]
  /\ pc # "dead" => \A k \in DOMAIN contexts \ InHand : log[k] <= best.value
  /\ best.key = NoKey => best.value = NoValue
  /\ best.key # NoKey => best.key \in feasible /\ best.value <= log[best.key]
  /\ pc = "done" => best.key # NoKey
  /\ pc = "failed" =>
        \/ \E i \in DOMAIN Matchings : all_mappings(i) = {}
        \/ \E k \in feasible : log[k] = NoValue

Explored == Types /\ Progress /\ Values

LEMMA MatchingKeys ==
  /\ DOMAIN Matchings = 1 .. Len(Matchings) /\ Len(Matchings) \in Nat
  /\ \A i \in DOMAIN Matchings : \A j \in all_mappings(i) : Matchings[i][j] \in feasible
  /\ \A k \in Keys : \E i \in DOMAIN Matchings : \E j \in DOMAIN Matchings[i] : k = Matchings[i][j]
  BY ExplorationAssumption DEF all_mappings, Keys

LEMMA InitExplored ==
  ASSUME ExploreInit
  PROVE  Explored
<1>1. Types
  BY DEF ExploreInit, Types, Pcs, Nothing, NoValue
<1>2. Progress
  BY DEF ExploreInit, Progress, Exploring
<1>3. Values
  BY DEF ExploreInit, Values, Nothing, NoValue
<1> QED
  BY <1>1, <1>2, <1>3 DEF Explored

LEMMA FilterStep ==
  ASSUME Explored, Filter
  PROVE  Explored'
<1>1. /\ contexts = <<>> /\ best = Nothing /\ round = 1 /\ match = 1
      /\ UNCHANGED <<feasible, round, match, contexts, best, log>> /\ pc = "filter"
  BY DEF Filter, Explored, Types
<1>2. Types'
  BY <1>1 DEF Filter, Explored, Types, Pcs, Exploring
<1>3. CASE Matchings = <<>> \/ \E i \in DOMAIN Matchings : all_mappings(i) = {}
  <2>1. pc' \in {"undefined", "failed"} /\ (pc' = "failed" => \E i \in DOMAIN Matchings : all_mappings(i) = {})
    BY <1>3 DEF Filter
  <2>2. Progress'
    BY <2>1 DEF Progress, Exploring
  <2>3. Values'
    BY <1>1, <2>1 DEF Values, Nothing, NoValue, all_mappings
  <2> QED
    BY <1>2, <2>2, <2>3 DEF Explored
<1>4. CASE Matchings # <<>> /\ \A i \in DOMAIN Matchings : all_mappings(i) # {}
  <2>1. pc' = "apply" /\ todo' = all_mappings(1)
    BY <1>4 DEF Filter
  <2>2. 1 \in DOMAIN Matchings /\ \A i \in DOMAIN Matchings : ~(i < 1)
    BY <1>4, MatchingKeys, ExplorationAssumption
  <2>3. Progress'
    BY <1>1, <1>4, <2>1, <2>2 DEF Progress, Exploring, all_mappings
  <2>4. Values'
    BY <1>1, <2>1 DEF Values, Nothing, NoValue
  <2> QED
    BY <1>2, <2>3, <2>4 DEF Explored
<1> QED
  BY <1>3, <1>4

LEMMA ApplyStep ==
  ASSUME Explored, Apply
  PROVE  Explored'
<1>1. PICK j \in todo : /\ mapping' = j /\ todo' = todo \ {j}
                       /\ Context(Matchings[match][j], tune[match][j])
  BY DEF Apply
<1> DEFINE k == Matchings[match][j]
<1>2. /\ pc = "apply" /\ pc' \in {"search", "record"}
      /\ UNCHANGED <<feasible, round, match, best, log>>
  BY DEF Apply
<1>3. match \in DOMAIN Matchings /\ j \in all_mappings(match) /\ k \in feasible
  BY <1>1, <1>2, MatchingKeys DEF Explored, Progress, Exploring
<1>4. /\ DOMAIN contexts' = DOMAIN contexts \cup {k}
      /\ \A x \in DOMAIN contexts : contexts'[x] = contexts[x]
      /\ k \notin DOMAIN contexts => contexts'[k] = [value |-> log[k], trials |-> tune[match][j]]
      /\ contexts' = [x \in DOMAIN contexts' |-> contexts'[x]]
  BY <1>1 DEF Context
<1>5. Record' = k
  BY <1>1, <1>2 DEF Record
<1>6. Types'
  BY <1>2, <1>3, <1>4 DEF Explored, Types, Pcs, Exploring
<1>7. Progress'
  <2>1. \A i, l : Visited(i, l) => Visited(i, l)'
    BY <1>4 DEF Visited
  <2>2. Visited(match, j)'
    BY <1>2, <1>4 DEF Visited
  <2> QED
    BY <1>1, <1>2, <1>3, <2>1, <2>2, Zenon DEF Explored, Progress, Exploring, all_mappings
<1>8. Values'
  <2>1. \A x \in DOMAIN contexts' : contexts'[x].value = log'[x]
    BY <1>2, <1>4 DEF Explored, Values
  <2>2. \A x \in DOMAIN contexts' \ InHand' : log'[x] <= best'.value
    BY <1>2, <1>4, <1>5 DEF Explored, Values, InHand
  <2> QED
    BY <1>2, <2>1, <2>2 DEF Explored, Values
<1> QED
  BY <1>6, <1>7, <1>8 DEF Explored

LEMMA MeasureStep ==
  ASSUME Explored, Measure
  PROVE  Explored'
<1>1. pc = "search" /\ UNCHANGED <<pc, feasible, cursor, best>>
  BY DEF Measure
<1>2. Record \in DOMAIN contexts /\ Record \in Keys /\ UNCHANGED <<Record, round, match, mapping, todo>>
  BY <1>1 DEF Explored, Progress, Visited, Record, cursor, Types, Exploring
<1>3. PICK v \in NoValue .. MaxValue :
        LET better(old) == IF v > old THEN v ELSE old
        IN  /\ contexts' = [contexts EXCEPT ![Record].value = better(@)]
            /\ log' = [log EXCEPT ![Record] = better(@)]
  BY Zenon DEF Measure
<1>4. v \in Nat
  BY ExplorationAssumption DEF NoValue
<1> DEFINE w == IF v > log[Record] THEN v ELSE log[Record]
<1>5. /\ w \in Nat /\ w >= log[Record] /\ contexts[Record].value = log[Record]
      /\ log \in [Keys -> Nat]
      /\ contexts[Record] = [value |-> contexts[Record].value, trials |-> contexts[Record].trials]
  BY <1>2, <1>4 DEF Explored, Types, Values
<1>6. log' \in [Keys -> Nat] /\ log'[Record] = w /\ \A x \in Keys : x # Record => log'[x] = log[x]
  BY <1>2, <1>3, <1>5
<1>7. /\ DOMAIN contexts' = DOMAIN contexts
      /\ contexts' = [x \in DOMAIN contexts' |-> contexts'[x]]
      /\ \A x \in DOMAIN contexts : x # Record => contexts'[x] = contexts[x]
      /\ contexts'[Record] = [value |-> w, trials |-> contexts[Record].trials]
  BY <1>2, <1>3, <1>5, Zenon
<1>8. Types'
  BY <1>1, <1>2, <1>6, <1>7 DEF Explored, Types
<1>9. Progress'
  <2>1. \A i, l : Visited(i, l)' <=> Visited(i, l)
    BY <1>7 DEF Visited
  <2> QED
    BY <1>1, <1>2, <2>1 DEF Explored, Progress, all_mappings
<1>10. Values'
  <2>1. DOMAIN contexts \subseteq Keys
    BY DEF Explored, Types
  <2>2. \A x \in DOMAIN contexts' : contexts'[x].value = log'[x]
    BY <1>6, <1>7, <2>1 DEF Explored, Values
  <2>3. InHand = {Record} /\ InHand' = {Record}
    BY <1>1, <1>2 DEF InHand
  <2>4. \A x \in DOMAIN contexts' \ InHand' : log'[x] <= best'.value
    BY <1>1, <1>6, <1>7, <2>1, <2>3 DEF Explored, Values
  <2>5. \A x \in Keys : log[x] <= log'[x] /\ log[x] \in Nat /\ log'[x] \in Nat
    BY <1>5, <1>6
  <2>6. best.key # NoKey => best.value <= log'[best.key]
    BY <2>5 DEF Explored, Types, Values
  <2> QED
    BY <1>1, <2>2, <2>4, <2>6 DEF Explored, Values
<1> QED
  BY <1>8, <1>9, <1>10 DEF Explored

LEMMA PassEndsStep ==
  ASSUME Explored, PassEnds
  PROVE  Explored'
<1>1. /\ pc = "search" /\ UNCHANGED <<feasible, round, match, mapping, todo, contexts, best, log>>
      /\ \/ pc' = "record"
         \/ pc' = "failed" /\ contexts[Record].value = NoValue
  BY DEF PassEnds, cursor
<1>2. Record \in DOMAIN contexts /\ Record' = Record
  BY <1>1 DEF Explored, Progress, Visited, Record, Exploring
<1>3. Types'
  BY <1>1 DEF Explored, Types, Pcs, Exploring
<1>4. Progress'
  <2>1. \A i, l : Visited(i, l)' <=> Visited(i, l)
    BY <1>1 DEF Visited
  <2> QED
    BY <1>1, <2>1, Zenon DEF Explored, Progress, all_mappings, Exploring
<1>5. CASE pc' = "record"
  BY <1>1, <1>2, <1>3, <1>4, <1>5 DEF Explored, Values, InHand
<1>6. CASE pc' = "failed" /\ contexts[Record].value = NoValue
  <2>1. Record \in feasible /\ log[Record] = NoValue
    BY <1>2, <1>6 DEF Explored, Types, Values
  <2>2. InHand = {Record} /\ InHand' = {} /\ NoValue <= best.value
    BY <1>1, <1>6 DEF InHand, Explored, Types, NoValue
  <2>3. \A k \in DOMAIN contexts : log[k] <= best.value
    BY <1>1, <2>1, <2>2 DEF Explored, Values
  <2>4. Values'
    BY <1>1, <1>6, <2>1, <2>2, <2>3 DEF Explored, Values
  <2> QED
    BY <1>3, <1>4, <2>4 DEF Explored
<1> QED
  BY <1>1, <1>5, <1>6

LEMMA RecordBestStep ==
  ASSUME Explored, RecordBest
  PROVE  Explored'
<1>1. /\ pc = "record" /\ UNCHANGED <<feasible, round, match, mapping, todo, contexts, log>>
      /\ pc' = IF todo = {} THEN "redistribute" ELSE "apply"
      /\ best' = IF contexts[Record].value > best.value
                 THEN [key |-> Record, value |-> contexts[Record].value] ELSE best
  BY Zenon DEF RecordBest, cursor
<1>2. Record \in DOMAIN contexts /\ Record \in feasible /\ Record \in Keys
  BY <1>1, Zenon DEF Explored, Progress, Visited, Record, Exploring, Types
<1>3. /\ contexts[Record].value = log[Record] /\ log[Record] \in Nat /\ best.value \in Nat
      /\ \A k \in DOMAIN contexts : log[k] \in Nat
  BY <1>2 DEF Explored, Types, Values
<1>4. Types'
  <2>1. best' \in [key : Keys \cup {NoKey}, value : Nat]
    BY <1>1, <1>2, <1>3 DEF Explored, Types
  <2> QED
    BY <1>1, <2>1 DEF Explored, Types, Pcs, Exploring
<1>5. Progress'
  <2>1. \A i, l : Visited(i, l)' <=> Visited(i, l)
    BY <1>1 DEF Visited
  <2> QED
    BY <1>1, <2>1, Zenon DEF Explored, Progress, all_mappings, Exploring
<1>6. Values'
  <2>1. /\ best'.value >= best.value /\ best'.value >= log[Record] /\ best'.value \in Nat
        /\ best'.key = NoKey => best.key = NoKey /\ best' = best
        /\ best'.key # NoKey => best'.key \in feasible /\ best'.value <= log[best'.key]
    <3>1. CASE log[Record] > best.value
      BY <1>1, <1>2, <1>3, <3>1, ExplorationAssumption
    <3>2. CASE ~(log[Record] > best.value)
      BY <1>1, <1>3, <3>2 DEF Explored, Values
    <3> QED
      BY <3>1, <3>2
  <2>2. \A k \in DOMAIN contexts : log[k] <= best'.value
    <3>1. \A k \in DOMAIN contexts \ {Record} : log[k] <= best.value
      BY <1>1 DEF Explored, Values, InHand
    <3> QED
      BY <1>3, <2>1, <3>1
  <2>3. pc' \in {"redistribute", "apply"}
    BY <1>1
  <2> QED
    BY <1>1, <2>1, <2>2, <2>3, Zenon DEF Explored, Values
<1> QED
  BY <1>4, <1>5, <1>6 DEF Explored

LEMMA RedistributeStep ==
  ASSUME Explored, Redistribute
  PROVE  Explored'
<1> DEFINE last == match = Len(Matchings) /\ (pure \/ round = Rounds)
<1>1. /\ pc = "redistribute" /\ UNCHANGED <<feasible, contexts, best, log>>
      /\ Advance(last)
      /\ pc' = IF ~last THEN "apply" ELSE IF best.key = NoKey THEN "failed" ELSE "done"
  BY DEF Redistribute
<1>2. /\ match \in 1 .. Len(Matchings) /\ Len(Matchings) \in Nat /\ DOMAIN Matchings = 1 .. Len(Matchings)
      /\ round \in Nat \ {0}
      /\ \A i \in DOMAIN Matchings : all_mappings(i) # {}
      /\ \A i \in DOMAIN Matchings : i < match \/ round > 1 => \A j \in all_mappings(i) : Visited(i, j)
      /\ \A j \in all_mappings(match) : Visited(match, j)
  BY <1>1, MatchingKeys, Zenon DEF Explored, Progress, Exploring
<1>3. /\ \A i, l : Visited(i, l)' <=> Visited(i, l)
      /\ \A i : all_mappings(i)' = all_mappings(i)
  BY <1>1 DEF Visited, all_mappings
<1>4. /\ match' = IF match < Len(Matchings) THEN match + 1 ELSE 1
      /\ round' = IF match < Len(Matchings) \/ last THEN round ELSE round + 1
      /\ todo' = all_mappings(match')
  BY <1>1 DEF Advance
<1>a. match \in Nat \ {0} /\ match <= Len(Matchings) /\ (~(match < Len(Matchings)) => match = Len(Matchings))
  <2>1. \A m, n \in Nat : m \in 1 .. n => m # 0 /\ m <= n /\ (~(m < n) => m = n)
    OBVIOUS
  <2>2. match \in Nat
    BY <1>2
  <2> QED
    BY <1>2, <2>1, <2>2, Zenon
<1>5. Types'
  BY <1>1 DEF Explored, Types, Pcs, Exploring
<1>6. match = Len(Matchings) => \A i \in DOMAIN Matchings : \A j \in all_mappings(i) : Visited(i, j)
  BY <1>2
<1>7. Progress'
  <2>1. CASE last
    BY <1>1, <1>3, <1>6, <2>1 DEF Progress, Exploring
  <2>2. CASE ~last
    <3>1. /\ match' \in DOMAIN Matchings /\ round' \in Nat \ {0} /\ pc' = "apply"
          /\ todo' = all_mappings(match')
      <4>0. ((match < Len(Matchings) /\ match' = match + 1) \/ match' = 1) /\ round' \in {round, round + 1}
        BY <1>4, Zenon
      <4>1. match' \in 1 .. Len(Matchings)
        <5>1. Len(Matchings) \in Nat
          BY <1>2
        <5>2. \A m, n \in Nat : (m < n => m + 1 \in 1 .. n) /\ (m # 0 /\ m <= n => 1 \in 1 .. n)
          OBVIOUS
        <5> QED
          BY <1>a, <4>0, <5>1, <5>2
      <4>2. round' \in Nat \ {0}
        BY <1>2, <4>0
      <4> QED
        BY <1>1, <1>2, <1>4, <2>2, <4>1, <4>2, Zenon
    <3>2. \A i \in DOMAIN Matchings : i < match' \/ round' > 1 => \A j \in all_mappings(i) : Visited(i, j)
      <4>1. CASE match < Len(Matchings)
        <5>1. match' = match + 1 /\ round' = round
          BY <1>4, <4>1
        <5>2. \A i \in DOMAIN Matchings : i < match + 1 => i < match \/ i = match
          BY <1>2
        <5> QED
          BY <1>2, <5>1, <5>2
      <4>2. CASE ~(match < Len(Matchings))
        <5>1. match = Len(Matchings)
          BY <1>a, <4>2
        <5> QED
          BY <1>6, <5>1
      <4> QED
        BY <4>1, <4>2
    <3> QED
      BY <1>2, <1>3, <3>1, <3>2 DEF Progress
  <2> QED
    BY <2>1, <2>2
<1>8. Values'
  <2>1. \A k \in DOMAIN contexts : log[k] <= best.value
    BY <1>1, Zenon DEF Explored, Values, InHand
  <2>2. pc' = "failed" => \E k \in feasible : log[k] = NoValue
    <3> SUFFICES ASSUME pc' = "failed" PROVE \E k \in feasible : log[k] = NoValue
      OBVIOUS
    <3>1. best.key = NoKey /\ match = Len(Matchings)
      BY <1>1
    <3>2. PICK j \in all_mappings(match) : Visited(match, j)
      BY <1>2
    <3>3. /\ Matchings[match][j] \in feasible /\ Matchings[match][j] \in DOMAIN contexts
      BY <1>2, <3>2, MatchingKeys DEF Visited
    <3>4. log[Matchings[match][j]] <= NoValue /\ log[Matchings[match][j]] \in Nat
      BY <2>1, <3>1, <3>3, Zenon DEF Explored, Types, Values
    <3>5. log[Matchings[match][j]] = NoValue
      BY <3>4 DEF NoValue
    <3> QED
      BY <3>3, <3>5
  <2>3. pc' = "done" => best.key # NoKey
    BY <1>1
  <2> QED
    BY <1>1, <2>1, <2>2, <2>3, Zenon DEF Explored, Values
<1> QED
  BY <1>5, <1>7, <1>8 DEF Explored

LEMMA CrashStep ==
  ASSUME Explored, Crash
  PROVE  Explored'
<1>1. pc' = "dead" /\ UNCHANGED <<feasible, contexts, best, log>>
  BY DEF Crash
<1>2. Types' /\ Progress' /\ Values'
  BY <1>1, Zenon DEF Explored, Types, Progress, Values, Pcs, Exploring
<1> QED
  BY <1>2 DEF Explored

LEMMA RestartStep ==
  ASSUME Explored, Restart
  PROVE  Explored'
<1>1. /\ pc' = "filter" /\ contexts' = <<>> /\ best' = Nothing /\ round' = 1 /\ match' = 1
      /\ UNCHANGED <<feasible, log>>
  BY DEF Restart
<1>2. Types'
  BY <1>1 DEF Explored, Types, Pcs, Nothing, NoValue
<1>3. Progress' /\ Values'
  BY <1>1 DEF Progress, Values, Exploring, Nothing, NoValue
<1> QED
  BY <1>2, <1>3 DEF Explored

LEMMA ExploredStep ==
  ASSUME Explored, [ExploreNext]_exploreVars
  PROVE  Explored'
<1>1. CASE UNCHANGED exploreVars
  <2>1. Types'
    BY <1>1, Zenon DEF exploreVars, cursor, Explored, Types
  <2>2. Progress'
    <3>1. UNCHANGED <<pc, match, round, todo, mapping>>
      BY <1>1, Zenon DEF exploreVars, cursor
    <3>2. \A i, j : (Visited(i, j)' <=> Visited(i, j)) /\ all_mappings(i)' = all_mappings(i)
      BY <1>1, Zenon DEF exploreVars, cursor, Visited, all_mappings
    <3>3. Progress
      BY Zenon DEF Explored
    <3> QED
      BY <3>1, <3>2, <3>3 DEF Progress
  <2>3. Values'
    BY <1>1, Zenon DEF exploreVars, cursor, Explored, Values, Visited, all_mappings, InHand, Record
  <2> QED
    BY <2>1, <2>2, <2>3, Zenon DEF Explored
<1> QED
  BY <1>1, FilterStep, ApplyStep, MeasureStep, PassEndsStep, RecordBestStep, RedistributeStep,
     CrashStep, RestartStep DEF ExploreNext

LEMMA ExploredAlways == ExploreSpec => []Explored
<1>1. ExploreInit => Explored
  BY InitExplored
<1>2. Explored /\ [ExploreNext]_exploreVars => Explored'
  BY ExploredStep
<1> QED
  BY <1>1, <1>2, PTL DEF ExploreSpec

\* auto_tensorize_v4 returns the best measurement of all logs, with its mapping,
\* and fails only without a feasible mapping or without a measurement, for any
\* matchings and rounds and however often it was killed and called again.
THEOREM ExplorationReturnsBest == ExploreSpec => []ResultIsBest
<1>1. Explored => ResultIsBest
  <2> SUFFICES ASSUME Explored PROVE ResultIsBest
    OBVIOUS
  <2>1. ASSUME pc = "done"
        PROVE  /\ best.key \in feasible /\ best.value = log[best.key]
               /\ \A k \in feasible : log[k] <= best.value
    <3>1. feasible \subseteq DOMAIN contexts
      <4>1. SUFFICES ASSUME NEW k \in feasible PROVE k \in DOMAIN contexts
        OBVIOUS
      <4>2. PICK i \in DOMAIN Matchings : \E j \in DOMAIN Matchings[i] : k = Matchings[i][j]
        BY MatchingKeys DEF Explored, Types
      <4>3. PICK j \in DOMAIN Matchings[i] : k = Matchings[i][j]
        BY <4>2
      <4> QED
        BY <2>1, <4>3, Zenon DEF Explored, Progress, all_mappings, Visited
    <3>2. \A k \in feasible : log[k] <= best.value
      BY <2>1, <3>1, Zenon DEF Explored, Values, InHand
    <3>3. best.key \in feasible /\ best.value <= log[best.key]
      BY <2>1, Zenon DEF Explored, Values
    <3>4. best.value \in Nat /\ log[best.key] \in Nat
      BY <3>3 DEF Explored, Types
    <3> QED
      BY <3>2, <3>3, <3>4
  <2> QED
    BY <2>1, Zenon DEF Explored, Values, ResultIsBest
<1> QED
  BY <1>1, ExploredAlways, PTL

\* A value printed as the best is in the log of its mapping already, so that no
\* kill loses it.
THEOREM PrintedIsLogged == ExploreSpec => []BestIsLogged
<1>1. Explored => BestIsLogged
  BY DEF Explored, Values, BestIsLogged
<1> QED
  BY <1>1, ExploredAlways, PTL

-----------------------------------------------------------------------------
(* The measurement of a batch                                                *)

Expected(i) == IF schs[i] \in Throws THEN NoModule ELSE schs[i]

FutureStates == {"none", "pending", "ready", "broken", "rejected"}

\* The pool of parallel_build outlives the collection of its futures.
BuildOK ==
  /\ future \in [Tasks -> FutureStates]
  /\ owner = "alive" => \A t \in Tasks : future[t] # "broken"
  /\ ret \in Seq(Tasks \cup {NoModule}) /\ Len(ret) <= Len(schs)
  /\ owner # "alive" => Len(ret) = Len(schs)
  /\ ResultsInPlace

LEMMA Candidates ==
  /\ N \in Nat /\ DOMAIN params_lst = 1 .. N /\ \A i \in 1 .. N : params_lst[i] \in Tasks
  /\ schs \in Seq(Tasks) /\ Len(schs) \in Nat
  /\ \A c \in Clients : c = Builder
  /\ \A i \in 1 .. Len(schs) : Program[Builder][i] \in Tasks /\ Expected(i) \in Tasks \cup {NoModule}
  BY BatchAssumption, BuildAssumption, PoolAssumption DEF N, schs, Expected

LEMMA BuildStep ==
  ASSUME BuildOK, BuildNext
  PROVE  BuildOK'
<1>1. CASE PushBuild
  <2>1. UNCHANGED <<owner, ret>>
    BY <1>1, Zenon DEF PushBuild, Push, NotifyOne
  <2>2. CASE UNCHANGED future
    BY <2>1, <2>2, Zenon DEF BuildOK, ResultsInPlace
  <2>3. CASE \E s \in {"rejected", "pending"} : \E t : future' = [future EXCEPT ![t] = s]
    <3>1. future' \in [Tasks -> FutureStates] /\ \A t \in Tasks : future[t] # "broken" => future'[t] # "broken"
      BY <2>3, Zenon DEF BuildOK, FutureStates
    <3> QED
      BY <2>1, <3>1, Zenon DEF BuildOK, ResultsInPlace
  <2> QED
    BY <1>1, <2>2, <2>3, Zenon DEF PushBuild, Push, NotifyOne
<1>2. CASE Collect
  BY <1>2, Zenon DEF Collect, vars, BuildOK, ResultsInPlace
<1>3. CASE Get
  <2>1. /\ Len(ret) < Len(schs) /\ UNCHANGED <<future, owner>>
        /\ ret' = Append(ret, IF future[schs[Len(ret) + 1]] = "broken" \/ schs[Len(ret) + 1] \in Throws
                              THEN NoModule ELSE schs[Len(ret) + 1])
    BY <1>3 DEF Get, vars
  <2>2. owner = "alive" /\ Len(ret) \in Nat /\ Len(ret) + 1 \in 1 .. Len(schs)
    BY <2>1, Candidates DEF BuildOK
  <2>3. ret' = Append(ret, Expected(Len(ret) + 1)) /\ Expected(Len(ret) + 1) \in Tasks \cup {NoModule}
    BY <2>1, <2>2, Candidates, Zenon DEF BuildOK, Expected, schs
  <2>4. ret' \in Seq(Tasks \cup {NoModule}) /\ Len(ret') = Len(ret) + 1
    BY <2>3 DEF BuildOK
  <2>5. \A i \in DOMAIN ret' : ret'[i] = Expected(i)
    BY <2>2, <2>3 DEF BuildOK, ResultsInPlace, Expected
  <2>6. Len(ret') <= Len(schs)
    BY <2>2, <2>4, Candidates
  <2> QED
    BY <2>1, <2>2, <2>4, <2>5, <2>6, Zenon DEF BuildOK, ResultsInPlace, Expected
<1>4. CASE Return
  <2>1. Len(ret) = Len(schs) /\ UNCHANGED ret /\ owner' # "alive"
    BY <1>4, Zenon DEF Return, Destroy, Cancel, Stop, NotifyAll, Joined, InitWorkers
  <2>2. future' \in [Tasks -> FutureStates]
    BY <1>4, Zenon DEF Return, Destroy, Cancel, Stop, NotifyAll, Joined, InitWorkers, BuildOK, FutureStates
  <2> QED
    BY <2>1, <2>2, Zenon DEF BuildOK, ResultsInPlace
<1>5. CASE PoolSteps
  <2>1. UNCHANGED <<owner, ret>>
    BY <1>5, Zenon DEF PoolSteps, Wait, Wake, Exit, Take, RunTask
  <2>2. UNCHANGED future \/ \E t : future' = [future EXCEPT ![t] = "ready"]
    BY <1>5, Zenon DEF PoolSteps, Wait, Wake, Exit, Take, RunTask
  <2>3. future' \in [Tasks -> FutureStates] /\ \A t \in Tasks : future[t] # "broken" => future'[t] # "broken"
    BY <2>2 DEF BuildOK, FutureStates
  <2> QED
    BY <2>1, <2>3 DEF BuildOK, ResultsInPlace
<1> QED
  BY <1>1, <1>2, <1>3, <1>4, <1>5 DEF BuildNext

-----------------------------------------------------------------------------
(* The batch *)

Result == [err : {"none", "instantiation", "compile_host", "compile_device", "runtime_device",
                  "build_timeout", "run_timeout", "queued", "running"},
           module : Tasks \cup {NoModule}]

\* Every module is built for the candidate at its place.
Faithful == builder = "pebble" \/ lowerFails = {}

Truthful(list) == \A i \in 1 .. N : list[i].err = "none" => list[i].module = params_lst[i]

\* A measurement without an error is that of the build at its place.
Follows(list) ==
  \A i \in 1 .. N : list[i].err = "none" => build[i].err = "none" /\ list[i].module = build[i].module

BatchTypes ==
  /\ step \in {"instantiate", "build", "returned", "map", "run", "done"}
  /\ lowerFails \subseteq Tasks
  /\ step \in {"instantiate", "build"} => builder = "tg"
  /\ step \in {"map", "run", "done"} => builder = "pebble"
  /\ job \in [1 .. N -> Result]
  /\ results \in Seq(Result) /\ Len(results) <= N
  /\ step \in {"returned", "run", "done"} => build \in Seq(Result) /\ Len(build) = N
  /\ step = "done" => measured \in Seq(Result) /\ Len(measured) = N

BatchValues ==
  /\ step = "build" =>
       err_nos = [i \in 1 .. N |-> IF params_lst[i] \in Rejected THEN "instantiation" ELSE "none"]
  /\ \A i \in 1 .. Len(results) : results[i] = job[i] /\ job[i] \notin {queued, running}
  /\ step \notin {"map", "run"} => \A i \in 1 .. N : job[i] # running
  /\ step = "map" => Truthful(job)
  /\ step \in {"returned", "run", "done"} /\ Faithful => Truthful(build)
  /\ step = "run" => Follows(job)
  /\ step = "done" => Follows(measured)

Batch == BuildOK /\ BatchTypes /\ BatchValues

LEMMA ResultFacts ==
  /\ \A e \in {"instantiation", "compile_host", "compile_device", "runtime_device",
              "build_timeout", "run_timeout", "queued", "running"} :
       Failure(e) \in Result /\ Failure(e).err = e /\ e # "none"
  /\ \A c \in Tasks : Success(c) \in Result /\ Success(c).err = "none" /\ Success(c).module = c
  /\ Queued \in [1 .. N -> Result] /\ \A i \in 1 .. N : Queued[i].err # "none"
  BY DEF Failure, Success, Result, Queued, queued

\* The builder hands over a list, and the pool with its modules is gone.
LEMMA BuiltStep ==
  ASSUME Batch, NEW list \in Seq(Result), Len(list) = N, Faithful => Truthful(list),
         Built(list), builder \in {"tg", "pebble"}, UNCHANGED <<builder, lowerFails>>
  PROVE  Batch'
<1>0. step' \in {"returned", "run"} /\ (step' = "run" => builder = "pebble")
  BY DEF Built
<1>1. /\ build' = list /\ job' = Queued /\ results' = <<>>
      /\ future' = [t \in Tasks |-> "none"] /\ owner' = "alive" /\ ret' = <<>>
  BY DEF Built
<1>2. BuildOK'
  BY <1>1, Candidates DEF BuildOK, FutureStates, ResultsInPlace
<1>3. BatchTypes'
  <2>1. BatchTypes /\ Queued \in [1 .. N -> Result]
    BY ResultFacts, Zenon DEF Batch
  <2>2. <<>> \in Seq(Result) /\ Len(<<>>) <= N
    BY Candidates
  <2> QED
    BY <1>0, <1>1, <2>1, <2>2, Candidates, Zenon DEF BatchTypes
<1>4. Truthful(build)' \/ ~Faithful'
  BY <1>1, Zenon DEF Truthful, Faithful
<1>5. Follows(job)'
  BY <1>1, ResultFacts, Zenon DEF Follows
<1>6. \A i \in 1 .. N : Queued[i] # running
  BY DEF Queued, queued, running, Failure
<1>7. BatchValues'
  BY <1>0, <1>1, <1>4, <1>5, <1>6 DEF BatchValues
<1> QED
  BY <1>2, <1>3, <1>7 DEF Batch

LEMMA AllFailBuilt ==
  ASSUME NEW e \in {"build_timeout", "compile_host"}
  PROVE  AllFail(e) \in Seq(Result) /\ Len(AllFail(e)) = N /\ Truthful(AllFail(e))
<1>1. \A i \in 1 .. N : AllFail(e)[i] = Failure(e) /\ Failure(e) \in Result /\ Failure(e).err # "none"
  BY ResultFacts DEF AllFail
<1>2. AllFail(e) \in Seq(Result) /\ Len(AllFail(e)) = N
  BY <1>1, Candidates DEF AllFail
<1> QED
  BY <1>1, <1>2, Zenon DEF Truthful

LEMMA PairStep ==
  ASSUME Batch, Pair
  PROVE  Batch'
<1> DEFINE module(i) == IF Position(i) \in DOMAIN ret THEN ret[Position(i)] ELSE NoModule
           entry(i) == IF err_nos[i] # "none" THEN Failure(err_nos[i])
                       ELSE IF module(i) = NoModule THEN Failure("compile_host") ELSE Success(module(i))
           list == [i \in 1 .. N |-> entry(i)]
<1>1. step = "build" /\ builder = "tg" /\ Built(list) /\ UNCHANGED <<builder, lowerFails>>
  BY Zenon DEF Pair, Batch, BatchTypes
<1>2. \A i \in 1 .. N : err_nos[i] = IF params_lst[i] \in Rejected THEN "instantiation" ELSE "none"
  BY <1>1, Zenon DEF Batch, BatchValues
<1>3. \A i \in 1 .. N : module(i) \in Tasks \cup {NoModule}
  BY DEF Batch, BuildOK
<1>4. \A i \in 1 .. N :
        /\ entry(i) \in Result
        /\ entry(i).err = "none" => /\ err_nos[i] = "none" /\ module(i) # NoModule
                                    /\ entry(i).module = module(i)
  <2> SUFFICES ASSUME NEW i \in 1 .. N
               PROVE  /\ entry(i) \in Result
                      /\ entry(i).err = "none" => /\ err_nos[i] = "none" /\ module(i) # NoModule
                                                  /\ entry(i).module = module(i)
    BY Zenon
  <2> HIDE DEF module
  <2>1. CASE err_nos[i] # "none"
    BY <1>2, <2>1, ResultFacts, Zenon
  <2>2. CASE err_nos[i] = "none" /\ module(i) = NoModule
    BY <2>2, ResultFacts, Zenon
  <2>3. CASE err_nos[i] = "none" /\ module(i) # NoModule
    BY <1>3, <2>3, ResultFacts, Zenon
  <2> QED
    BY <2>1, <2>2, <2>3, Zenon
<1>5. list \in Seq(Result) /\ Len(list) = N
  <2> HIDE DEF entry
  <2> QED
    BY <1>4, Candidates
<1>6. Faithful => Truthful(list)
  <2> SUFFICES ASSUME Faithful, NEW i \in 1 .. N, list[i].err = "none"
               PROVE  list[i].module = params_lst[i]
    BY Zenon DEF Truthful
  <2>1. err_nos[i] = "none" /\ module(i) # NoModule /\ list[i].module = module(i)
    <3> HIDE DEF module, entry
    <3> QED
      BY <1>4
  <2>2. Rejected = ApplyFails
    BY <1>1, Zenon DEF Faithful, Rejected
  <2>3. params_lst[i] \notin ApplyFails
    BY <1>2, <2>1, <2>2, Zenon
  <2>4. Position(i) = Applied(i)
    <3>1. \A j \in 1 .. i : j \in 1 .. N
      BY Candidates
    <3>2. \A j \in 1 .. i : err_nos[j] = "none" <=> params_lst[j] \notin ApplyFails
      BY <1>2, <2>2, <3>1, Zenon
    <3>3. {j \in 1 .. i : err_nos[j] = "none"} = {j \in 1 .. i : params_lst[j] \notin ApplyFails}
      BY <3>2
    <3> QED
      BY <3>3, Zenon DEF Position, Applied
  <2>5. schs[Position(i)] = params_lst[i]
    BY <2>3, <2>4, BatchAssumption, Zenon DEF N
  <2>6. Position(i) \in DOMAIN ret /\ module(i) = ret[Position(i)]
    BY <2>1, Zenon
  <2>7. ret[Position(i)] = Expected(Position(i))
    BY <2>6, Zenon DEF Batch, BuildOK, ResultsInPlace, Expected
  <2> QED
    BY <2>1, <2>5, <2>6, <2>7, Zenon DEF Expected
<1> HIDE DEF list
<1> QED
  BY <1>1, <1>5, <1>6, BuiltStep

\* A task of a map ends with one of the results its worker can have.
LEMMA JobStep ==
  ASSUME Batch, NEW i \in 1 .. N, NEW r \in Result, step \in {"map", "run"}, job[i] \in {queued, running},
         step = "map" /\ r.err = "none" => r.module = params_lst[i],
         step = "run" /\ r.err = "none" => build[i].err = "none" /\ r.module = build[i].module,
         job' = [job EXCEPT ![i] = r],
         UNCHANGED <<buildVars, builder, lowerFails, step, err_nos, build, results, measured>>
  PROVE  Batch'
<1>1. job \in [1 .. N -> Result] /\ job' \in [1 .. N -> Result]
      /\ \A j \in 1 .. N : job'[j] = IF j = i THEN r ELSE job[j]
  BY Zenon DEF Batch, BatchTypes
<1>2. BuildOK'
  BY Zenon DEF Batch, BuildOK, ResultsInPlace, buildVars, vars
<1>3. BatchTypes'
  BY <1>1, Zenon DEF Batch, BatchTypes
<1>4. \A j \in 1 .. Len(results) : results[j] = job'[j] /\ job'[j] \notin {queued, running}
  <2>1. \A j \in 1 .. Len(results) : j \in 1 .. N
    BY Candidates DEF Batch, BatchTypes
  <2>2. \A j \in 1 .. Len(results) : results[j] = job[j] /\ job[j] \notin {queued, running}
    BY Zenon DEF Batch, BatchValues
  <2> QED
    BY <1>1, <2>1, <2>2, Zenon
<1>5. (step = "map" => Truthful(job')) /\ (step = "run" => Follows(job)')
  BY <1>1, Zenon DEF Batch, BatchValues, Truthful, Follows
<1>6. BatchValues'
  BY <1>4, <1>5, Zenon DEF Batch, BatchValues, Truthful, Follows, Faithful, Rejected, queued, running
<1> QED
  BY <1>2, <1>3, <1>6, Zenon DEF Batch

LEMMA MapStep ==
  ASSUME Batch, JobStart \/ \E i \in 1 .. N : JobEnds(i) \/ JobTimeout(i) \/ JobFatal(i)
  PROVE  Batch'
<1>0. queued \in Result /\ running \in Result /\ queued.err # "none" /\ running.err # "none"
  BY ResultFacts DEF queued, running
<1>1. CASE JobStart
  <2>1. PICK i \in 1 .. N : job[i] = queued /\ job' = [job EXCEPT ![i] = running]
    BY <1>1, Zenon DEF JobStart
  <2>2. step \in {"map", "run"} /\
        UNCHANGED <<buildVars, builder, lowerFails, step, err_nos, build, results, measured>>
    BY <1>1, Zenon DEF JobStart, Mapping
  <2> QED
    BY <1>0, <2>1, <2>2, JobStep, Zenon
<1>2. ASSUME NEW i \in 1 .. N, JobEnds(i) \/ JobTimeout(i) \/ JobFatal(i)
      PROVE  Batch'
  <2>1. /\ job[i] = running
        /\ UNCHANGED <<buildVars, builder, lowerFails, step, err_nos, build, results, measured>>
    BY <1>2, Zenon DEF JobEnds, JobTimeout, JobFatal, Running
  <2>2. step \in {"map", "run"}
    BY <2>1, Zenon DEF Batch, BatchValues
  <2>3. CASE JobEnds(i) /\ step = "map"
    <3>1. PICK r \in BuildWorker(i) : job' = [job EXCEPT ![i] = r]
      BY <2>3, Zenon DEF JobEnds
    <3>2. r \in Result /\ (r.err = "none" => r.module = params_lst[i])
      BY Candidates, ResultFacts, Zenon DEF BuildWorker
    <3> QED
      BY <2>1, <2>2, <2>3, <3>1, <3>2, JobStep, Zenon
  <2>4. CASE JobEnds(i) /\ step = "run"
    <3>1. PICK r \in RunWorker(i) : job' = [job EXCEPT ![i] = r]
      BY <2>4, Zenon DEF JobEnds
    <3>2. build[i] \in Result
      BY <2>4 DEF Batch, BatchTypes
    <3>3. r \in Result /\ (r.err = "none" => build[i].err = "none" /\ r.module = build[i].module)
      BY <3>2 DEF RunWorker, Result, Failure, Success
    <3> QED
      BY <2>1, <2>2, <2>4, <3>1, <3>3, JobStep, Zenon
  <2>5. CASE JobTimeout(i) \/ JobFatal(i)
    <3>1. PICK e \in {"build_timeout", "run_timeout", "compile_host", "runtime_device"} :
            job' = [job EXCEPT ![i] = Failure(e)]
      BY <2>5, Zenon DEF JobTimeout, JobFatal
    <3>2. Failure(e) \in Result /\ Failure(e).err # "none"
      BY ResultFacts
    <3> HIDE DEF Failure
    <3> QED
      BY <2>1, <2>2, <3>1, <3>2, JobStep, Zenon
  <2> QED
    BY <1>2, <2>2, <2>3, <2>4, <2>5
<1> QED
  BY <1>1, <1>2

LEMMA IterateStep ==
  ASSUME Batch, Iterate
  PROVE  Batch'
<1>1. /\ Len(results) < N /\ results' = Append(results, job[Len(results) + 1])
      /\ job[Len(results) + 1] \notin {queued, running}
      /\ UNCHANGED <<buildVars, builder, lowerFails, step, err_nos, build, job, measured>>
  BY DEF Iterate
<1>2. results \in Seq(Result) /\ Len(results) \in Nat /\ job[Len(results) + 1] \in Result
  BY <1>1, Candidates DEF Batch, BatchTypes
<1>3. /\ results' \in Seq(Result) /\ Len(results') = Len(results) + 1 /\ Len(results') <= N
      /\ \A i \in 1 .. Len(results) : results'[i] = results[i]
      /\ results'[Len(results) + 1] = job[Len(results) + 1]
  BY <1>1, <1>2, Candidates
<1>4. BuildOK'
  BY <1>1, Zenon DEF Batch, BuildOK, ResultsInPlace, buildVars, vars
<1>5. BatchTypes'
  BY <1>1, <1>3, Zenon DEF Batch, BatchTypes
<1>6. \A i \in 1 .. Len(results') : results'[i] = job[i] /\ job[i] \notin {queued, running}
  BY <1>1, <1>2, <1>3 DEF Batch, BatchValues
<1>7. BatchValues'
  BY <1>1, <1>6, Zenon DEF Batch, BatchValues, Truthful, Follows, Faithful, Rejected, queued, running
<1> QED
  BY <1>4, <1>5, <1>7 DEF Batch

LEMMA StopStep ==
  ASSUME Batch, StopIteration
  PROVE  Batch'
<1>1. /\ step \in {"map", "run"} /\ Len(results) = N /\ results \in Seq(Result)
      /\ UNCHANGED <<builder, lowerFails>>
      /\ \A i \in 1 .. N : results[i] = job[i] /\ job[i] # running
  BY Zenon DEF StopIteration, Mapping, Batch, BatchTypes, BatchValues
<1>2. CASE step = "map"
  <2>1. Built(results) /\ Truthful(results) /\ builder = "pebble"
    BY <1>1, <1>2, Zenon DEF StopIteration, Batch, BatchTypes, BatchValues, Truthful
  <2> QED
    BY <1>1, <2>1, BuiltStep, Zenon
<1>3. CASE step = "run"
  <2>1. /\ measured' = results /\ step' = "done"
        /\ UNCHANGED <<buildVars, err_nos, build, job, results>>
    BY <1>3 DEF StopIteration
  <2>2. BuildOK'
    BY <2>1, Zenon DEF Batch, BuildOK, ResultsInPlace, buildVars, vars
  <2>3. BatchTypes'
    BY <1>1, <1>3, <2>1, Zenon DEF Batch, BatchTypes
  <2>4. Follows(measured)'
    <3>1. Follows(results)
      <4>1. Follows(job)
        BY <1>3, Zenon DEF Batch, BatchValues
      <4> QED
        BY <1>1, <4>1, Zenon DEF Follows
    <3> QED
      BY <2>1, <3>1, Zenon DEF Follows
  <2>5. BatchValues'
    BY <1>1, <1>3, <2>1, <2>4, Zenon DEF Batch, BatchValues, Truthful, Faithful, queued, running
  <2> QED
    BY <2>2, <2>3, <2>5 DEF Batch
<1> QED
  BY <1>1, <1>2, <1>3

LEMMA BatchStep ==
  ASSUME Batch, [BatchNext]_allVars
  PROVE  Batch'
<1>1. CASE Instantiate
  <2>1. /\ step = "instantiate" /\ step' = "build"
        /\ err_nos' = [i \in 1 .. N |-> IF params_lst[i] \in Rejected THEN "instantiation" ELSE "none"]
        /\ UNCHANGED <<buildVars, builder, lowerFails, build, job, results, measured>>
    BY <1>1 DEF Instantiate
  <2>2. BuildOK'
    BY <2>1, Zenon DEF Batch, BuildOK, ResultsInPlace, buildVars, vars
  <2>3. BatchTypes'
    BY <2>1, Zenon DEF Batch, BatchTypes
  <2>4. BatchValues'
    BY <2>1, Zenon DEF Batch, BatchValues, Rejected, queued, running
  <2> QED
    BY <2>2, <2>3, <2>4 DEF Batch
<1>2. CASE ParallelBuildStep
  <2>1. BuildOK'
    BY <1>2, BuildStep DEF ParallelBuildStep, Batch
  <2>2. BatchTypes' /\ BatchValues'
    BY <1>2, Zenon DEF ParallelBuildStep, batchVars, Batch, BatchTypes, BatchValues, Truthful, Follows,
                Faithful, Rejected, queued, running
  <2> QED
    BY <2>1, <2>2 DEF Batch
<1>3. CASE BuilderTimeout \/ BuilderFatal
  <2>1. step \in {"instantiate", "build"} /\ UNCHANGED <<builder, lowerFails>>
    BY <1>3, Zenon DEF BuilderTimeout, BuilderFatal
  <2>2. builder = "tg"
    BY <2>1, Zenon DEF Batch, BatchTypes
  <2>3. Built(AllFail("build_timeout")) \/ Built(AllFail("compile_host"))
    BY <1>3, Zenon DEF BuilderTimeout, BuilderFatal
  <2> QED
    BY <2>1, <2>2, <2>3, AllFailBuilt, BuiltStep, Zenon
<1>4. CASE UNCHANGED allVars
  <2>1. BuildOK'
    BY <1>4, Zenon DEF Batch, BuildOK, ResultsInPlace, allVars, buildVars, vars
  <2>2. BatchTypes' /\ BatchValues'
    BY <1>4, Zenon DEF allVars, batchVars, Batch, BatchTypes, BatchValues, Truthful, Follows,
                Faithful, Rejected, queued, running
  <2> QED
    BY <2>1, <2>2 DEF Batch
<1> QED
  BY <1>1, <1>2, <1>3, <1>4, PairStep, MapStep, IterateStep, StopStep DEF BatchNext

LEMMA BatchStart ==
  ASSUME BatchInit
  PROVE  Batch
<1>1. BuildOK
  BY Candidates DEF BatchInit, BuildInit, Init, BuildOK, FutureStates, ResultsInPlace
<1>2. BatchTypes
  BY Candidates, ResultFacts DEF BatchInit, BatchTypes
<1>3. \A i \in 1 .. N : Queued[i] # running
  BY DEF Queued, queued, running, Failure
<1>4. BatchValues
  BY <1>3, ResultFacts DEF BatchInit, BatchValues, Truthful
<1> QED
  BY <1>1, <1>2, <1>4 DEF Batch

LEMMA BatchAlways == BatchSpec => []Batch
<1>1. BatchInit => Batch
  BY BatchStart
<1>2. Batch /\ [BatchNext]_allVars => Batch'
  BY BatchStep
<1> QED
  BY <1>1, <1>2, PTL DEF BatchSpec

\* The modules parallel_build collects are those of its schedules, each in its
\* place, whatever the order its threads finish in.
THEOREM ModulesInPlace == BatchSpec => []ResultsInPlace
<1>1. Batch => ResultsInPlace
  BY DEF Batch, BuildOK
<1> QED
  BY <1>1, BatchAlways, PTL

\* Either builder and the runner answer for every candidate, whatever hangs,
\* raises or is killed.
THEOREM EveryCandidateAnswered == BatchSpec => []AnswersComplete
<1>1. Batch => AnswersComplete
  BY Zenon DEF Batch, BatchTypes, BatchValues, Follows, AnswersComplete
<1> QED
  BY <1>1, BatchAlways, PTL

\* The search credits a measurement to the candidate it was made of.
THEOREM MeasurementsCredited == BatchSpec => []CreditedSound
<1>1. Batch => CreditedSound
  BY Zenon DEF Batch, BatchTypes, BatchValues, Follows, Truthful, Faithful, CreditedSound
<1> QED
  BY <1>1, BatchAlways, PTL

\* tg's builder gives every candidate the module of its own schedule when no
\* candidate is rejected after it applied.
THEOREM ModulesOfCandidates == BatchSpec => []ModulesPaired
<1>1. Batch => ModulesPaired
  BY Zenon DEF Batch, BatchValues, Truthful, Faithful, ModulesPaired
<1> QED
  BY <1>1, BatchAlways, PTL
=============================================================================
