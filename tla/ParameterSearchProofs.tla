----------------------- MODULE ParameterSearchProofs -----------------------
(***************************************************************************)
(* Proofs about ParameterSearch, for every space of records, every range   *)
(* of values, every batch size and number of crashes: its types, that the  *)
(* log replays to the memory of the search, that the two bests agree, that *)
(* a batch repeats no new candidate, and that the search implements the    *)
(* durable register of DurableBest.                                        *)
(***************************************************************************)
EXTENDS ParameterSearch, TLAPS

(***************************************************************************)
(* The inductive invariant.  The log always has a largest entry, or none:  *)
(* recovery needs one to start from.  While the process is down nothing is *)
(* known; while it runs the best it keeps is a root of the heap, or the    *)
(* heap holds no measurement and the best is none either.                  *)
(***************************************************************************)
IsRoot(e, S) == e \in S /\ \A f \in S : f[2] <= e[2]

LogHasRoot == log.pushed # {} => \E e \in log.pushed : IsRoot(e, log.pushed)

DownKnowsNothing == pc = "load" => best[2] = Failed

\* A remembered measurement is one that was pushed.
VisitedPushed ==
  /\ \A r \in Records : visited[r] > Failed => <<r, visited[r]>> \in entries
  /\ \A r \in Records : log.last[r] > Failed => <<r, log.last[r]>> \in log.pushed

\* The invariant, apart from the types.
Memory == VisitedPushed /\ LogReplays /\ BestAgrees /\ LogHasRoot /\ DownKnowsNothing

\* The values of the model are ordered numbers, Zero and Failed among them.
LEMMA ValueFacts ==
  /\ Zero \in Values /\ Failed \in Values /\ Absent \notin Values
  /\ Failed .. MaxValue \subseteq Values
  /\ Values \subseteq Int
BY SearchAssumption DEF Zero, Failed, Values, Absent

\* Feedback keeps the types of what it changes.
LEMMA FeedbackTypes ==
  ASSUME TypeOK, NEW r \in Records, NEW v \in Values, Feedback(r, v)
  PROVE  /\ entries' \subseteq Pairs
         /\ visited' \in [Records -> Values \union {Absent}]
         /\ log' \in [pushed : SUBSET Pairs, last : [Records -> Values \union {Absent}]]
BY DEF TypeOK, Feedback, Update, Pairs

\* A batch ranked by the performance model is made of candidates of the batch.
LEMMA RankingTypes ==
  ASSUME NEW s \in Seq(Records), NEW t \in Rankings(s, Kept(Len(s)))
  PROVE  t \in Seq(Records)
<1>1. Kept(Len(s)) \in Nat
  <2>1. Len(s) \in Nat  OBVIOUS
  <2>2. Len(s) * PerfNum \in Nat  BY <2>1, SearchAssumption
  <2> DEFINE m == Len(s) * PerfNum + PerfDen - 1
  <2>3. m \in Nat  BY <2>2, SearchAssumption
  <2>4. \A a \in Nat, b \in Nat \ {0} : a \div b \in Nat  OBVIOUS
  <2> QED BY <2>3, <2>4, SearchAssumption DEF Kept
<1> DEFINE n == Kept(Len(s))
<1>2. PICK f \in [1 .. n -> 1 .. Len(s)] : t = [i \in 1 .. n |-> s[f[i]]]
  BY DEF Rankings
<1> HIDE DEF n
<1>3. \A i \in 1 .. n : s[f[i]] \in Records  BY <1>2
<1>4. n \in Nat  BY <1>1 DEF n
<1> QED BY <1>2, <1>3, <1>4

\* Every step of the search keeps the types.
LEMMA TypeStep == TypeOK /\ [Next]_vars => TypeOK'
<1> SUFFICES ASSUME TypeOK, [Next]_vars PROVE TypeOK'  OBVIOUS
<1> USE ValueFacts
<1>1. CASE Load
  BY <1>1, SearchAssumption DEF Load, TypeOK, Pairs
<1>2. CASE StartBatch
  BY <1>2 DEF StartBatch, TypeOK, memory
<1>3. CASE TakeFresh
  BY <1>3, SearchAssumption DEF TakeFresh, TypeOK, memory
<1>4. CASE SelectEntry
  BY <1>4 DEF SelectEntry, TypeOK, memory
<1>5. CASE MutateEnds
  BY <1>5, SearchAssumption DEF MutateEnds, TypeOK, memory
<1>6. ASSUME NEW r \in Records, Mutate(r) PROVE TypeOK'
  BY <1>6 DEF Mutate, HandOut, Update, TypeOK
<1>7. ASSUME NEW r \in Records, GetNew(r) PROVE TypeOK'
  BY <1>7 DEF GetNew, HandOut, Update, TypeOK
<1>8. ASSUME NEW r \in Records, GetInvalid(r) PROVE TypeOK'
  BY <1>8, SearchAssumption DEF GetInvalid, TypeOK, memory
<1>9. ASSUME NEW r \in Records, GetVisited(r) PROVE TypeOK'
  <2>1. visited[r] \in Values  BY <1>9 DEF GetVisited, TypeOK
  <2>2. Feedback(r, visited[r])  BY <1>9 DEF GetVisited
  <2>3. /\ entries' \subseteq Pairs
        /\ visited' \in [Records -> Values \union {Absent}]
        /\ log' \in [pushed : SUBSET Pairs, last : [Records -> Values \union {Absent}]]
    BY <2>1, <2>2, FeedbackTypes, Zenon
  <2>4. /\ pc' \in {"get", "next"}
        /\ gen' \in {"top", "mutate", "output"}
        /\ attempt' \in 0 .. MaxTrial
        /\ params' \in Seq(Records)
    <3>1. CASE AllowRepeat  BY <1>9, <3>1 DEF GetVisited, HandOut, TypeOK
    <3>2. CASE ~AllowRepeat  BY <1>9, <3>2, SearchAssumption DEF GetVisited, TypeOK
    <3> QED BY <3>1, <3>2
  <2>5. batch' = batch /\ best' = best /\ passes' = passes /\ crashes' = crashes
    BY <1>9 DEF GetVisited
  <2> QED BY <2>3, <2>4, <2>5 DEF TypeOK
<1>10. CASE GetGivesUp
  <2>1. \A e \in Roots : e[1] \in Records  BY DEF Roots, TypeOK, Pairs
  <2>2. UNCHANGED <<entries, visited, log, attempt, batch, best, passes, crashes>>
    BY <1>10, Zenon DEF GetGivesUp, memory
  <2>3. CASE pc' = "raised" /\ UNCHANGED <<params, gen>>
    BY <2>2, <2>3, Zenon DEF TypeOK
  <2>4. CASE \E e \in Roots : HandOut(e[1], "top")
    <3>1. PICK e \in Roots : HandOut(e[1], "top")  BY <2>4, Zenon
    <3>2. pc' = "next" /\ gen' = "top" /\ params' = Append(params, e[1])  BY <3>1, Zenon DEF HandOut
    <3>3. params \in Seq(Records)  BY Zenon DEF TypeOK
    <3>4. params' \in Seq(Records)  BY <2>1, <3>2, <3>3
    <3> QED BY <2>2, <3>2, <3>4, Zenon DEF TypeOK
  <2> QED BY <1>10, <2>3, <2>4, Zenon DEF GetGivesUp
<1>11. CASE Measure
  <2>1. params' \in Seq(Records)
    BY <1>11, RankingTypes DEF Measure, TypeOK
  <2> QED BY <1>11, <2>1 DEF Measure, TypeOK, memory
<1>12. ASSUME NEW v \in Failed .. MaxValue, Result(v) PROVE TypeOK'
  <2>1. Head(params) \in Records /\ Tail(params) \in Seq(Records)
    BY <1>12 DEF Result, TypeOK
  <2>2. /\ entries' \subseteq Pairs
        /\ visited' \in [Records -> Values \union {Absent}]
        /\ log' \in [pushed : SUBSET Pairs, last : [Records -> Values \union {Absent}]]
    <3>1. CASE v > Failed
      BY <1>12, <2>1, <3>1, FeedbackTypes DEF Result
    <3>2. CASE ~(v > Failed)
      BY <1>12, <3>2 DEF Result, TypeOK, memory
    <3> QED BY <3>1, <3>2
  <2>3. best' \in (Records \union {NoRecord}) \X Values
    BY <1>12, <2>1, Zenon DEF Result, TypeOK
  <2>4. params' \in Seq(Records)  BY <1>12, <2>1 DEF Result
  <2>5. /\ pc' = pc /\ gen' = gen /\ attempt' = attempt
        /\ batch' = batch /\ passes' = passes /\ crashes' = crashes
    BY <1>12 DEF Result
  <2> QED BY <2>2, <2>3, <2>4, <2>5 DEF TypeOK
<1>13. CASE EndBatch
  BY <1>13 DEF EndBatch, TypeOK, memory
<1>14. CASE Resume
  BY <1>14 DEF Resume, TypeOK, memory
<1>15. CASE Finish
  BY <1>15 DEF Finish, TypeOK, memory
<1>16. CASE Crash
  BY <1>16, SearchAssumption DEF Crash, TypeOK
<1>17. CASE UNCHANGED vars
  BY <1>17 DEF vars, TypeOK
<1> QED
  BY <1>1, <1>2, <1>3, <1>4, <1>5, <1>6, <1>7, <1>8, <1>9, <1>10, <1>11, <1>12,
     <1>13, <1>14, <1>15, <1>16, <1>17 DEF Next, Search

\* Steps that touch neither memory nor log nor best.
LEMMA QuietStep ==
  ASSUME Memory, pc # "load", pc' # "load",
         UNCHANGED <<entries, visited, log, best>>
  PROVE  Memory'
BY DEF Memory, VisitedPushed, LogReplays, BestAgrees, Roots, LogHasRoot, IsRoot,
       DownKnowsNothing

\* Handing a new record out marks it, and only it, in memory.
LEMMA MarkStep ==
  ASSUME TypeOK, Memory, pc # "load", pc' # "load",
         NEW r \in Records, visited[r] = Absent,
         visited' = Update(visited, r, Zero), UNCHANGED <<entries, log, best>>
  PROVE  Memory'
<1>1. VisitedPushed'
  BY DEF Memory, VisitedPushed, TypeOK, Update, Zero, Failed
<1>2. LogReplays'
  BY DEF Memory, LogReplays, TypeOK, Update
<1>3. BestAgrees' /\ LogHasRoot' /\ DownKnowsNothing'
  BY DEF Memory, BestAgrees, Roots, LogHasRoot, IsRoot, DownKnowsNothing
<1> QED BY <1>1, <1>2, <1>3 DEF Memory

\* Feedback pushes the same entry to the heap and to the log.
LEMMA FeedbackStep ==
  ASSUME TypeOK, Memory, pc # "load", pc' # "load",
         NEW r \in Records, NEW v \in Values, Feedback(r, v)
  PROVE  VisitedPushed' /\ LogReplays' /\ LogHasRoot' /\ DownKnowsNothing'
<1> USE ValueFacts
<1>1. /\ entries' = entries \union {<<r, v>>}
      /\ log'.pushed = log.pushed \union {<<r, v>>}
      /\ visited' = [visited EXCEPT ![r] = v]
      /\ log'.last = [log.last EXCEPT ![r] = v]
  BY DEF Feedback, Update
<1>2. VisitedPushed'
  BY <1>1 DEF Memory, VisitedPushed, TypeOK
<1>3. LogReplays'
  BY <1>1 DEF Memory, LogReplays, TypeOK
<1>4. LogHasRoot'
  <2>1. \A e \in log.pushed : e[2] \in Int  BY Zenon DEF TypeOK, Pairs
  <2>2. CASE log.pushed = {}
    <3>1. IsRoot(<<r, v>>, log'.pushed)  BY <1>1, <2>2 DEF IsRoot
    <3> QED BY <3>1 DEF LogHasRoot, IsRoot
  <2>3. CASE log.pushed # {}
    <3>1. PICK e \in log.pushed : IsRoot(e, log.pushed)
      BY <2>3 DEF Memory, LogHasRoot
    <3>2. IsRoot(IF v > e[2] THEN <<r, v>> ELSE e, log'.pushed)
      BY <1>1, <2>1, <3>1 DEF IsRoot
    <3> QED BY <3>2 DEF LogHasRoot, IsRoot
  <2> QED BY <2>2, <2>3
<1>5. DownKnowsNothing'  BY DEF DownKnowsNothing
<1> QED BY <1>2, <1>3, <1>4, <1>5

\* A record fed back with the value it is remembered by does not change which
\* entry is the best.
LEMMA RepeatStep ==
  ASSUME TypeOK, Memory, pc # "load",
         NEW r \in Records, visited[r] # Absent,
         Feedback(r, visited[r]), best' = best
  PROVE  BestAgrees'
<1> USE ValueFacts
<1> DEFINE v == visited[r]
<1>1. v \in Values  BY DEF TypeOK
<1>2. entries' = entries \union {<<r, v>>}  BY DEF Feedback
<1>3. v > Failed => <<r, v>> \in entries  BY DEF Memory, VisitedPushed
<1>4. CASE v > Failed
  BY <1>2, <1>3, <1>4 DEF Memory, BestAgrees, Roots
<1>5. CASE ~(v > Failed)
  <2>1. \A e \in entries : e[2] \in Int  BY Zenon DEF TypeOK, Pairs
  <2>2. best[2] \in Int  BY Zenon DEF TypeOK
  <2> SUFFICES ASSUME best[2] > Failed \/ \E e \in entries' : e[2] > Failed
               PROVE  best \in entries' /\ \A f \in entries' : f[2] <= best[2]
    BY DEF BestAgrees, Roots
  <2>3. best[2] > Failed \/ \E e \in entries : e[2] > Failed
    BY <1>2, <1>5
  <2>4. best \in entries /\ \A f \in entries : f[2] <= best[2]
    BY <2>3 DEF Memory, BestAgrees, Roots
  <2>5. best[2] > Failed
    BY <2>1, <2>2, <2>3, <2>4 DEF Failed
  <2>6. v <= best[2]
    <3>1. v \in Int  BY <1>1, Zenon
    <3> HIDE DEF v
    <3> QED BY <3>1, <1>5, <2>2, <2>5 DEF Failed
  <2> QED BY <1>2, <2>4, <2>6
<1> QED BY <1>4, <1>5

\* A result is fed back when it is valid, and becomes the best when it is larger.
LEMMA ResultStep ==
  ASSUME TypeOK, Memory, NEW v \in Failed .. MaxValue, Result(v)
  PROVE  Memory'
<1> USE ValueFacts
<1> DEFINE r == Head(params)
<1>1. r \in Records  BY DEF Result, TypeOK
<1>2. v \in Values /\ v \in Int /\ v >= Failed  BY DEF Failed
<1>3. pc = "results" /\ pc' = "results"  BY DEF Result
<1>4. best[2] \in Int  BY Zenon DEF TypeOK
<1>5. \A e \in entries : e[2] \in Int  BY Zenon DEF TypeOK, Pairs
<1>6. best' = IF v > best[2] THEN <<r, v>> ELSE best  BY DEF Result
<1> HIDE DEF r
<1>7. CASE v > Failed
  <2>1. Feedback(r, v)  BY <1>7 DEF Result, r
  <2>2. VisitedPushed' /\ LogReplays' /\ LogHasRoot' /\ DownKnowsNothing'
    BY <1>1, <1>2, <1>3, <2>1, FeedbackStep
  <2>3. entries' = entries \union {<<r, v>>}  BY <2>1 DEF Feedback
  <2>4. best' \in entries' /\ \A f \in entries' : f[2] <= best'[2]
    <3>1. CASE v > best[2]
      <4>1. best' = <<r, v>>  BY <1>6, <3>1
      <4>2. \A f \in entries : f[2] <= v
        <5> SUFFICES ASSUME NEW f \in entries PROVE f[2] <= v  OBVIOUS
        <5>1. CASE f[2] > Failed
          <6>1. f[2] <= best[2]
            BY <1>3, <5>1 DEF Memory, BestAgrees, Roots
          <6> QED BY <1>2, <1>4, <1>5, <3>1, <6>1
        <5>2. CASE ~(f[2] > Failed)
          BY <1>2, <1>5, <5>2 DEF Failed
        <5> QED BY <5>1, <5>2
      <4> QED BY <1>2, <2>3, <4>1, <4>2
    <3>2. CASE ~(v > best[2])
      <4>1. best' = best  BY <1>6, <3>2
      <4>2. best[2] > Failed /\ v <= best[2]
        BY <1>2, <1>4, <1>7, <3>2 DEF Failed
      <4>3. best \in entries /\ \A f \in entries : f[2] <= best[2]
        BY <1>3, <4>2 DEF Memory, BestAgrees, Roots
      <4> QED BY <2>3, <4>1, <4>2, <4>3
    <3> QED BY <3>1, <3>2
  <2>5. BestAgrees'  BY <2>4 DEF BestAgrees, Roots
  <2> QED BY <2>2, <2>5 DEF Memory
<1>8. CASE ~(v > Failed)
  <2>1. UNCHANGED <<entries, visited, log>>
    BY <1>8 DEF Result, memory
  <2>2. v = Failed  BY <1>2, <1>8 DEF Failed
  <2>3. VisitedPushed' /\ LogReplays' /\ LogHasRoot' /\ DownKnowsNothing'
    BY <1>3, <2>1 DEF Memory, VisitedPushed, LogReplays, LogHasRoot, IsRoot,
                      DownKnowsNothing
  <2>4. BestAgrees'
    <3> SUFFICES ASSUME best'[2] > Failed \/ \E e \in entries : e[2] > Failed
                 PROVE  best' \in Roots
      BY <2>1 DEF BestAgrees, Roots
    <3>1. best[2] > Failed \/ \E e \in entries : e[2] > Failed
      BY <1>4, <1>6, <2>2 DEF Failed
    <3>2. best \in Roots  BY <1>3, <3>1 DEF Memory, BestAgrees
    <3>3. best[2] > Failed
      BY <1>4, <1>5, <3>1, <3>2 DEF Roots, Failed
    <3>4. best' = best  BY <1>4, <1>6, <2>2, <3>3 DEF Failed
    <3> QED BY <3>2, <3>4
  <2> QED BY <2>3, <2>4 DEF Memory
<1> QED BY <1>7, <1>8

\* Recovery rebuilds memory from the log, a crash leaves nothing but the log.
LEMMA LoadStep == ASSUME TypeOK, Memory, Load PROVE Memory'
<1> USE ValueFacts
<1>1. /\ entries' = log.pushed /\ visited' = log.last /\ log' = log
      /\ pc' = "batch"
  BY DEF Load
<1>2. VisitedPushed' /\ LogReplays' /\ LogHasRoot' /\ DownKnowsNothing'
  BY <1>1 DEF Memory, VisitedPushed, LogReplays, LogHasRoot, IsRoot, DownKnowsNothing
<1>3. BestAgrees'
  <2>1. CASE log.pushed = {}
    BY <1>1, <2>1 DEF Load, BestAgrees, Failed
  <2>2. CASE log.pushed # {}
    <3>1. best' \in {e \in log.pushed : \A f \in log.pushed : f[2] <= e[2]}
      BY <2>2 DEF Load
    <3> QED BY <1>1, <3>1 DEF BestAgrees, Roots
  <2> QED BY <2>1, <2>2
<1> QED BY <1>2, <1>3 DEF Memory

LEMMA CrashStep == ASSUME TypeOK, Memory, Crash PROVE Memory'
<1>1. /\ pc' = "load" /\ entries' = {} /\ log' = log
      /\ visited' = [r \in Records |-> Absent] /\ best' = <<NoRecord, Failed>>
  BY DEF Crash
<1> QED
  BY <1>1 DEF Memory, VisitedPushed, LogReplays, BestAgrees, LogHasRoot, IsRoot,
              DownKnowsNothing, Absent, Failed

LEMMA InitMemory == Init => TypeOK /\ Memory
BY ValueFacts, SearchAssumption
   DEF Init, TypeOK, Memory, VisitedPushed, LogReplays, BestAgrees, LogHasRoot,
       IsRoot, DownKnowsNothing, Absent, Failed

LEMMA MemoryStep == TypeOK /\ Memory /\ [Next]_vars => Memory'
<1> SUFFICES ASSUME TypeOK, Memory, [Next]_vars PROVE Memory'  OBVIOUS
<1>1. CASE Load  BY <1>1, LoadStep
<1>2. CASE StartBatch \/ TakeFresh \/ SelectEntry \/ MutateEnds
  BY <1>2, QuietStep DEF StartBatch, TakeFresh, SelectEntry, MutateEnds, memory
<1>3. ASSUME NEW r \in Records, Mutate(r) PROVE Memory'
  BY <1>3, MarkStep DEF Mutate, HandOut
<1>4. ASSUME NEW r \in Records, GetNew(r) PROVE Memory'
  BY <1>4, MarkStep DEF GetNew, HandOut
<1>5. ASSUME NEW r \in Records, GetInvalid(r) PROVE Memory'
  BY <1>5, QuietStep DEF GetInvalid, memory
<1>6. ASSUME NEW r \in Records, GetVisited(r) PROVE Memory'
  <2>1. /\ pc = "get" /\ visited[r] # Absent /\ Feedback(r, visited[r]) /\ best' = best
        /\ pc' # "load"
    BY <1>6 DEF GetVisited, HandOut
  <2>2. visited[r] \in Values  BY <2>1 DEF TypeOK
  <2>3. VisitedPushed' /\ LogReplays' /\ LogHasRoot' /\ DownKnowsNothing'
    BY <2>1, <2>2, FeedbackStep
  <2>4. BestAgrees'  BY <2>1, RepeatStep
  <2> QED BY <2>3, <2>4 DEF Memory
<1>7. CASE GetGivesUp \/ Measure
  BY <1>7, QuietStep DEF GetGivesUp, Measure, HandOut, memory
<1>8. ASSUME NEW v \in Failed .. MaxValue, Result(v) PROVE Memory'
  BY <1>8, ResultStep
<1>9. CASE EndBatch \/ Resume \/ Finish
  BY <1>9, QuietStep DEF EndBatch, Resume, Finish, memory
<1>10. CASE Crash  BY <1>10, CrashStep
<1>11. CASE UNCHANGED vars
  BY <1>11, Zenon DEF vars, Memory, VisitedPushed, LogReplays, BestAgrees, Roots, LogHasRoot,
               IsRoot, DownKnowsNothing
<1> QED
  BY <1>1, <1>2, <1>3, <1>4, <1>5, <1>6, <1>7, <1>8, <1>9, <1>10, <1>11 DEF Next, Search

\* The types of the search state hold in every reachable state.
THEOREM SearchTypes == Spec => []TypeOK
<1>1. Init => TypeOK  BY InitMemory
<1> QED BY <1>1, TypeStep, PTL DEF Spec

LEMMA MemoryAlways == Spec => [](TypeOK /\ Memory)
BY InitMemory, TypeStep, MemoryStep, PTL DEF Spec

\* In every reachable state the log file of SAEntryGenerator replays to the
\* heap and the visited table the process has in memory.
THEOREM SearchLogReplays == Spec => []LogReplays
<1>1. Memory => LogReplays  BY DEF Memory
<1> QED BY <1>1, MemoryAlways, PTL

\* In every reachable state the best of find_optimized_parameters is the root
\* of the generator's heap, once there is a measurement.
THEOREM SearchBestAgrees == Spec => []BestAgrees
<1>1. Memory => BestAgrees  BY DEF Memory
<1> QED BY <1>1, MemoryAlways, PTL

(***************************************************************************)
(* A batch holds a candidate twice only when it was fed back.  The         *)
(* candidates of a batch that is being filled are all marked visited, and  *)
(* so is every entry of the heap, in memory and in the log.                *)
(***************************************************************************)
Filling == pc \in {"next", "get"}

Marked ==
  /\ pc = "load" => params = <<>>
  /\ Filling => \A i \in DOMAIN params : visited[params[i]] # Absent
  /\ \A e \in entries : visited[e[1]] # Absent
  /\ \A e \in log.pushed : log.last[e[1]] # Absent

BatchInv == Marked /\ BatchDistinct

\* What a step does to the entries and to the visited marks: nothing is taken
\* back, and what is pushed is marked.
Grows ==
  /\ entries \subseteq entries'
  /\ \A r \in Records : visited[r] # Absent => visited'[r] # Absent
  /\ \A e \in entries' : visited'[e[1]] # Absent
  /\ \A e \in log'.pushed : log'.last[e[1]] # Absent

LEMMA FeedbackGrows ==
  ASSUME TypeOK, Marked, NEW r \in Records, NEW v \in Values, Feedback(r, v)
  PROVE  Grows /\ visited'[r] # Absent /\ <<r, v>> \in entries'
<1> USE ValueFacts
<1>1. /\ entries' = entries \union {<<r, v>>}
      /\ log'.pushed = log.pushed \union {<<r, v>>}
      /\ visited' = [visited EXCEPT ![r] = v]
      /\ log'.last = [log.last EXCEPT ![r] = v]
  BY DEF Feedback, Update
<1>2. v # Absent  OBVIOUS
<1>3. \A e \in entries : e[1] \in Records  BY Zenon DEF TypeOK, Pairs
<1>4. \A e \in log.pushed : e[1] \in Records  BY Zenon DEF TypeOK, Pairs
<1>5. visited'[r] = v /\ log'.last[r] = v  BY <1>1 DEF TypeOK
<1>6. \A s \in Records : visited[s] # Absent => visited'[s] # Absent
  BY <1>1, <1>2 DEF TypeOK
<1>7. \A s \in Records : log.last[s] # Absent => log'.last[s] # Absent
  BY <1>1, <1>2 DEF TypeOK
<1>8. \A e \in entries' : visited'[e[1]] # Absent
  BY <1>1, <1>2, <1>3, <1>5, <1>6 DEF Marked
<1>9. \A e \in log'.pushed : log'.last[e[1]] # Absent
  BY <1>1, <1>2, <1>4, <1>5, <1>7 DEF Marked
<1> QED BY <1>1, <1>2, <1>5, <1>6, <1>8, <1>9 DEF Grows

LEMMA MarkGrows ==
  ASSUME TypeOK, Marked, NEW r \in Records, visited' = Update(visited, r, Zero),
         UNCHANGED <<entries, log>>
  PROVE  Grows /\ visited'[r] # Absent
<1>1. \A e \in entries : e[1] \in Records  BY Zenon DEF TypeOK, Pairs
<1>2. Zero # Absent  BY DEF Zero, Absent
<1>3. \A s \in Records : visited[s] # Absent => visited'[s] # Absent
  BY <1>2 DEF TypeOK, Update
<1> QED BY <1>1, <1>2, <1>3 DEF Grows, Marked, TypeOK, Update

LEMMA StillGrows == ASSUME Marked, UNCHANGED <<entries, visited, log>> PROVE Grows
BY DEF Marked, Grows

\* A candidate joins the batch: one that was not in it, or one of the entries.
LEMMA HandOutStep ==
  ASSUME TypeOK, BatchInv, Filling, Grows, NEW r \in Records, NEW g, HandOut(r, g),
         visited'[r] # Absent,
         (\A i \in DOMAIN params : params[i] # r) \/ (\E e \in entries' : e[1] = r)
  PROVE  BatchInv'
<1>1. params \in Seq(Records) /\ params' = Append(params, r) /\ pc' = "next"
  BY DEF TypeOK, HandOut
<1>2. DOMAIN params = 1 .. Len(params) /\ DOMAIN params' = 1 .. Len(params) + 1 /\ Len(params) \in Nat
  BY <1>1
<1>3. \A i \in DOMAIN params : params'[i] = params[i] /\ params[i] \in Records
  BY <1>1, <1>2
<1>4. params'[Len(params) + 1] = r
  BY <1>1
<1>5. \A i \in DOMAIN params' : i \in DOMAIN params \/ i = Len(params) + 1
  BY <1>2
<1>6. \A i \in DOMAIN params' : visited'[params'[i]] # Absent
  BY <1>3, <1>4, <1>5, Zenon DEF BatchInv, Marked, Grows
<1>7. BatchDistinct'
  <2> SUFFICES ASSUME NEW i \in DOMAIN params', NEW j \in DOMAIN params', i # j, params'[i] = params'[j]
               PROVE  \E e \in entries' : e[1] = params'[i]
    BY DEF BatchDistinct
  <2>1. CASE i \in DOMAIN params /\ j \in DOMAIN params
    BY <1>3, <2>1 DEF BatchInv, BatchDistinct, Grows
  <2>2. CASE i = Len(params) + 1 \/ j = Len(params) + 1
    <3>1. params'[i] = r  BY <1>4, <2>2
    <3>2. i \in DOMAIN params \/ j \in DOMAIN params  BY <1>5, <2>2
    <3>3. ~\A k \in DOMAIN params : params[k] # r  BY <1>3, <3>1, <3>2, Zenon
    <3> QED BY <3>1, <3>3
  <2> QED BY <1>5, <2>1, <2>2
<1> QED BY <1>1, <1>6, <1>7 DEF BatchInv, Marked, Filling, Grows

\* A step that leaves the batch alone.
LEMMA SameBatchStep ==
  ASSUME TypeOK, BatchInv, Grows, params' = params, pc' # "load", Filling' => Filling
  PROVE  BatchInv'
<1>1. \A i \in DOMAIN params : params[i] \in Records  BY DEF TypeOK
<1> QED BY <1>1 DEF BatchInv, Marked, BatchDistinct, Grows, Filling

\* A batch that is chosen from the old one, every place of it taken once.
Chosen(n, m, f) ==
  /\ f \in [1 .. n -> 1 .. m] /\ DOMAIN params = 1 .. m /\ DOMAIN params' = 1 .. n
  /\ \A i, j \in 1 .. n : f[i] = f[j] => i = j
  /\ \A i \in 1 .. n : params'[i] = params[f[i]]

LEMMA ChosenStep ==
  ASSUME TypeOK, BatchInv, Grows, pc' = "results", NEW n, NEW m, NEW f, Chosen(n, m, f)
  PROVE  BatchInv'
<1>0. /\ f \in [1 .. n -> 1 .. m] /\ DOMAIN params = 1 .. m /\ DOMAIN params' = 1 .. n
      /\ \A i, j \in 1 .. n : f[i] = f[j] => i = j
      /\ \A i \in 1 .. n : params'[i] = params[f[i]]
  BY Zenon DEF Chosen
<1>1. BatchDistinct'
  <2> SUFFICES ASSUME NEW i \in 1 .. n, NEW j \in 1 .. n, i # j, params'[i] = params'[j]
               PROVE  \E e \in entries' : e[1] = params'[i]
    BY <1>0 DEF BatchDistinct
  <2>1. f[i] # f[j] /\ f[i] \in DOMAIN params /\ f[j] \in DOMAIN params
    BY <1>0, Zenon
  <2>2. params[f[i]] = params[f[j]] /\ params'[i] = params[f[i]]  BY <1>0, Zenon
  <2>3. \E e \in entries : e[1] = params[f[i]]
    BY <2>1, <2>2 DEF BatchInv, BatchDistinct
  <2> QED BY <2>2, <2>3 DEF Grows
<1> QED BY <1>1 DEF BatchInv, Marked, Filling, Grows

LEMMA MeasureBatchStep == ASSUME TypeOK, BatchInv, Measure PROVE BatchInv'
<1>1. Grows /\ pc = "next" /\ pc' = "results"
  BY StillGrows DEF Measure, memory, BatchInv
<1>2. params \in Seq(Records)  BY DEF TypeOK
<1>3. CASE Variant = "v3"
  <2>1. params' \in Rankings(params, Kept(Len(params)))  BY <1>3 DEF Measure
  <2> DEFINE n == Kept(Len(params))
             m == Len(params)
  <2>2. PICK f \in [1 .. n -> 1 .. m] :
          (\A i, j \in 1 .. n : f[i] = f[j] => i = j) /\ params' = [i \in 1 .. n |-> params[f[i]]]
    BY <2>1 DEF Rankings
  <2>3. DOMAIN params = 1 .. m /\ DOMAIN params' = 1 .. n
    BY <1>2, <2>2
  <2>4. \A i \in 1 .. n : params'[i] = params[f[i]]  BY <2>2
  <2> HIDE DEF n, m
  <2>5. Chosen(n, m, f)  BY <2>2, <2>3, <2>4, Zenon DEF Chosen
  <2> QED BY <1>1, <2>5, ChosenStep, Zenon
<1>4. CASE Variant # "v3"
  <2>1. params' = params  BY <1>4 DEF Measure
  <2> QED BY <1>1, <2>1, SameBatchStep DEF Filling
<1> QED BY <1>3, <1>4

LEMMA ResultBatchStep ==
  ASSUME TypeOK, BatchInv, NEW v \in Failed .. MaxValue, Result(v) PROVE BatchInv'
<1>1. params \in Seq(Records) /\ params # <<>> /\ pc' = "results" /\ params' = Tail(params)
  BY DEF TypeOK, Result
<1>2. Grows
  <2>1. v \in Values /\ Head(params) \in Records  BY <1>1, ValueFacts
  <2>2. CASE v > Failed
    BY <2>1, <2>2, FeedbackGrows, Zenon DEF Result, BatchInv
  <2>3. CASE ~(v > Failed)
    BY <2>3, StillGrows DEF Result, BatchInv, memory
  <2> QED BY <2>2, <2>3
<1>3. /\ DOMAIN params = 1 .. Len(params) /\ DOMAIN params' = 1 .. Len(params) - 1
      /\ \A i \in 1 .. Len(params) - 1 : params'[i] = params[i + 1]
  BY <1>1
<1>4. PICK m \in Nat, n \in Nat : m = Len(params) /\ m = n + 1  BY <1>1
<1>5. /\ DOMAIN params = 1 .. m /\ DOMAIN params' = 1 .. n
      /\ \A i \in 1 .. n : params'[i] = params[i + 1]
  BY <1>3, <1>4
<1>6. \E f \in [1 .. n -> 1 .. m] : \A i \in 1 .. n : f[i] = i + 1
  <2>1. [i \in 1 .. n |-> i + 1] \in [1 .. n -> 1 .. m]  BY <1>4
  <2> QED BY <2>1, Zenon
<1>7. PICK f \in [1 .. n -> 1 .. m] : \A i \in 1 .. n : f[i] = i + 1  BY <1>6
<1>8. \A i, j \in 1 .. n : f[i] = f[j] => i = j  BY <1>7
<1>9. \A i \in 1 .. n : params'[i] = params[f[i]]  BY <1>5, <1>7
<1>10. DOMAIN params = 1 .. m /\ DOMAIN params' = 1 .. n /\ pc' = "results"  BY <1>1, <1>5
<1>11. Chosen(n, m, f)  BY <1>7, <1>8, <1>9, <1>10, Zenon DEF Chosen
<1> QED BY <1>2, <1>10, <1>11, ChosenStep, Zenon

LEMMA BatchStep == TypeOK /\ BatchInv /\ [Next]_vars => BatchInv'
<1> SUFFICES ASSUME TypeOK, BatchInv, [Next]_vars PROVE BatchInv'  OBVIOUS
<1>1. CASE Load
  <2>1. params' = <<>> /\ pc' = "batch" /\ entries' = log.pushed /\ visited' = log.last /\ log' = log
    BY <1>1 DEF Load, BatchInv, Marked
  <2> QED BY <2>1 DEF BatchInv, Marked, BatchDistinct, Filling
<1>2. CASE StartBatch
  <2>1. params' = <<>> /\ pc' = "next" /\ UNCHANGED <<entries, visited, log>>
    BY <1>2 DEF StartBatch, memory
  <2> QED BY <2>1 DEF BatchInv, Marked, BatchDistinct
<1>3. CASE TakeFresh \/ SelectEntry \/ MutateEnds
  BY <1>3, SameBatchStep, StillGrows
     DEF TakeFresh, SelectEntry, MutateEnds, memory, Filling, BatchInv
<1>4. ASSUME NEW r \in Records, Mutate(r) \/ GetNew(r) PROVE BatchInv'
  <2>1. /\ Filling /\ visited[r] = Absent /\ visited' = Update(visited, r, Zero)
        /\ UNCHANGED <<entries, log>> /\ \E g \in {"top", "output"} : HandOut(r, g)
    BY <1>4 DEF Mutate, GetNew, Filling
  <2>2. Grows /\ visited'[r] # Absent  BY <2>1, MarkGrows DEF BatchInv
  <2>3. \A i \in DOMAIN params : params[i] # r  BY <2>1, Zenon DEF BatchInv, Marked
  <2> QED BY <2>1, <2>2, <2>3, HandOutStep, Zenon
<1>5. ASSUME NEW r \in Records, GetInvalid(r) PROVE BatchInv'
  BY <1>5, SameBatchStep, StillGrows DEF GetInvalid, memory, Filling, BatchInv
<1>6. ASSUME NEW r \in Records, GetVisited(r) PROVE BatchInv'
  <2>1. Filling /\ visited[r] # Absent /\ Feedback(r, visited[r])
    BY <1>6 DEF GetVisited, Filling
  <2>2. visited[r] \in Values  BY <2>1 DEF TypeOK
  <2>3. Grows /\ visited'[r] # Absent /\ <<r, visited[r]>> \in entries'
    BY <2>1, <2>2, FeedbackGrows DEF BatchInv
  <2>4. \E e \in entries' : e[1] = r  BY <2>3
  <2>5. CASE AllowRepeat
    BY <1>6, <2>1, <2>3, <2>4, <2>5, HandOutStep, Zenon DEF GetVisited
  <2>6. CASE ~AllowRepeat
    BY <1>6, <2>1, <2>3, <2>6, SameBatchStep, Zenon DEF GetVisited, Filling
  <2> QED BY <2>5, <2>6
<1>7. CASE GetGivesUp
  <2>1. Filling /\ Grows  BY <1>7, StillGrows DEF GetGivesUp, memory, Filling, BatchInv
  <2>2. CASE pc' = "raised" /\ params' = params
    BY <2>1, <2>2, SameBatchStep
  <2>3. ASSUME NEW e \in Roots, HandOut(e[1], "top") PROVE BatchInv'
    <3>1. e \in entries /\ e[1] \in Records /\ entries' = entries
      BY <1>7 DEF Roots, TypeOK, Pairs, GetGivesUp, memory
    <3>2. visited'[e[1]] # Absent  BY <2>1, <3>1 DEF Grows
    <3> QED BY <2>1, <2>3, <3>1, <3>2, HandOutStep
  <2> QED BY <1>7, <2>2, <2>3 DEF GetGivesUp
<1>8. CASE Measure  BY <1>8, MeasureBatchStep
<1>9. ASSUME NEW v \in Failed .. MaxValue, Result(v) PROVE BatchInv'
  BY <1>9, ResultBatchStep
<1>10. CASE EndBatch \/ Resume \/ Finish
  BY <1>10, SameBatchStep, StillGrows, Zenon DEF EndBatch, Resume, Finish, memory, Filling, BatchInv
<1>11. CASE Crash
  <2>1. params' = <<>> /\ pc' = "load" /\ entries' = {} /\ log' = log
    BY <1>11 DEF Crash
  <2> QED BY <2>1 DEF BatchInv, Marked, BatchDistinct, Filling
<1>12. CASE UNCHANGED vars
  BY <1>12, Zenon DEF vars, BatchInv, Marked, BatchDistinct, Filling
<1> QED
  BY <1>1, <1>2, <1>3, <1>4, <1>5, <1>6, <1>7, <1>8, <1>9, <1>10, <1>11, <1>12
     DEF Next, Search

\* In every reachable state, crashes and resumptions included, a batch of
\* find_optimized_parameters holds a candidate of SAEntryGenerator twice only
\* if the generator has fed that candidate back.
THEOREM SearchBatchDistinct == Spec => []BatchDistinct
<1>1. Init => BatchInv
  BY DEF Init, BatchInv, Marked, BatchDistinct, Filling
<1>2. BatchInv => BatchDistinct  BY DEF BatchInv
<1>3. Spec => []TypeOK  BY SearchTypes
<1> QED BY <1>1, <1>2, <1>3, BatchStep, PTL DEF Spec

(***************************************************************************)
(* The search implements the durable register.                             *)
(***************************************************************************)
Known == IF best[2] > Failed THEN best[2] ELSE Zero

LEMMA BestValueOfRoot ==
  ASSUME NEW S \in SUBSET Pairs, NEW e \in S, IsRoot(e, S), e[2] > Failed
  PROVE  BestValue(S) = e[2]
<1>1. \A f \in S : f[2] \in Values /\ f[2] \in Int  BY ValueFacts, Zenon DEF Pairs
<1> DEFINE Largest(v) == (\E f \in S : f[2] = v) /\ \A f \in S : f[2] <= v
<1>2. e[2] \in Values /\ Largest(e[2])  BY <1>1 DEF IsRoot
<1>3. \A v \in Values : Largest(v) => v = e[2]
  BY <1>1, <1>2
<1>4. BestValue(S) = CHOOSE v \in Values : Largest(v)  BY DEF BestValue
<1> HIDE DEF Largest
<1> QED BY <1>2, <1>3, <1>4

\* A running search knows exactly what its log holds.
Agree == pc # "load" => Known = BestValue(log.pushed)

LEMMA KnownIsDurable == TypeOK /\ Memory => Agree
<1> SUFFICES ASSUME TypeOK, Memory, pc # "load"
             PROVE  Known = BestValue(log.pushed)
  BY DEF Agree
<1>1. entries = log.pushed /\ log.pushed \in SUBSET Pairs
  BY DEF Memory, LogReplays, TypeOK
<1>2. CASE \E e \in entries : e[2] > Failed
  <2>1. IsRoot(best, log.pushed)
    BY <1>1, <1>2, Zenon DEF Memory, BestAgrees, Roots, IsRoot
  <2>2. best[2] > Failed
    <3>1. PICK e \in entries : e[2] > Failed  BY <1>2
    <3>2. e[2] \in Int /\ best[2] \in Int  BY <1>1, ValueFacts, Zenon DEF TypeOK, Pairs
    <3>3. e[2] <= best[2]  BY <1>1, <2>1 DEF IsRoot
    <3> QED BY <3>1, <3>2, <3>3 DEF Failed
  <2> QED BY <1>1, <2>1, <2>2, BestValueOfRoot DEF Known, IsRoot
<1>3. CASE ~\E e \in entries : e[2] > Failed
  <2>1. ~(best[2] > Failed)  BY <1>3 DEF Memory, BestAgrees, Roots
  <2> QED BY <1>1, <1>3, <2>1, Zenon DEF Known, BestValue
<1> QED BY <1>2, <1>3

\* The best of a running search never becomes smaller.
LEMMA KnownGrows ==
  ASSUME TypeOK, Next, ~Load, ~Crash
  PROVE  pc # "load" /\ pc' # "load" /\ (best' = best \/ best'[2] > best[2])
<1>1. CASE StartBatch \/ TakeFresh \/ SelectEntry \/ MutateEnds \/ GetGivesUp \/ Measure
  BY <1>1, Zenon DEF StartBatch, TakeFresh, SelectEntry, MutateEnds, GetGivesUp, Measure, HandOut
<1>2. ASSUME NEW r \in Records, Mutate(r) \/ GetNew(r) \/ GetInvalid(r) \/ GetVisited(r)
      PROVE  pc # "load" /\ pc' # "load" /\ best' = best
  BY <1>2, Zenon DEF Mutate, GetNew, GetInvalid, GetVisited, HandOut
<1>3. ASSUME NEW v \in Failed .. MaxValue, Result(v)
      PROVE  pc # "load" /\ pc' # "load" /\ (best' = best \/ best'[2] > best[2])
  BY <1>3 DEF Result
<1>4. CASE EndBatch \/ Resume \/ Finish
  BY <1>4 DEF EndBatch, Resume, Finish
<1> QED BY <1>1, <1>2, <1>3, <1>4 DEF Next, Search

LEMMA RegisterInit == Init => Register!Init
BY DEF Init, Register!Init, BestValue, Failed, Zero

LEMMA RegisterStep ==
  TypeOK /\ Agree /\ TypeOK' /\ Agree' /\ [Next]_vars
    => [Register!Next]_<<Known, BestValue(log.pushed)>>
<1> SUFFICES ASSUME TypeOK, Agree, TypeOK', Agree', [Next]_vars
             PROVE  \/ Register!Next
                    \/ Known' = Known /\ BestValue(log'.pushed) = BestValue(log.pushed)
  OBVIOUS
<1>1. pc' # "load" => Known' = BestValue(log'.pushed)
  BY DEF Agree
<1>2. CASE Load
  <2>1. log' = log /\ pc' # "load"  BY <1>2 DEF Load
  <2> QED BY <1>1, <2>1 DEF Register!Next, Register!Recover, Known
<1>3. CASE Crash
  <2>1. log' = log /\ Known' = 0  BY <1>3 DEF Crash, Known, Failed, Zero
  <2> QED BY <2>1 DEF Register!Next, Register!Crash, Known
<1>4. CASE Next /\ ~Load /\ ~Crash
  <2>1. pc # "load" /\ pc' # "load" /\ (best' = best \/ best'[2] > best[2])
    BY <1>4, KnownGrows
  <2>2. Known = BestValue(log.pushed)  BY <2>1 DEF Agree
  <2>3. Known' = BestValue(log'.pushed)  BY <1>1, <2>1
  <2>4. CASE best' = best
    BY <2>2, <2>3, <2>4 DEF Known
  <2>5. CASE best'[2] > best[2]
    <3>1. best[2] \in Values /\ best'[2] \in Values  BY DEF TypeOK
    <3>2. Known' \in Values  BY <3>1, ValueFacts DEF Known
    <3>3. Known' > Known \/ Known' = Known
      <4>1. best[2] \in Int /\ best'[2] \in Int  BY <3>1, ValueFacts, Zenon
      <4> QED BY <2>5, <4>1 DEF Known, Failed, Zero
    <3> QED BY <2>2, <2>3, <3>2, <3>3, Zenon DEF Register!Next, Register!Improve, Known
  <2> QED BY <2>1, <2>4, <2>5, Zenon
<1>5. CASE UNCHANGED vars
  BY <1>5 DEF vars, Known
<1> QED BY <1>2, <1>3, <1>4, <1>5, Zenon

\* Crashes and resumptions included, the search of parameter.py implements the
\* durable best-so-far register: its best is in the log once it is known.
THEOREM SearchImplementsRegister == Spec => DurableBest
<1> DEFINE Inv == TypeOK /\ Agree
<1>1. Inv /\ Inv' /\ [Next]_vars => [Register!Next]_<<Known, BestValue(log.pushed)>>
  BY RegisterStep
<1>2. TypeOK /\ Memory => Inv  BY KnownIsDurable DEF Inv
<1> HIDE DEF Inv
<1> QED BY <1>1, <1>2, MemoryAlways, RegisterInit, PTL DEF Spec, DurableBest, Register!Spec, Known
============================================================================
