------------------------- MODULE AutoScheduleProofs -------------------------
(***************************************************************************)
(* Proofs about AutoSchedule, for any schedule space, any topk and any     *)
(* limit on the known schedules, and about ScheduleLibrary around it, for  *)
(* any rounding and any number of sessions and crashes.                    *)
(***************************************************************************)
EXTENDS ScheduleLibrary, TLAPS, FiniteSetTheorems

\* The heap and what auto_schedule has taken out of it are feedback received.
HeapOK ==
  /\ fed \in Seq(Nat)
  /\ topk \subseteq 1 .. Len(fed)
  /\ reverse_sort \in Seq(1 .. Len(fed))
  /\ returned \in 0 .. Len(reverse_sort)
  /\ pc = "drain" => returned = 0
  /\ pc \in {"idle", "choose", "finish"} => returned = Len(reverse_sort)

LEMMA HeapFinite ==
  ASSUME HeapOK
  PROVE  /\ IsFiniteSet(topk) /\ IsFiniteSet(Held) /\ topk \subseteq Held
         /\ Held \subseteq 1 .. Len(fed) /\ Len(fed) \in Nat
<1>1. Len(fed) \in Nat /\ IsFiniteSet(1 .. Len(fed))
  BY FS_Interval DEF HeapOK
<1>2. Drawn \subseteq 1 .. Len(fed)
  <2>1. Len(reverse_sort) \in Nat /\ returned \in Nat
    BY DEF HeapOK
  <2>2. \A i \in (returned + 1) .. Len(reverse_sort) : reverse_sort[i] \in 1 .. Len(fed)
    <3>1. reverse_sort \in Seq(1 .. Len(fed))
      BY Zenon DEF HeapOK
    <3>2. \A i \in (returned + 1) .. Len(reverse_sort) : i \in 1 .. Len(reverse_sort)
      BY <2>1
    <3>3. \A i \in 1 .. Len(reverse_sort) : reverse_sort[i] \in 1 .. Len(fed)
      BY <3>1
    <3> QED
      BY <3>2, <3>3, Zenon
  <2> QED
    BY <2>2 DEF Drawn
<1>3. topk \subseteq Held /\ Held \subseteq 1 .. Len(fed)
  BY <1>2 DEF HeapOK, Held
<1> QED
  BY <1>1, <1>3, FS_Subset, Zenon

\* auto_schedule takes the heap apart and puts it together without giving
\* anything up.
LEMMA ScheduleHolds ==
  ASSUME HeapOK, Schedule
  PROVE  HeapOK' /\ Held' = Held /\ UNCHANGED <<fed, threads>>
<1>0. Len(fed) \in Nat /\ Len(reverse_sort) \in Nat /\ returned \in Nat
  BY DEF HeapOK
<1>1. CASE Begin
  <2>1. /\ reverse_sort' = <<>> /\ returned' = 0 /\ UNCHANGED <<topk, fed, threads>>
        /\ pc' = "drain" /\ returned = Len(reverse_sort)
    BY <1>1 DEF Begin, HeapOK
  <2> QED
    BY <1>0, <2>1 DEF HeapOK, Held, Drawn
<1>2. CASE Drain
  <2>1. PICK i \in topk : reverse_sort' = Append(reverse_sort, i) /\ topk' = topk \ {i}
    BY <1>2 DEF Drain
  <2>2. UNCHANGED <<pc, returned, fed, threads>> /\ pc = "drain" /\ returned = 0
    BY <1>2 DEF Drain, HeapOK
  <2>3. i \in 1 .. Len(fed) /\ HeapOK'
    BY <2>1, <2>2 DEF HeapOK
  <2>4. Drawn' = Drawn \cup {i}
    <3>1. /\ Len(reverse_sort') = Len(reverse_sort) + 1
          /\ reverse_sort'[Len(reverse_sort) + 1] = i
          /\ \A j \in 1 .. Len(reverse_sort) : reverse_sort'[j] = reverse_sort[j]
      BY <2>1, <2>3 DEF HeapOK
    <3>2. Drawn' = {reverse_sort'[j] : j \in 1 .. Len(reverse_sort) + 1}
      BY <2>2, <3>1 DEF Drawn
    <3>3. Drawn = {reverse_sort[j] : j \in 1 .. Len(reverse_sort)}
      BY <2>2 DEF Drawn
    <3> QED
      BY <1>0, <3>1, <3>2, <3>3
  <2> QED
    BY <2>1, <2>2, <2>3, <2>4 DEF Held
<1>3. CASE Return
  <2>1. /\ returned < Len(reverse_sort) /\ returned' = returned + 1
        /\ topk' = topk \cup {reverse_sort[returned + 1]}
        /\ UNCHANGED <<pc, reverse_sort, fed, threads>> /\ pc = "return"
    BY <1>3 DEF Return
  <2>2. HeapOK'
    <3>1. reverse_sort[returned + 1] \in 1 .. Len(fed)
      BY <1>0, <2>1 DEF HeapOK
    <3>2. topk' \subseteq 1 .. Len(fed')
      BY <2>1, <3>1, Zenon DEF HeapOK
    <3>3. returned' \in 0 .. Len(reverse_sort')
      BY <1>0, <2>1
    <3> QED
      BY <2>1, <3>2, <3>3 DEF HeapOK
  <2>3. Drawn = Drawn' \cup {reverse_sort[returned + 1]}
    BY <1>0, <2>1 DEF Drawn
  <2> QED
    BY <2>1, <2>2, <2>3 DEF Held
<1>4. CASE Drained \/ Returned \/ Draw
  <2>1. UNCHANGED <<reverse_sort, returned, topk, fed, threads>>
    BY <1>4 DEF Drained, Returned, Draw
  <2>2. \/ pc' = "return"
        \/ pc' = "choose" /\ returned = Len(reverse_sort)
        \/ pc' = "finish" /\ pc = "choose"
    BY <1>4 DEF Drained, Returned, Draw
  <2> QED
    BY <2>1, <2>2 DEF HeapOK, Held, Drawn
<1>5. CASE Finish
  <2>1. /\ reverse_sort' = <<>> /\ returned' = 0 /\ UNCHANGED <<topk, fed, threads>>
        /\ pc' = "idle" /\ returned = Len(reverse_sort)
    BY <1>5 DEF Finish, HeapOK
  <2> QED
    BY <1>0, <2>1 DEF HeapOK, Held, Drawn
<1> QED
  BY <1>1, <1>2, <1>3, <1>4, <1>5 DEF Schedule

\* The four outcomes of a feedback, by what they do to the heap.
LEMMA FeedbackCases ==
  ASSUME HeapOK, NEW o \in waiting, NEW v \in 0 .. MaxValue, Feedback(o, v)
  PROVE  /\ HeapOK' /\ Drawn' = Drawn /\ UNCHANGED <<local, threads>> /\ (threads \/ pc = "idle")
         /\ \/ UNCHANGED <<topk, fed>>
            \/ /\ fed' = Append(fed, v)
               /\ \/ Cardinality(topk) < Topk /\ topk' = topk \cup {Len(fed) + 1}
                  \/ /\ Cardinality(topk) >= Topk
                     /\ \E i \in topk : /\ IsTop(i)
                                        /\ \/ v < fed[i] /\ topk' = topk
                                           \/ v >= fed[i] /\ topk' = (topk \ {i}) \cup {Len(fed) + 1}
<1>1. v \in Nat /\ Len(fed) \in Nat
  BY AutoScheduleAssumption DEF HeapOK
<1>2. Append(fed, v) \in Seq(Nat) /\ Len(Append(fed, v)) = Len(fed) + 1
  BY <1>1 DEF HeapOK
<1>3. UNCHANGED <<local, threads>> /\ (threads \/ pc = "idle") /\ AddFeedback(o, v)
  BY DEF Feedback
<1>4. UNCHANGED <<pc, reverse_sort, returned>> /\ Drawn' = Drawn
  BY <1>3 DEF local, Drawn
<1>5. \/ UNCHANGED <<topk, fed>>
      \/ /\ fed' = Append(fed, v)
         /\ \/ Cardinality(topk) < Topk /\ topk' = topk \cup {Len(fed) + 1}
            \/ /\ Cardinality(topk) >= Topk
               /\ \E i \in topk : /\ IsTop(i)
                                  /\ \/ v < fed[i] /\ topk' = topk
                                     \/ v >= fed[i] /\ topk' = (topk \ {i}) \cup {Len(fed) + 1}
  BY <1>2, <1>3, Zenon DEF AddFeedback, FeedbackFailed, FeedbackRoom, FeedbackWorse, FeedbackReplace
<1>6. HeapOK'
  <2>1. fed' \in Seq(Nat) /\ Len(fed') \in Nat /\ Len(fed') >= Len(fed) /\ topk' \subseteq 1 .. Len(fed')
    <3>1. CASE UNCHANGED <<topk, fed>>
      BY <1>1, <3>1 DEF HeapOK
    <3>2. CASE fed' = Append(fed, v) /\ topk' \subseteq topk \cup {Len(fed) + 1}
      <4>1. Len(fed') = Len(fed) + 1 /\ fed' \in Seq(Nat)
        BY <1>2, <3>2
      <4>2. 1 .. Len(fed) \subseteq 1 .. Len(fed') /\ Len(fed) + 1 \in 1 .. Len(fed')
        BY <1>1, <4>1
      <4>3. topk \subseteq 1 .. Len(fed)
        BY DEF HeapOK
      <4>4. topk' \subseteq 1 .. Len(fed')
        BY <3>2, <4>2, <4>3, Zenon
      <4> QED
        BY <1>1, <4>1, <4>4
    <3> QED
      BY <1>5, <3>1, <3>2
  <2>2. reverse_sort' \in Seq(1 .. Len(fed'))
    BY <1>1, <1>4, <2>1 DEF HeapOK
  <2> QED
    BY <1>4, <2>1, <2>2 DEF HeapOK
<1> QED
  BY <1>3, <1>4, <1>5, <1>6

LEMMA Swap ==
  ASSUME NEW S, IsFiniteSet(S), NEW k \in S, NEW n, n \notin S
  PROVE  IsFiniteSet((S \ {k}) \cup {n}) /\ Cardinality((S \ {k}) \cup {n}) = Cardinality(S)
<1>1. IsFiniteSet(S \ {k}) /\ Cardinality(S \ {k}) = Cardinality(S) - 1 /\ n \notin S \ {k}
  BY FS_RemoveElement
<1>2. Cardinality(S) \in Nat
  BY FS_CardinalityType
<1>3. /\ IsFiniteSet((S \ {k}) \cup {n})
      /\ Cardinality((S \ {k}) \cup {n}) = Cardinality(S \ {k}) + 1
  BY <1>1, FS_AddElement
<1> QED
  BY <1>1, <1>2, <1>3

-----------------------------------------------------------------------------
(* The heap                                                                  *)

AtLeast(i) == {j \in Held : fed[j] >= fed[i]}

LEMMA FeedbackKeeps ==
  ASSUME HeapOK, TopkKept, NEW o \in waiting, NEW v \in 0 .. MaxValue, Feedback(o, v)
  PROVE  TopkKept'
<1> DEFINE n == Len(fed) + 1
<1>0. /\ Len(fed) \in Nat /\ v \in Nat /\ Topk \in Nat /\ topk \subseteq 1 .. Len(fed)
      /\ \A i \in 1 .. Len(fed) : fed[i] \in Nat
  <2>1. fed \in Seq(Nat) /\ topk \subseteq 1 .. Len(fed)
    BY Zenon DEF HeapOK
  <2>2. Topk \in Nat /\ v \in Nat
    BY AutoScheduleAssumption
  <2> QED
    BY <2>1, <2>2
<1>1. /\ IsFiniteSet(topk) /\ IsFiniteSet(Held) /\ Held \subseteq 1 .. Len(fed) /\ topk \subseteq Held
      /\ Drawn' = Drawn /\ Held = topk \cup Drawn /\ Held' = topk' \cup Drawn
  BY HeapFinite, FeedbackCases DEF Held
<1>2. CASE UNCHANGED <<topk, fed>>
  BY <1>1, <1>2 DEF TopkKept, Held
<1>3. SUFFICES ASSUME fed' = Append(fed, v), topk' \subseteq topk \cup {n}, NEW i \in 1 .. n
               PROVE  i \in Held' \/ Cardinality(AtLeast(i)') >= Topk
  <2>1. CASE fed' = Append(fed, v)
    <3>1. DOMAIN fed' = 1 .. n
      BY <1>0, <2>1 DEF HeapOK
    <3> QED
      BY <1>3, <3>1, <2>1, FeedbackCases, Zenon DEF TopkKept, AtLeast
  <2> QED
    BY <1>2, <2>1, FeedbackCases
<1>4. fed'[n] = v /\ \A j \in 1 .. Len(fed) : fed'[j] = fed[j]
  BY <1>0, <1>3 DEF HeapOK
<1>5. IsFiniteSet(Held') /\ IsFiniteSet(AtLeast(i)')
  <2>1. Held' \subseteq Held \cup {n} /\ AtLeast(i)' \subseteq Held'
    BY <1>1, <1>3, Zenon DEF AtLeast
  <2>2. IsFiniteSet(Held \cup {n})
    BY <1>1, FS_AddElement, Zenon
  <2>3. IsFiniteSet(Held')
    BY <2>1, <2>2, FS_Subset
  <2> QED
    BY <2>1, <2>3, FS_Subset
<1>a. i # n /\ i \notin Held =>
        i \in 1 .. Len(fed) /\ AtLeast(i) \subseteq Held /\ Cardinality(AtLeast(i)) >= Topk
  <2>1. DOMAIN fed = 1 .. Len(fed) /\ (i # n => i \in 1 .. Len(fed))
    BY <1>0 DEF HeapOK
  <2> QED
    BY <2>1, Zenon DEF TopkKept, AtLeast
\* Enough to find Topk held evaluations that are as good as i's.
<1>6. ASSUME NEW S, S \subseteq AtLeast(i)', Cardinality(S) >= Topk
      PROVE  Cardinality(AtLeast(i)') >= Topk
  <2>1. /\ Cardinality(S) \in Nat /\ Cardinality(AtLeast(i)') \in Nat
        /\ Cardinality(S) <= Cardinality(AtLeast(i)')
    BY <1>5, <1>6, FS_Subset, FS_CardinalityType
  <2> QED
    BY <1>0, <1>6, <2>1
<1>7. CASE topk' = topk \cup {n}
  <2>1. CASE i = n \/ i \in Held
    BY <1>1, <1>7, <2>1
  <2>2. CASE i # n /\ i \notin Held
    <3>1. i \in 1 .. Len(fed) /\ Cardinality(AtLeast(i)) >= Topk
      BY <1>a, <2>2
    <3>2. AtLeast(i) \subseteq AtLeast(i)'
      BY <1>1, <1>4, <1>7, <3>1 DEF AtLeast
    <3> QED
      BY <1>6, <3>1, <3>2
  <2> QED
    BY <2>1, <2>2
<1>8. ASSUME Cardinality(topk) >= Topk, NEW k \in topk, IsTop(k), v < fed[k], topk' = topk
      PROVE  i \in Held' \/ Cardinality(AtLeast(i)') >= Topk
  <2>1. CASE i = n
    <3>1. \A j \in topk : fed'[j] >= v
      BY <1>0, <1>4, <1>8 DEF IsTop
    <3>2. topk \subseteq AtLeast(i)'
      BY <1>1, <1>4, <1>8, <2>1, <3>1 DEF AtLeast
    <3> QED
      BY <1>6, <1>8, <3>2
  <2>2. CASE i # n /\ i \notin Held
    <3>1. i \in 1 .. Len(fed) /\ Cardinality(AtLeast(i)) >= Topk
      BY <1>a, <2>2
    <3>2. AtLeast(i) \subseteq AtLeast(i)'
      BY <1>1, <1>4, <1>8, <3>1 DEF AtLeast
    <3> QED
      BY <1>6, <3>1, <3>2
  <2> QED
    BY <1>1, <1>8, <2>1, <2>2
<1>9. ASSUME Cardinality(topk) >= Topk, NEW k \in topk, IsTop(k), v >= fed[k],
             topk' = (topk \ {k}) \cup {n}
      PROVE  i \in Held' \/ Cardinality(AtLeast(i)') >= Topk
  <2>0. n \notin Held /\ n \notin topk /\ k \in 1 .. Len(fed) /\ n # k
    BY <1>0, <1>1
  <2>1. CASE i = k
    <3>1. \A j \in (topk \ {k}) \cup {n} : j \in Held' /\ fed'[j] >= fed'[i]
      BY <1>0, <1>1, <1>4, <1>9, <2>0, <2>1 DEF IsTop
    <3>2. (topk \ {k}) \cup {n} \subseteq AtLeast(i)'
      BY <3>1 DEF AtLeast
    <3>3. Cardinality((topk \ {k}) \cup {n}) >= Topk
      BY <1>1, <1>9, <2>0, Swap
    <3> QED
      BY <1>6, <3>2, <3>3
  <2>2. CASE i # n /\ i \notin Held
    <3>1. i \in 1 .. Len(fed) /\ Cardinality(AtLeast(i)) >= Topk /\ AtLeast(i) \subseteq Held
      BY <1>a, <2>2
    <3>2. \A j \in AtLeast(i) : j # k => j \in AtLeast(i)'
      BY <1>1, <1>4, <1>9, <3>1 DEF AtLeast
    <3>3. CASE k \in AtLeast(i)
      <4>1. n \in AtLeast(i)'
        <5>1. fed[k] >= fed[i] /\ fed[k] \in Nat /\ fed[i] \in Nat /\ fed'[i] = fed[i]
          BY <1>0, <1>4, <2>0, <3>1, <3>3 DEF AtLeast
        <5> QED
          BY <1>0, <1>1, <1>4, <1>9, <5>1 DEF AtLeast
      <4>2. (AtLeast(i) \ {k}) \cup {n} \subseteq AtLeast(i)'
        BY <3>2, <4>1
      <4>3. IsFiniteSet(AtLeast(i)) /\ n \notin AtLeast(i)
        BY <1>1, <2>0, <3>1, FS_Subset
      <4>4. Cardinality((AtLeast(i) \ {k}) \cup {n}) >= Topk
        BY <3>1, <3>3, <4>3, Swap, Zenon
      <4> QED
        BY <1>6, <4>2, <4>4
    <3>4. CASE k \notin AtLeast(i)
      BY <1>6, <3>1, <3>2, <3>4
    <3> QED
      BY <3>3, <3>4
  <2> QED
    BY <1>1, <1>9, <2>1, <2>2
<1> QED
  <2>1. fed' # fed
    <3>1. Len(fed') = Len(fed) + 1
      BY <1>0, <1>3 DEF HeapOK
    <3> QED
      BY <1>0, <3>1
  <2> QED
    BY <1>7, <1>8, <1>9, <2>1, FeedbackCases

LEMMA KeptStep ==
  ASSUME HeapOK, TopkKept, [Next]_vars
  PROVE  HeapOK' /\ TopkKept'
<1>1. CASE Schedule
  BY <1>1, ScheduleHolds DEF TopkKept
<1>2. CASE UNCHANGED vars
  <2>1. UNCHANGED <<pc, reverse_sort, returned, topk, fed>>
    BY <1>2 DEF vars, local
  <2>2. HeapOK' /\ Held' = Held
    BY <2>1 DEF HeapOK, Held, Drawn
  <2> QED
    BY <2>1, <2>2 DEF TopkKept
<1>3. CASE \E o \in waiting, v \in 0 .. MaxValue : Feedback(o, v)
  BY <1>3, FeedbackCases, FeedbackKeeps
<1> QED
  BY <1>1, <1>2, <1>3 DEF Next

\* Whatever order the schedule, build and evaluate threads come in, add_feedback
\* and the drain of auto_schedule give an evaluation up only for topk better ones.
THEOREM HeapKeepsTheBest == Spec => []TopkKept
<1>1. Init => HeapOK /\ TopkKept
  BY DEF Init, HeapOK, TopkKept
<1>2. HeapOK /\ TopkKept /\ [Next]_vars => (HeapOK /\ TopkKept)'
  BY KeptStep
<1> QED
  BY <1>1, <1>2, PTL DEF Spec

-----------------------------------------------------------------------------
(* The heap of a single thread                                               *)

Full(S) == Cardinality(S) = IF Len(fed) < Topk THEN Len(fed) ELSE Topk

HeldExact == ~threads => Full(Held)

LEMMA ExactStep ==
  ASSUME HeapOK, HeldExact, [Next]_vars
  PROVE  HeldExact'
<1>1. CASE Schedule
  BY <1>1, ScheduleHolds DEF HeldExact, Full
<1>2. CASE UNCHANGED vars
  BY <1>2, Zenon DEF vars, local, HeldExact, Full, Held, Drawn
<1>3. ASSUME NEW o \in waiting, NEW v \in 0 .. MaxValue, Feedback(o, v), ~threads
      PROVE  Full(Held)'
  <2>1. Held = topk /\ Held' = topk'
    <3>1. pc = "idle" /\ Len(reverse_sort) \in Nat
      <4>1. pc = "idle"
        BY <1>3, FeedbackCases, Zenon
      <4>2. reverse_sort \in Seq(1 .. Len(fed))
        BY Zenon DEF HeapOK
      <4> QED
        BY <4>1, <4>2
    <3>2. Drawn = {}
      BY <3>1 DEF HeapOK, Drawn
    <3> QED
      BY <1>3, <3>2, FeedbackCases DEF Held
  <2>2. /\ IsFiniteSet(topk) /\ Cardinality(topk) \in Nat /\ Len(fed) \in Nat /\ Topk \in Nat
        /\ Len(fed) + 1 \notin topk /\ Full(topk) /\ v \in Nat
    BY <1>3, <2>1, HeapFinite, FS_CardinalityType, AutoScheduleAssumption DEF HeldExact
  <2>3. CASE UNCHANGED <<topk, fed>>
    BY <2>1, <2>2, <2>3 DEF Full
  <2>4. CASE fed' = Append(fed, v)
    <3>1. Len(fed') = Len(fed) + 1
      BY <2>2, <2>4 DEF HeapOK
    <3>2. CASE Cardinality(topk) < Topk /\ topk' = topk \cup {Len(fed) + 1}
      <4>1. Cardinality(topk') = Cardinality(topk) + 1
        BY <2>2, <3>2, FS_AddElement, Zenon
      <4> QED
        BY <2>1, <2>2, <3>1, <3>2, <4>1 DEF Full
    <3>3. CASE Cardinality(topk) >= Topk /\ Cardinality(topk') = Cardinality(topk)
      BY <2>1, <2>2, <3>1, <3>3 DEF Full
    <3>4. \A i \in topk : Cardinality((topk \ {i}) \cup {Len(fed) + 1}) = Cardinality(topk)
      BY <2>2, Swap
    <3> QED
      BY <1>3, <2>3, <2>4, <3>2, <3>3, <3>4, FeedbackCases
  <2> QED
    BY <1>3, <2>3, <2>4, FeedbackCases, Zenon
<1> QED
  BY <1>1, <1>2, <1>3, FeedbackCases DEF Next, HeldExact

\* Without threads (get_schedule_result) the heap holds topk evaluations, or all
\* of them while there are fewer, whenever auto_schedule has put it back.
THEOREM HeapIsExact == Spec => []TopkExact
<1>1. Init => HeapOK /\ TopkKept /\ HeldExact
  <2> SUFFICES ASSUME Init PROVE HeapOK /\ TopkKept /\ HeldExact
    OBVIOUS
  <2>1. HeapOK /\ TopkKept
    BY DEF Init, HeapOK, TopkKept
  <2>2. Held = {} /\ Len(fed) = 0
    BY DEF Init, Held, Drawn
  <2> QED
    BY <2>1, <2>2, FS_EmptySet, AutoScheduleAssumption DEF HeldExact, Full
<1>2. HeapOK /\ TopkKept /\ HeldExact /\ [Next]_vars => (HeapOK /\ TopkKept /\ HeldExact)'
  BY KeptStep, ExactStep
<1>3. HeapOK /\ HeldExact => TopkExact
  <2> SUFFICES ASSUME HeapOK, HeldExact, ~threads, pc \in {"idle", "choose", "finish"}
               PROVE  Full(topk)
    BY DEF TopkExact, Full
  <2>1. Drawn = {}
    <3>1. returned = Len(reverse_sort) /\ Len(reverse_sort) \in Nat
      BY DEF HeapOK
    <3> QED
      BY <3>1 DEF Drawn
  <2>2. Held = topk
    BY <2>1 DEF Held
  <2> QED
    BY <2>2 DEF HeldExact
<1> QED
  BY <1>1, <1>2, <1>3, PTL DEF Spec

-----------------------------------------------------------------------------
(* The schedules the context knows                                           *)

\* The objects allocated, but for the one auto_schedule is about to hand out.
Kept == 1 .. (IF pc = "finish" THEN Len(made) - 1 ELSE Len(made))

ObjectsOK ==
  /\ made \in Seq(Entities \cup {NoEntity})
  /\ pc = "finish" => Len(made) > 0
  /\ known \subseteq Kept /\ knowing \subseteq Kept

TrackOK == ObjectsOK /\ SchedulesTracked

LEMMA Pruned ==
  ASSUME NEW k, IsFiniteSet(k), Cardinality(k) <= KnownLimit + 1, NEW r \in Prune(k)
  PROVE  IsFiniteSet(r) /\ Cardinality(r) <= KnownLimit /\ r \subseteq k
<1>0. KnownLimit \in Nat \ {0} /\ KnownLimit \div 2 + 2 \in Nat \ {0} /\ Cardinality(k) \in Nat
  BY AutoScheduleAssumption, FS_CardinalityType
<1>1. CASE Cardinality(k) > KnownLimit
  <2>1. PICK D \in SUBSET k : r = k \ D /\ Cardinality(D) = KnownLimit \div 2 + 2
    BY <1>1 DEF Prune
  <2>2. D # {} /\ IsFiniteSet(D)
    BY <1>0, <2>1, FS_EmptySet, FS_Subset
  <2>3. PICK d \in D : TRUE
    BY <2>2
  <2>4. IsFiniteSet(k \ {d}) /\ Cardinality(k \ {d}) = Cardinality(k) - 1 /\ r \in SUBSET (k \ {d})
    BY <2>1, <2>3, FS_RemoveElement
  <2>5. IsFiniteSet(r) /\ Cardinality(r) <= Cardinality(k \ {d}) /\ Cardinality(r) \in Nat
    BY <2>4, FS_Subset, FS_CardinalityType
  <2> QED
    BY <1>0, <2>4, <2>5
<1>2. CASE ~(Cardinality(k) > KnownLimit)
  BY <1>0, <1>2 DEF Prune
<1> QED
  BY <1>1, <1>2

\* Before the first schedule is handed out, with at most a reference fed back.
LEMMA NothingTracked ==
  ASSUME pc = "idle", made \in Seq(Entities \cup {NoEntity}), known \subseteq 1 .. Len(made),
         Cardinality(known) <= KnownLimit, knowing = {}, waiting = {}, Cardinality(Held) = Len(fed), Len(fed) \in Nat
  PROVE  TrackOK
<1>1. Cardinality(knowing \ waiting) = 0
  BY FS_EmptySet
<1>2. Cardinality(knowing \ waiting) <= Len(fed) - Cardinality(Held)
  BY <1>1
<1>3. ObjectsOK
  BY DEF ObjectsOK, Kept
<1> QED
  BY <1>2, <1>3 DEF TrackOK, SchedulesTracked

LEMMA KeptFinite ==
  ASSUME ObjectsOK
  PROVE  /\ IsFiniteSet(Kept) /\ IsFiniteSet(known) /\ IsFiniteSet(knowing) /\ IsFiniteSet(knowing \ waiting)
         /\ Cardinality(known) \in Nat /\ Cardinality(knowing \ waiting) \in Nat /\ Len(made) \in Nat
<1>1. Len(made) \in Nat /\ IsFiniteSet(Kept)
  BY FS_Interval DEF ObjectsOK, Kept
<1>2. IsFiniteSet(known) /\ IsFiniteSet(knowing)
  BY <1>1, FS_Subset, Zenon DEF ObjectsOK
<1>3. IsFiniteSet(knowing \ waiting)
  BY <1>2, FS_Subset
<1> QED
  BY <1>1, <1>2, <1>3, FS_CardinalityType, Zenon

\* A feedback adds an evaluation, and at most that one to the heap.
LEMMA HeldGrows ==
  ASSUME HeapOK, NEW o \in waiting, NEW v \in 0 .. MaxValue, Feedback(o, v)
  PROVE  /\ Cardinality(Held) \in Nat /\ Cardinality(Held') \in Nat /\ Len(fed) \in Nat
         /\ Len(fed') - Cardinality(Held') >= Len(fed) - Cardinality(Held)
         /\ fed' = Append(fed, v) => Len(fed') = Len(fed) + 1
<1>1. /\ IsFiniteSet(Held) /\ Held \subseteq 1 .. Len(fed) /\ Len(fed) \in Nat
      /\ Drawn' = Drawn
  BY HeapFinite, FeedbackCases
<1>2. Cardinality(Held) \in Nat
  BY <1>1, FS_CardinalityType
<1>3. fed' = Append(fed, v) => Len(fed') = Len(fed) + 1
  BY AutoScheduleAssumption DEF HeapOK
<1>4. CASE UNCHANGED <<topk, fed>>
  <2>1. Held' = Held
    BY <1>1, <1>4 DEF Held
  <2> QED
    BY <1>1, <1>2, <1>3, <1>4, <2>1
<1>5. CASE fed' = Append(fed, v) /\ topk' \subseteq topk \cup {Len(fed) + 1}
  <2>1. Held' \subseteq Held \cup {Len(fed) + 1}
    BY <1>1, <1>5 DEF Held
  <2>2. Len(fed) + 1 \notin Held
    BY <1>1
  <2>3. /\ IsFiniteSet(Held \cup {Len(fed) + 1})
        /\ Cardinality(Held \cup {Len(fed) + 1}) = Cardinality(Held) + 1
    BY <1>1, <2>2, FS_AddElement
  <2>4. Cardinality(Held') <= Cardinality(Held \cup {Len(fed) + 1}) /\ Cardinality(Held') \in Nat
    BY <2>1, <2>3, FS_Subset, FS_CardinalityType
  <2> QED
    BY <1>1, <1>2, <1>3, <1>5, <2>3, <2>4
<1> QED
  BY <1>4, <1>5, FeedbackCases

LEMMA TrackStep ==
  ASSUME HeapOK, TrackOK, [Next]_vars
  PROVE  TrackOK'
<1>0. /\ Len(made) \in Nat /\ made \in Seq(Entities \cup {NoEntity})
      /\ known \subseteq Kept /\ knowing \subseteq Kept /\ waiting \subseteq knowing /\ known \cap knowing = {}
  BY KeptFinite, Zenon DEF TrackOK, ObjectsOK, SchedulesTracked
<1>1. CASE Schedule
  <2>0. Held' = Held /\ fed' = fed
    BY <1>1, ScheduleHolds
  <2>1. CASE Begin \/ Drain \/ Drained \/ Return \/ Returned
    <3>1. UNCHANGED <<made, known, knowing, waiting>> /\ pc # "finish" /\ pc' # "finish"
      BY <2>1, Zenon DEF Begin, Drain, Drained, Return, Returned
    <3>2. Kept' = Kept
      BY <3>1 DEF Kept
    <3> QED
      BY <2>0, <3>1, <3>2, Zenon DEF TrackOK, ObjectsOK, SchedulesTracked
  <2>2. CASE Draw
    <3>1. /\ UNCHANGED <<known, knowing, waiting>> /\ pc = "choose" /\ pc' = "finish"
          /\ \E e \in Entities : made' = Append(made, e)
      BY <2>2, Zenon DEF Draw
    <3>2. made' \in Seq(Entities \cup {NoEntity}) /\ Len(made') = Len(made) + 1
      BY <1>0, <3>1
    <3>3. Kept' = Kept /\ Len(made') > 0
      BY <1>0, <3>1, <3>2 DEF Kept
    <3> QED
      BY <1>0, <2>0, <3>1, <3>2, <3>3, Zenon DEF TrackOK, ObjectsOK, SchedulesTracked
  <2>3. CASE Finish
    <3> DEFINE n == Len(made)
    <3>1. /\ pc = "finish" /\ pc' = "idle" /\ known' = known
          /\ knowing' = knowing \cup {n} /\ waiting' = waiting \cup {n}
          /\ \E e \in Entities : made' = [made EXCEPT ![n] = e]
      BY <2>3, Zenon DEF Finish
    <3>2. n \in 1 .. n /\ made' \in Seq(Entities \cup {NoEntity}) /\ Len(made') = n
      BY <1>0, <3>1 DEF TrackOK, ObjectsOK
    <3>3. Kept' = 1 .. n /\ Kept \subseteq Kept' /\ n \in Kept' /\ n \notin Kept
      BY <1>0, <3>1, <3>2 DEF Kept
    <3>4. ObjectsOK'
      BY <1>0, <3>1, <3>2, <3>3, Zenon DEF ObjectsOK
    <3>5. knowing' \ waiting' = knowing \ waiting
      BY <1>0, <3>1, <3>3
    <3>6. waiting' \subseteq knowing' /\ known' \cap knowing' = {}
      BY <1>0, <3>1, <3>3
    <3> QED
      BY <2>0, <3>1, <3>4, <3>5, <3>6, Zenon DEF TrackOK, SchedulesTracked
  <2> QED
    BY <1>1, <2>1, <2>2, <2>3 DEF Schedule
<1>2. CASE UNCHANGED vars
  <2>1. UNCHANGED <<pc, reverse_sort, returned, topk, fed, made, known, knowing, waiting>>
    BY <1>2 DEF vars, local
  <2>2. Held' = Held /\ Kept' = Kept
    BY <2>1 DEF Held, Drawn, Kept
  <2> QED
    BY <2>1, <2>2, Zenon DEF TrackOK, ObjectsOK, SchedulesTracked
<1>3. ASSUME NEW o \in waiting, NEW v \in 0 .. MaxValue, Feedback(o, v)
      PROVE  TrackOK'
  <2>1. UNCHANGED <<pc, made>> /\ waiting' = waiting \ {o} /\ AddFeedback(o, v)
    BY <1>3 DEF Feedback, local
  <2>2. Kept' = Kept /\ o \in knowing /\ o \in Kept /\ o \notin known
    BY <1>0, <2>1 DEF Kept
  <2>3. /\ Cardinality(Held) \in Nat /\ Cardinality(Held') \in Nat /\ Len(fed) \in Nat
        /\ Len(fed') - Cardinality(Held') >= Len(fed) - Cardinality(Held)
        /\ fed' = Append(fed, v) => Len(fed') = Len(fed) + 1
    BY <1>3, HeldGrows
  <2>4. /\ IsFiniteSet(known) /\ IsFiniteSet(knowing \ waiting)
        /\ Cardinality(knowing \ waiting) \in Nat /\ Cardinality(known) \in Nat
        /\ Cardinality(known) <= KnownLimit /\ KnownLimit \in Nat
        /\ Cardinality(knowing \ waiting) <= Len(fed) - Cardinality(Held)
    BY KeptFinite, AutoScheduleAssumption DEF TrackOK, SchedulesTracked
  <2>5. CASE Remember(o)
    <3>1. known' \in Prune(known \cup {o}) /\ knowing' = knowing \ {o}
      BY <2>5 DEF Remember
    <3>2. IsFiniteSet(known \cup {o}) /\ Cardinality(known \cup {o}) = Cardinality(known) + 1
      BY <2>2, <2>4, FS_AddElement
    <3>3. Cardinality(known \cup {o}) <= KnownLimit + 1
      BY <2>4, <3>2
    <3>4. Cardinality(known') <= KnownLimit /\ known' \subseteq known \cup {o}
      BY <3>1, <3>2, <3>3, Pruned
    <3>5. knowing' \ waiting' = knowing \ waiting /\ waiting' \subseteq knowing' /\ known' \cap knowing' = {}
      BY <1>0, <2>1, <3>1, <3>4
    <3>6. known' \subseteq Kept' /\ knowing' \subseteq Kept'
      BY <1>0, <2>2, <3>1, <3>4
    <3>7. Cardinality(knowing' \ waiting') <= Len(fed') - Cardinality(Held')
      <4>1. Len(fed') \in Nat
        <5>1. HeapOK'
          BY <1>3, FeedbackCases
        <5> QED
          BY <5>1 DEF HeapOK
      <4>2. Cardinality(knowing' \ waiting') = Cardinality(knowing \ waiting)
        BY <3>5
      <4> QED
        BY <2>3, <2>4, <4>1, <4>2
    <3>8. ObjectsOK'
      BY <2>1, <3>6, Zenon DEF TrackOK, ObjectsOK
    <3> QED
      BY <3>4, <3>5, <3>7, <3>8 DEF TrackOK, SchedulesTracked
  <2>6. CASE FeedbackWorse(o, v)
    <3>1. fed' = Append(fed, v) /\ UNCHANGED <<topk, known, knowing>>
      BY <2>6 DEF FeedbackWorse
    <3>2. Held' = Held
      BY <1>3, <3>1, FeedbackCases DEF Held
    <3>3. knowing' \ waiting' = (knowing \ waiting) \cup {o} /\ o \notin knowing \ waiting
      BY <2>1, <2>2, <3>1
    <3>4. Cardinality(knowing' \ waiting') = Cardinality(knowing \ waiting) + 1
      BY <2>4, <3>3, FS_AddElement
    <3>5. Cardinality(knowing' \ waiting') <= Len(fed') - Cardinality(Held')
      BY <2>3, <2>4, <3>1, <3>2, <3>4
    <3>6. waiting' \subseteq knowing' /\ known' \cap knowing' = {}
      BY <1>0, <2>1, <3>1
    <3>7. ObjectsOK'
      BY <2>1, <2>2, <3>1, Zenon DEF TrackOK, ObjectsOK
    <3> QED
      BY <2>4, <3>1, <3>5, <3>6, <3>7, Zenon DEF TrackOK, SchedulesTracked
  <2> QED
    BY <2>1, <2>5, <2>6, Zenon DEF AddFeedback, FeedbackFailed, FeedbackRoom, FeedbackReplace
<1> QED
  BY <1>1, <1>2, <1>3 DEF Next

-----------------------------------------------------------------------------
(* What is written of a performance                                          *)

LEMMA Division ==
  ASSUME NEW a \in Nat, NEW d \in Nat \ {0}
  PROVE  a \div d \in Nat /\ d * (a \div d) <= a /\ a < d * (a \div d) + d
  OBVIOUS

LEMMA Multiples ==
  ASSUME NEW d \in Nat \ {0}, NEW m \in Nat, NEW n \in Nat, d * m < d * n + d
  PROVE  m <= n /\ d * m \in Nat /\ d * m <= d * n
  OBVIOUS

LEMMA WrittenFacts ==
  /\ \A p \in Nat : Written(p) \in Nat /\ Written(Written(p)) = Written(p)
  /\ \A p, q \in Nat : p <= q => Written(p) <= Written(q)
  /\ Written(0) = 0 /\ Written(Grain) = Grain
<1> DEFINE h == Grain \div 2
           Q(p) == (p + h) \div Grain
<1>1. Grain \in Nat \ {0} /\ h \in Nat /\ h < Grain
  BY LibraryAssumption
<1> HIDE DEF h
<1>2. \A p \in Nat : /\ p + h \in Nat /\ Q(p) \in Nat
                     /\ Grain * Q(p) <= p + h /\ p + h < Grain * Q(p) + Grain
  <2> TAKE p \in Nat
  <2>1. p + h \in Nat
    BY <1>1
  <2> QED
    BY <1>1, <2>1, Division
<1>3. \A p \in Nat : Written(p) = Grain * Q(p)
  BY DEF Written, h
<1> HIDE DEF Q
<1>4. \A p, q \in Nat : p <= q => Written(p) <= Written(q)
  <2> SUFFICES ASSUME NEW p \in Nat, NEW q \in Nat, p <= q PROVE Written(p) <= Written(q)
    OBVIOUS
  <2>1. Grain * Q(p) < Grain * Q(q) + Grain
    <3>1. Grain * Q(p) \in Nat /\ Grain * Q(q) \in Nat
      BY <1>1, <1>2
    <3>2. Grain * Q(p) <= p + h /\ q + h < Grain * Q(q) + Grain
      BY <1>2
    <3> QED
      BY <1>1, <3>1, <3>2
  <2>2. Grain * Q(p) <= Grain * Q(q)
    BY <1>1, <1>2, <2>1, Multiples, Zenon
  <2> QED
    BY <1>3, <2>2
<1>5. \A k \in Nat : Grain * k \in Nat /\ Written(Grain * k) = Grain * k
  <2> SUFFICES ASSUME NEW k \in Nat PROVE Grain * k \in Nat /\ Written(Grain * k) = Grain * k
    OBVIOUS
  <2>1. Grain * k \in Nat
    BY <1>1
  <2> DEFINE m == Q(Grain * k)
  <2>2. m \in Nat /\ Grain * m <= Grain * k + h /\ Grain * k + h < Grain * m + Grain
    BY <1>2, <2>1
  <2>3. Grain * m \in Nat
    BY <1>1, <2>2
  <2>4. Grain * m < Grain * k + Grain /\ Grain * k < Grain * m + Grain
    BY <1>1, <2>1, <2>2, <2>3
  <2>5. m <= k /\ k <= m
    BY <1>1, <2>2, <2>4, Multiples
  <2> QED
    BY <1>3, <2>1, <2>2, <2>5
<1>6. \A p \in Nat : Written(p) \in Nat /\ Written(Written(p)) = Written(p)
  BY <1>2, <1>3, <1>5
<1>7. Written(0) = 0
  <2>1. Grain * 0 = 0 /\ 0 \in Nat
    BY <1>1
  <2> QED
    BY <1>5, <2>1
<1>8. Written(Grain) = Grain
  <2>1. Grain * 1 = Grain /\ 1 \in Nat
    BY <1>1
  <2> QED
    BY <1>5, <2>1
<1> QED
  BY <1>4, <1>6, <1>7, <1>8

-----------------------------------------------------------------------------
(* The invariant of the library                                              *)

\* The file, what run_functions has read of it, and what it owes.
FileOK ==
  /\ prog \in {"none", "idle", "saving"}
  /\ due \in [{Mine, Other} -> Nat] /\ \A t \in {Mine, Other} : Written(due[t]) = due[t]
  /\ DOMAIN Lines \subseteq {Mine, Other}
  /\ \A t \in DOMAIN Lines : Lines[t] \in Entry /\ Lines[t].perf = due[t]
  /\ prog # "saving" => left = {} /\ \A t \in {Mine, Other} \ DOMAIN Lines : due[t] = 0
  /\ prog = "saving" =>
       /\ file = Lines /\ DOMAIN stored \subseteq {Mine, Other} /\ left \subseteq DOMAIN stored
       /\ DOMAIN Lines = DOMAIN stored \ left
       /\ \A t \in DOMAIN stored : stored[t] \in Entry /\ Written(stored[t].perf) = due[t]
       /\ \A t \in {Mine, Other} \ DOMAIN stored : due[t] = 0

AtMostOne(q) == q = <<>> \/ \E f \in Entry : q = <<f>>

\* What best_functions and the evaluation in progress have to do with the
\* performances the scheduler was told of.
BestOK ==
  /\ AtMostOne(best) /\ AtMostOne(evaluating) /\ fed \in Seq(Nat)
  /\ evaluating # <<>> => Len(fed) > 0 /\ fed[Len(fed)] = Head(evaluating).perf
  /\ best = <<>> => Len(fed) = Len(evaluating)
  /\ best # <<>> =>
       /\ \A i \in 1 .. Len(fed) - Len(evaluating) : fed[i] <= Head(best).perf
       /\ \/ \E i \in 1 .. Len(fed) - Len(evaluating) : fed[i] = Head(best).perf
          \/ Head(best).perf <= due[Mine] /\ (threads => Head(best).perf = 0)

\* Nothing is left of a session that ended.
Fresh ==
  prog = "none" =>
    /\ best = <<>> /\ evaluating = <<>> /\ fed = <<>> /\ topk = {} /\ ~threads
    /\ pc = "idle" /\ reverse_sort = <<>> /\ returned = 0
    /\ made = <<>> /\ known = {} /\ knowing = {} /\ waiting = {}

IsMeasured(f) == \E m \in measured : m.entity = f.entity /\ Written(m.perf) = Written(f.perf)

AllMeasured ==
  /\ Mine \in DOMAIN Lines => IsMeasured(Lines[Mine])
  /\ prog = "saving" /\ Mine \in DOMAIN stored => IsMeasured(stored[Mine])
  /\ best # <<>> => IsMeasured(Head(best))
  /\ evaluating # <<>> => IsMeasured(Head(evaluating))

LEMMA OneFacts ==
  /\ AtMostOne(<<>>) /\ Len(<<>>) = 0 /\ DOMAIN <<>> = {}
  /\ \A f \in Entry : /\ AtMostOne(<<f>>) /\ <<f>> # <<>> /\ Head(<<f>>) = f /\ Len(<<f>>) = 1
                      /\ Append(<<>>, f) = <<f>> /\ f.perf \in Nat
                      /\ \A g \in Entry : Tail(<<g>> \o <<f>>) = <<f>>
<1>1. AtMostOne(<<>>) /\ Len(<<>>) = 0 /\ DOMAIN <<>> = {}
  BY DEF AtMostOne
<1>2. ASSUME NEW f \in Entry
      PROVE  /\ AtMostOne(<<f>>) /\ <<f>> # <<>> /\ Head(<<f>>) = f /\ Len(<<f>>) = 1
             /\ Append(<<>>, f) = <<f>> /\ f.perf \in Nat
  <2>1. <<f>> # <<>> /\ Head(<<f>>) = f /\ Len(<<f>>) = 1
    OBVIOUS
  <2>2. Append(<<>>, f) = <<f>>
    OBVIOUS
  <2>3. f.perf \in Nat
    BY DEF Entry
  <2>4. AtMostOne(<<f>>)
    BY DEF AtMostOne
  <2> QED
    BY <2>1, <2>2, <2>3, <2>4
<1>3. ASSUME NEW f \in Entry, NEW g \in Entry PROVE Tail(<<g>> \o <<f>>) = <<f>>
  <2>1. <<g>> \o <<f>> = <<g, f>>
    <3> DEFINE s == <<g>> \o <<f>>
    <3>1. <<g>> \in Seq(Entry) /\ <<f>> \in Seq(Entry)
      OBVIOUS
    <3>2. s \in Seq(Entry) /\ Len(s) = 2
      BY <3>1
    <3>3. s[1] = g /\ s[2] = f
      BY <3>1
    <3> HIDE DEF s
    <3>4. s = <<g, f>>
      BY <3>2, <3>3
    <3> QED
      BY <3>4 DEF s
  <2>2. Tail(<<g, f>>) = <<f>>
    OBVIOUS
  <2> QED
    BY <2>1, <2>2, Zenon
<1> QED
  BY <1>1, <1>2, <1>3, Zenon

LibInv == HeapOK /\ TopkKept /\ TrackOK /\ FileOK /\ BestOK /\ Fresh /\ AllMeasured

LEMMA LibraryStart ==
  ASSUME LibraryInit
  PROVE  LibInv
<1>1. HeapOK /\ TopkKept /\ fed \in Seq(Nat)
  BY DEF LibraryInit, Init, HeapOK, TopkKept
<1>2. Fresh
  BY DEF LibraryInit, Init, Fresh
<1>3. BestOK
  BY <1>1, OneFacts, Zenon DEF LibraryInit, Init, BestOK
<1>4. Mine # Other
  BY DEF Mine, Other
<1>5. \/ DOMAIN Lines = {}
      \/ DOMAIN Lines = {Other} /\ Lines[Other] = OtherLine
  BY OneFacts DEF LibraryInit, Lines
<1>6. OtherLine \in Entry /\ OtherLine.perf = Grain /\ Grain \in Nat
  BY LibraryAssumption DEF OtherLine, Entry
<1>7. FileOK
  <2>1. \A t \in {Mine, Other} : due[t] = IF t \in DOMAIN Lines THEN Lines[t].perf ELSE 0
    BY DEF LibraryInit
  <2>2. \A t \in {Mine, Other} : due[t] \in Nat /\ Written(due[t]) = due[t]
    BY <1>5, <1>6, <2>1, WrittenFacts, Zenon
  <2>3. due \in [{Mine, Other} -> Nat]
    BY <2>2, Zenon DEF LibraryInit
  <2> QED
    BY <1>5, <1>6, <2>1, <2>2, <2>3, Zenon DEF LibraryInit, FileOK
<1>8. AllMeasured
  BY <1>4, <1>5 DEF LibraryInit, AllMeasured
<1>9. TrackOK
  <2>1. Held = {} /\ Len(fed) = 0 /\ Len(made) = 0 /\ made \in Seq(Entities \cup {NoEntity})
    BY DEF LibraryInit, Init, Held, Drawn
  <2>2. pc = "idle" /\ known = {} /\ knowing = {} /\ waiting = {}
    BY DEF LibraryInit, Init
  <2>3. Cardinality({}) = 0 /\ 0 \in Nat /\ 0 <= KnownLimit
    BY FS_EmptySet, AutoScheduleAssumption
  <2> QED
    BY <2>1, <2>2, <2>3, NothingTracked, Zenon
<1> QED
  BY <1>1, <1>2, <1>3, <1>7, <1>8, <1>9 DEF LibInv

-----------------------------------------------------------------------------
(* One step of the library                                                   *)

\* The file is not touched, and no save begins, ends or goes on.
LEMMA FileUntouched ==
  ASSUME FileOK, UNCHANGED <<stored, left, file, due>>,
         prog' \in {"none", "idle", "saving"}, prog' = "saving" <=> prog = "saving"
  PROVE  FileOK' /\ Lines' = Lines
BY Zenon DEF FileOK, Lines, Entry

LEMMA CreateStep ==
  ASSUME LibInv, BeginTuning \/ BeginTuningReference \/ TestScheduleReference
  PROVE  LibInv'
<1>0. /\ prog = "none" /\ prog' = "idle"
      /\ UNCHANGED <<stored, left, file, due, evaluating, measured, local, waiting>>
  BY DEF BeginTuning, BeginTuningReference, TestScheduleReference, Create, context
<1>a. made = <<>> /\ known = {} /\ knowing = {} /\ waiting' = {}
  BY <1>0 DEF LibInv, Fresh
<1>1. FileOK' /\ Lines' = Lines
  BY <1>0, FileUntouched DEF LibInv
<1>2. /\ best = <<>> /\ evaluating' = <<>> /\ fed = <<>> /\ topk = {}
      /\ pc' = "idle" /\ reverse_sort' = <<>> /\ returned' = 0 /\ ~threads
  BY <1>0 DEF LibInv, Fresh, local
<1>3. Fresh'
  BY <1>0 DEF Fresh
<1>4. \/ best' = <<>>
      \/ Mine \in DOMAIN Lines /\ Lines[Mine] \in Entry /\ best' = <<Lines[Mine]>>
         /\ Lines[Mine].perf = due[Mine]
  BY <1>2, OneFacts, Zenon DEF BeginTuning, BeginTuningReference, TestScheduleReference, Load, LibInv, FileOK
<1>5. AllMeasured'
  <2>1. \A f : IsMeasured(f)' <=> IsMeasured(f)
    BY <1>0 DEF IsMeasured
  <2>2. best' # <<>> => IsMeasured(Head(best'))
    BY <1>4, OneFacts, Zenon DEF LibInv, AllMeasured
  <2>3. Mine \in DOMAIN Lines' => IsMeasured(Lines'[Mine])
    BY <1>1, Zenon DEF LibInv, AllMeasured
  <2> QED
    BY <1>0, <1>2, <2>1, <2>2, <2>3, Zenon DEF AllMeasured, IsMeasured
<1>b. ASSUME knowing' = {}, made' \in Seq(Entities \cup {NoEntity}), known' \subseteq 1 .. Len(made'),
             Cardinality(known') <= KnownLimit, Cardinality(topk') = Len(fed'), Len(fed') \in Nat
      PROVE  TrackOK'
  <2>1. Held' = topk'
    BY <1>2 DEF Held, Drawn
  <2>2. Cardinality(knowing' \ waiting') = 0
    BY <1>a, <1>b, FS_EmptySet
  <2>3. Cardinality(knowing' \ waiting') <= Len(fed') - Cardinality(Held')
    BY <1>b, <2>1, <2>2
  <2>4. ObjectsOK'
    BY <1>2, <1>b DEF ObjectsOK, Kept
  <2> QED
    BY <1>a, <1>b, <2>3, <2>4 DEF TrackOK, SchedulesTracked
<1>6. CASE TrackOK' /\ fed' = <<>> /\ topk' = {} /\ (best' = <<>> \/ ~threads' \/ Head(best').perf = 0)
  <2>1. HeapOK' /\ TopkKept'
    BY <1>2, <1>6 DEF HeapOK, TopkKept
  <2>2. BestOK'
    <3>1. AtMostOne(best') /\ AtMostOne(evaluating') /\ fed' \in Seq(Nat) /\ Len(fed') = 0 /\ Len(evaluating') = 0
      <4>1. AtMostOne(best') /\ AtMostOne(evaluating')
        BY <1>2, <1>4, OneFacts, Zenon
      <4>2. fed' \in Seq(Nat) /\ Len(fed') = 0 /\ Len(evaluating') = 0
        BY <1>2, <1>6
      <4> QED
        BY <4>1, <4>2
    <3>2. best' # <<>> => Head(best').perf = due'[Mine] /\ due'[Mine] \in Nat /\ (threads' => Head(best').perf = 0)
      BY <1>0, <1>4, <1>6, OneFacts
    <3> QED
      BY <1>2, <3>1, <3>2 DEF BestOK
  <2> QED
    BY <1>1, <1>3, <1>5, <1>6, <2>1, <2>2 DEF LibInv
<1>7. CASE TrackOK' /\ best' # <<>> /\ fed' = Append(fed, Head(best').perf) /\ topk' = {1}
  <2> DEFINE v == Head(best').perf
  <2>1. v \in Nat /\ fed' = <<v>> /\ AtMostOne(best')
    <3>1. AtMostOne(best')
      BY <1>4, OneFacts, Zenon
    <3>2. v \in Nat
      BY <1>4, <1>7, OneFacts, Zenon
    <3>3. fed' = <<v>>
      BY <1>2, <1>7, <3>2
    <3> QED
      BY <3>1, <3>2, <3>3
  <2> HIDE DEF v
  <2>2. fed' \in Seq(Nat) /\ Len(fed') = 1 /\ fed'[1] = v /\ DOMAIN fed' = {1}
    BY <2>1
  <2>3. HeapOK' /\ TopkKept'
    <3>1. TopkKept'
      BY <1>7, <2>2 DEF TopkKept, Held
    <3>2. HeapOK'
      BY <1>2, <1>7, <2>2 DEF HeapOK
    <3> QED
      BY <3>1, <3>2
  <2>4. BestOK'
    <3>1. Len(evaluating') = 0 /\ AtMostOne(evaluating')
      BY <1>2, OneFacts
    <3>2. \A i \in 1 .. 1 - 0 : fed'[i] = v
      BY <2>2
    <3>3. 1 \in 1 .. 1 - 0
      OBVIOUS
    <3> QED
      BY <1>2, <1>7, <2>1, <2>2, <3>1, <3>2, <3>3 DEF BestOK, v
  <2> QED
    BY <1>1, <1>3, <1>5, <1>7, <2>3, <2>4 DEF LibInv
<1>c. UNCHANGED <<made, known, knowing, fed, topk>> => TrackOK'
  <2>1. Cardinality({}) = 0 /\ Len(<<>>) = 0 /\ 0 <= KnownLimit
    BY FS_EmptySet, AutoScheduleAssumption
  <2> QED
    BY <1>2, <1>a, <1>b, <2>1
<1>8. CASE BeginTuning
  BY <1>2, <1>6, <1>8, <1>c DEF BeginTuning
<1>9. CASE TestScheduleReference
  BY <1>2, <1>6, <1>9, <1>c DEF TestScheduleReference, context
<1>10. CASE BeginTuningReference
  <2>1. CASE best' = <<>>
    BY <1>2, <1>6, <1>10, <1>c, <2>1, Zenon DEF BeginTuningReference
  <2>2. CASE best' # <<>>
    <3>1. /\ AddFeedback(Len(made'), Head(best').perf)
          /\ made' = Append(made, Head(best').entity)
      BY <1>10, <2>2, Zenon DEF BeginTuningReference
    <3>a. made' \in Seq(Entities \cup {NoEntity}) /\ Len(made') = 1
      <4>1. Head(best').entity \in Entities \cup {NoEntity}
        <5>1. Lines[Mine] \in Entry /\ Head(best') = Lines[Mine]
          BY <1>4, <2>2, OneFacts, Zenon
        <5> QED
          BY <5>1 DEF Entry
      <4> QED
        BY <1>a, <3>1, <4>1
    <3>2. Cardinality(topk) = 0 /\ ~(Cardinality(topk) >= Topk) /\ Len(Append(fed, Head(best').perf)) = 1
      BY <1>2, FS_EmptySet, AutoScheduleAssumption
    <3>3. \/ Head(best').perf = 0 /\ UNCHANGED <<topk, fed>>
          \/ fed' = Append(fed, Head(best').perf) /\ topk' = topk \cup {Len(fed')}
      BY <3>1, <3>2, Zenon DEF AddFeedback, FeedbackFailed, FeedbackRoom, FeedbackWorse, FeedbackReplace
    <3>4. Remember(1)
      BY <3>1, <3>2, <3>a, Zenon DEF AddFeedback, FeedbackFailed, FeedbackRoom, FeedbackWorse, FeedbackReplace
    <3>5. TrackOK'
      <4>1. IsFiniteSet(known \cup {1}) /\ Cardinality(known \cup {1}) <= KnownLimit + 1
        <5>1. IsFiniteSet({}) /\ Cardinality({}) = 0 /\ KnownLimit \in Nat
          BY FS_EmptySet, AutoScheduleAssumption
        <5>2. IsFiniteSet({} \cup {1}) /\ Cardinality({} \cup {1}) = 0 + 1
          BY <5>1, FS_AddElement
        <5> QED
          BY <1>a, <5>1, <5>2
      <4>2. Cardinality(known') <= KnownLimit /\ known' \subseteq known \cup {1} /\ knowing' = knowing \ {1}
        BY <3>4, <4>1, Pruned DEF Remember
      <4>3. known' \subseteq 1 .. Len(made') /\ knowing' = {}
        BY <1>a, <3>a, <4>2
      <4>4. Cardinality(topk') = Len(fed') /\ Len(fed') \in Nat
        <5>1. Cardinality({}) = 0 /\ Len(<<>>) = 0 /\ Cardinality({1}) = 1
          <6>1. IsFiniteSet({}) /\ Cardinality({}) = 0
            BY FS_EmptySet
          <6>2. Cardinality({} \cup {1}) = 0 + 1
            BY <6>1, FS_AddElement
          <6> QED
            BY <6>1, <6>2
        <5>2. CASE UNCHANGED <<topk, fed>>
          BY <1>2, <5>1, <5>2
        <5>3. CASE fed' = Append(fed, Head(best').perf) /\ topk' = topk \cup {Len(fed')}
          <6>1. Len(fed') = 1 /\ topk' = {1}
            BY <1>2, <3>2, <5>3
          <6> QED
            BY <5>1, <6>1
        <5> QED
          BY <3>3, <5>2, <5>3, Zenon
      <4> QED
        BY <1>b, <3>a, <4>2, <4>3, <4>4
    <3> QED
      BY <1>2, <1>6, <1>7, <2>2, <3>2, <3>3, <3>5, Zenon
  <2> QED
    BY <2>1, <2>2
<1> QED
  BY <1>8, <1>9, <1>10

LEMMA ThreadStep ==
  ASSUME LibInv,
         \/ ScheduleThread
         \/ \E o \in waiting : FunctionFails(o) \/ \E v \in 1 .. MaxValue : Evaluate(o, v)
  PROVE  LibInv'
<1>0. /\ threads /\ threads' /\ prog # "none" /\ prog' = prog
      /\ UNCHANGED <<stored, left, file, due, best>>
  <2>1. threads => prog # "none"
    BY Zenon DEF LibInv, Fresh
  <2>2. CASE ScheduleThread
    BY <2>1, <2>2, Zenon DEF ScheduleThread, Schedule, Begin, Drain, Drained, Return, Returned, Draw, Finish, program
  <2>3. CASE \E o \in waiting : FunctionFails(o) \/ \E v \in 1 .. MaxValue : Evaluate(o, v)
    BY <2>1, <2>3 DEF FunctionFails, Evaluate, Feedback, program
  <2> QED
    BY <2>2, <2>3, Zenon
<1>1. FileOK' /\ Lines' = Lines /\ Fresh'
  BY <1>0, FileUntouched, Zenon DEF LibInv, Fresh, FileOK
<1>2. HeapOK' /\ TopkKept' /\ TrackOK'
  <2>1. Next
    <3>1. 0 \in 0 .. MaxValue /\ 1 .. MaxValue \subseteq 0 .. MaxValue
      BY AutoScheduleAssumption
    <3> QED
      BY <3>1, Zenon DEF ScheduleThread, FunctionFails, Evaluate, Next
  <2> QED
    BY <2>1, KeptStep, TrackStep DEF LibInv
<1>3. CASE UNCHANGED <<fed, evaluating, measured>>
  <2>1. BestOK'
    BY <1>0, <1>3, Zenon DEF LibInv, BestOK, AtMostOne
  <2>2. AllMeasured'
    BY <1>0, <1>1, <1>3, Zenon DEF LibInv, AllMeasured, IsMeasured
  <2> QED
    BY <1>1, <1>2, <2>1, <2>2 DEF LibInv
<1>4. ASSUME NEW o \in waiting, NEW v \in 1 .. MaxValue, Evaluate(o, v)
      PROVE  LibInv'
  <2>0. made[o] \in Entities \cup {NoEntity}
    <3>1. o \in Kept /\ made \in Seq(Entities \cup {NoEntity})
      BY Zenon DEF LibInv, TrackOK, ObjectsOK, SchedulesTracked
    <3>2. Len(made) \in Nat
      BY <3>1
    <3>3. Kept \subseteq 1 .. Len(made)
      BY <3>2 DEF Kept
    <3> QED
      BY <3>1, <3>3
  <2>a. PICK x \in Entry : x = [entity |-> made[o], perf |-> v]
    <3>1. v \in Nat
      BY AutoScheduleAssumption
    <3>2. [entity |-> made[o], perf |-> v] \in Entry
      BY <2>0, <3>1 DEF Entry
    <3> QED
      BY <3>2, Zenon
  <2>1. x \in Entry /\ x.perf = v /\ v \in Nat /\ v > 0
    BY <2>a, AutoScheduleAssumption
  <2>2. /\ evaluating = <<>> /\ evaluating' = <<x>> /\ measured' = measured \cup {x} /\ AddFeedback(o, v)
    BY <1>4, <2>a, Zenon DEF Evaluate, Feedback
  <2>3. fed' = Append(fed, v) /\ fed \in Seq(Nat) /\ AtMostOne(best)
    BY <2>1, <2>2 DEF AddFeedback, FeedbackFailed, FeedbackRoom, FeedbackWorse, FeedbackReplace, LibInv, BestOK
  <2>4. /\ fed' \in Seq(Nat) /\ Len(fed) \in Nat /\ Len(fed') = Len(fed) + 1 /\ fed'[Len(fed')] = v
        /\ \A i \in 1 .. Len(fed) : fed'[i] = fed[i]
    BY <2>1, <2>3
  <2>5. /\ Len(evaluating) = 0 /\ Len(evaluating') = 1 /\ AtMostOne(evaluating') /\ evaluating' # <<>>
        /\ Head(evaluating') = x
    BY <2>1, <2>2, OneFacts, Zenon
  <2>6. Len(fed') - Len(evaluating') = Len(fed) /\ Len(fed) - Len(evaluating) = Len(fed)
    BY <2>4, <2>5
  <2>7. BestOK'
    <3>1. best' = <<>> => Len(fed') = Len(evaluating')
      BY <1>0, <2>4, <2>5 DEF LibInv, BestOK
    <3>2. best' # <<>> =>
            /\ \A i \in 1 .. Len(fed) : fed'[i] <= Head(best').perf
            /\ \/ \E i \in 1 .. Len(fed) : fed'[i] = Head(best').perf
               \/ Head(best').perf <= due'[Mine] /\ (threads' => Head(best').perf = 0)
      BY <1>0, <2>4, <2>6, Zenon DEF LibInv, BestOK
    <3> QED
      BY <1>0, <2>1, <2>3, <2>4, <2>5, <2>6, <3>1, <3>2 DEF BestOK
  <2>8. AllMeasured'
    <3>1. \A f : IsMeasured(f) => IsMeasured(f)'
      BY <2>2, Zenon DEF IsMeasured
    <3>2. IsMeasured(x)'
      BY <2>2 DEF IsMeasured
    <3> QED
      BY <1>0, <1>1, <2>5, <3>1, <3>2, Zenon DEF LibInv, AllMeasured, IsMeasured
  <2> QED
    BY <1>1, <1>2, <2>7, <2>8 DEF LibInv
<1>5. CASE ScheduleThread
  BY <1>3, <1>5, ScheduleHolds, Zenon DEF ScheduleThread, LibInv
<1>6. ASSUME NEW o \in waiting, FunctionFails(o) PROVE LibInv'
  <2>1. UNCHANGED <<fed, evaluating, measured>>
    BY <1>6 DEF FunctionFails, Feedback, AddFeedback, FeedbackFailed, FeedbackRoom, FeedbackWorse, FeedbackReplace
  <2> QED
    BY <1>3, <2>1
<1> QED
  BY <1>4, <1>5, <1>6

LEMMA StoreStep ==
  ASSUME LibInv, StoreBest
  PROVE  LibInv'
<1>0. /\ UNCHANGED <<vars, program, file, measured, due>> /\ evaluating # <<>> /\ evaluating' = <<>>
      /\ best' = IF best = <<>> THEN evaluating
                 ELSE IF Head(evaluating).perf > Head(best).perf THEN Tail(best \o evaluating) ELSE best
  BY DEF StoreBest
<1>1. /\ UNCHANGED <<prog, stored, left, file, due, fed, threads>>
      /\ prog # "none" /\ prog \in {"none", "idle", "saving"}
  BY <1>0, Zenon DEF program, vars, LibInv, Fresh, FileOK
<1>2. FileOK' /\ Lines' = Lines /\ Fresh'
  BY <1>1, FileUntouched DEF LibInv, Fresh
<1>3. HeapOK' /\ TopkKept' /\ TrackOK'
  BY <1>0, KeptStep, TrackStep DEF LibInv
<1>4. PICK x \in Entry : evaluating = <<x>>
  BY <1>0, Zenon DEF LibInv, BestOK, AtMostOne
<1>5. /\ Head(evaluating) = x /\ Len(evaluating) = 1 /\ x.perf \in Nat /\ Len(evaluating') = 0
      /\ AtMostOne(evaluating') /\ AtMostOne(evaluating)
  BY <1>0, <1>4, OneFacts, Zenon
<1>6. fed \in Seq(Nat) /\ Len(fed) \in Nat /\ Len(fed) > 0 /\ fed[Len(fed)] = x.perf
  BY <1>0, <1>5 DEF LibInv, BestOK
<1>7. /\ \A i \in 1 .. Len(fed) : fed[i] \in Nat /\ (i = Len(fed) \/ i \in 1 .. Len(fed) - 1)
      /\ Len(fed) \in 1 .. Len(fed) /\ 1 .. Len(fed) - 1 \subseteq 1 .. Len(fed)
  BY <1>6
<1>8. ASSUME AtMostOne(best'), best' # <<>>, Head(best').perf \in Nat, IsMeasured(Head(best')),
             \A i \in 1 .. Len(fed) : fed[i] <= Head(best').perf,
             \/ \E i \in 1 .. Len(fed) : fed[i] = Head(best').perf
             \/ Head(best').perf <= due[Mine] /\ (threads => Head(best').perf = 0)
      PROVE  LibInv'
  <2>1. Len(fed') - Len(evaluating') = Len(fed)
    BY <1>1, <1>5, <1>6
  <2>2. BestOK'
    BY <1>0, <1>1, <1>5, <1>6, <1>8, <2>1, Zenon DEF BestOK
  <2>3. AllMeasured'
    BY <1>0, <1>1, <1>2, <1>8, Zenon DEF LibInv, AllMeasured, IsMeasured
  <2> QED
    BY <1>2, <1>3, <2>2, <2>3 DEF LibInv
<1>9. IsMeasured(x)
  BY <1>0, <1>5, Zenon DEF LibInv, AllMeasured
<1>10. CASE best = <<>>
  <2>1. best' = evaluating /\ Len(fed) = 1
    BY <1>0, <1>5, <1>10, Zenon DEF LibInv, BestOK
  <2>2. \A i \in 1 .. Len(fed) : fed[i] = x.perf /\ fed[i] <= x.perf
    BY <1>5, <1>6, <2>1
  <2> QED
    BY <1>0, <1>5, <1>7, <1>8, <1>9, <2>1, <2>2, Zenon
<1>11. CASE best # <<>>
  <2>1. PICK b \in Entry : best = <<b>>
    BY <1>11, Zenon DEF LibInv, BestOK, AtMostOne
  <2>2. Head(best) = b /\ b.perf \in Nat /\ AtMostOne(best) /\ Tail(best \o evaluating) = evaluating
    BY <1>4, <2>1, OneFacts, Zenon
  <2>3. /\ \A i \in 1 .. Len(fed) - 1 : fed[i] <= b.perf
        /\ \/ \E i \in 1 .. Len(fed) - 1 : fed[i] = b.perf
           \/ b.perf <= due[Mine] /\ (threads => b.perf = 0)
    BY <1>5, <1>11, <2>2, Zenon DEF LibInv, BestOK
  <2>4. CASE x.perf > b.perf
    <3>1. best' = evaluating
      BY <1>0, <1>5, <1>11, <2>2, <2>4, Zenon
    <3>2. \A i \in 1 .. Len(fed) : fed[i] <= x.perf
      <4> SUFFICES ASSUME NEW i \in 1 .. Len(fed) PROVE fed[i] <= x.perf
        BY Zenon
      <4>1. CASE i \in 1 .. Len(fed) - 1
        <5>1. fed[i] <= b.perf
          BY <2>3, <4>1, Zenon
        <5>2. fed[i] \in Nat
          BY <1>7
        <5> QED
          BY <1>6, <2>2, <2>4, <5>1, <5>2
      <4>2. CASE i \notin 1 .. Len(fed) - 1
        <5>1. i = Len(fed)
          BY <1>7, <4>2
        <5> QED
          BY <1>6, <1>7, <5>1
      <4> QED
        BY <4>1, <4>2, Zenon
    <3> QED
      BY <1>0, <1>5, <1>6, <1>7, <1>8, <1>9, <3>1, <3>2, Zenon
  <2>5. CASE ~(x.perf > b.perf)
    <3>1. best' = best
      BY <1>0, <1>5, <1>11, <2>2, <2>5, Zenon
    <3>2. \A i \in 1 .. Len(fed) : fed[i] <= b.perf
      BY <1>5, <1>6, <1>7, <2>2, <2>3, <2>5
    <3>3. IsMeasured(b)
      BY <1>11, <2>2, Zenon DEF LibInv, AllMeasured
    <3>4. \/ \E i \in 1 .. Len(fed) : fed[i] = b.perf
          \/ b.perf <= due[Mine] /\ (threads => b.perf = 0)
      BY <1>7, <2>3
    <3> QED
      BY <1>8, <1>11, <2>2, <3>1, <3>2, <3>3, <3>4, Zenon
  <2> QED
    BY <2>4, <2>5
<1> QED
  BY <1>10, <1>11

\* A save leaves the session as it is, and owes the library no less.
LEMMA SessionUntouched ==
  ASSUME LibInv, UNCHANGED <<vars, best, evaluating, measured>>, prog # "none", prog' # "none",
         due'[Mine] \in Nat, due[Mine] \in Nat, due[Mine] <= due'[Mine]
  PROVE  HeapOK' /\ TopkKept' /\ TrackOK' /\ BestOK' /\ Fresh' /\ \A f : IsMeasured(f)' <=> IsMeasured(f)
<1>1. HeapOK' /\ TopkKept' /\ TrackOK'
  BY KeptStep, TrackStep DEF LibInv
<1>2. UNCHANGED <<fed, threads>>
  BY Zenon DEF vars
<1>3. best # <<>> => Head(best).perf \in Nat
  <2>1. \A f \in Entry : best = <<f>> => Head(best).perf \in Nat
    BY OneFacts, Zenon
  <2> QED
    BY <2>1, Zenon DEF LibInv, BestOK, AtMostOne
<1>4. BestOK'
  <2>1. BestOK
    BY Zenon DEF LibInv
  <2>2. best # <<>> /\ Head(best).perf <= due[Mine] => Head(best).perf <= due'[Mine]
    BY <1>3
  <2> QED
    BY <1>2, <2>1, <2>2, Zenon DEF BestOK, AtMostOne
<1> QED
  BY <1>1, <1>4, Zenon DEF Fresh, IsMeasured

LEMMA SaveStep ==
  ASSUME LibInv, Save
  PROVE  LibInv'
<1> DEFINE f == Head(best)
           w == Written(f.perf)
           d == due[Mine]
           m == due'[Mine]
<1>0. /\ prog = "idle" /\ prog' = "saving" /\ best # <<>> /\ stored' = Merge(f) /\ left' = DOMAIN stored'
      /\ file' = <<>> /\ UNCHANGED <<vars, best, evaluating, measured>>
  BY DEF Save
<1>1. f \in Entry /\ f.perf \in Nat
  <2>1. \A g \in Entry : best = <<g>> => f \in Entry /\ f.perf \in Nat
    BY OneFacts
  <2> QED
    BY <1>0, <2>1, Zenon DEF LibInv, BestOK, AtMostOne
<1>2. /\ due \in [{Mine, Other} -> Nat] /\ d \in Nat /\ Written(d) = d /\ w \in Nat /\ Written(w) = w
      /\ DOMAIN Lines \subseteq {Mine, Other}
      /\ \A t \in DOMAIN Lines : Lines[t] \in Entry /\ Lines[t].perf = due[t]
      /\ \A t \in {Mine, Other} \ DOMAIN Lines : due[t] = 0
      /\ \A t \in {Mine, Other} : due[t] \in Nat /\ Written(due[t]) = due[t]
  BY <1>0, <1>1, WrittenFacts, Zenon DEF LibInv, FileOK
\* What is due is the better of what the file has and of the best function.
<1>3. due' = [due EXCEPT ![Mine] = IF w > d THEN w ELSE d]
  <2> DEFINE O == Offered \cup {d}
             top == IF w > d THEN w ELSE d
  <2>1. due' = [due EXCEPT ![Mine] = CHOOSE k \in O : \A o \in O : k >= o]
    BY <1>2, Zenon DEF Save
  <2>2. \A o \in O : o \in Nat /\ (o <= w \/ o = d)
    <3>1. \A i \in 1 .. Len(fed) - Len(evaluating) : fed[i] \in Nat /\ fed[i] <= f.perf
      <4>1. fed \in Seq(Nat) /\ Len(evaluating) \in Nat
        <5>1. \A g \in Entry : evaluating = <<g>> => Len(evaluating) \in Nat
          BY OneFacts
        <5>2. evaluating = <<>> => Len(evaluating) \in Nat
          OBVIOUS
        <5> QED
          BY <5>1, <5>2 DEF LibInv, BestOK, AtMostOne
      <4>2. \A i \in 1 .. Len(fed) - Len(evaluating) : i \in 1 .. Len(fed)
        BY <4>1
      <4> QED
        BY <1>0, <4>1, <4>2 DEF LibInv, BestOK
    <3>2. \A i \in 1 .. Len(fed) - Len(evaluating) : Written(fed[i]) \in Nat /\ Written(fed[i]) <= w
      BY <1>1, <3>1, WrittenFacts, Zenon
    <3> QED
      BY <1>2, <3>2, Zenon DEF Offered
  <2>3. w \in O \/ w <= d
    <3>1. CASE \E i \in 1 .. Len(fed) - Len(evaluating) : fed[i] = f.perf
      BY <3>1 DEF Offered
    <3>2. CASE f.perf <= d
      BY <1>1, <1>2, <3>2, WrittenFacts, Zenon
    <3> QED
      BY <1>0, <3>1, <3>2, Zenon DEF LibInv, BestOK
  <2>4. top \in O /\ top \in Nat /\ \A o \in O : top >= o
    <3>1. d \in Nat /\ w \in Nat /\ d \in O
      BY <1>2, Zenon
    <3> HIDE DEF O, d, w
    <3> QED
      BY <2>2, <2>3, <3>1
  <2> HIDE DEF O, top
  <2>5. (CHOOSE k \in O : \A o \in O : k >= o) = top
    <3>1. \E k \in O : \A o \in O : k >= o
      BY <2>4
    <3> DEFINE c == CHOOSE k \in O : \A o \in O : k >= o
    <3>2. c \in O /\ \A o \in O : c >= o
      BY <3>1
    <3>3. c \in Nat
      BY <2>2, <3>2
    <3>4. c >= top /\ top >= c
      BY <2>4, <3>2, Zenon
    <3> HIDE DEF c
    <3>5. c = top
      BY <2>4, <3>3, <3>4
    <3> QED
      BY <3>5 DEF c
  <2> QED
    BY <2>1, <2>5, Zenon DEF top
<1> HIDE DEF f, w, d
<1>4. /\ m = (IF w > d THEN w ELSE d) /\ m \in Nat /\ d <= m /\ Written(m) = m
      /\ due' \in [{Mine, Other} -> Nat] /\ \A t \in {Mine, Other} \ {Mine} : due'[t] = due[t]
  BY <1>2, <1>3 DEF d
<1> HIDE DEF m
<1>5. /\ DOMAIN stored' = DOMAIN Lines \cup {Mine}
      /\ \A t \in DOMAIN Lines \ {Mine} : stored'[t] = Lines[t]
      /\ \/ stored'[Mine] = f /\ (Mine \in DOMAIN Lines => f.perf > Lines[Mine].perf)
         \/ stored'[Mine] = Lines[Mine] /\ Mine \in DOMAIN Lines /\ ~(f.perf > Lines[Mine].perf)
  BY <1>0, Zenon DEF Merge
<1>6. stored'[Mine] \in Entry /\ Written(stored'[Mine].perf) = m
  <2>1. CASE stored'[Mine] = f /\ Mine \in DOMAIN Lines /\ f.perf > Lines[Mine].perf
    <3>1. d <= f.perf
      BY <1>1, <1>2, <2>1 DEF d
    <3>2. d <= w
      BY <1>1, <1>2, <3>1, WrittenFacts, Zenon DEF w
    <3> QED
      BY <1>1, <1>2, <1>4, <2>1, <3>2 DEF w
  <2>2. CASE stored'[Mine] = f /\ Mine \notin DOMAIN Lines
    <3>1. d = 0
      BY <1>2, <2>2, Zenon DEF d
    <3> QED
      BY <1>1, <1>2, <1>4, <2>2, <3>1 DEF w
  <2>3. CASE stored'[Mine] = Lines[Mine] /\ Mine \in DOMAIN Lines /\ ~(f.perf > Lines[Mine].perf)
    <3>1. f.perf <= d /\ stored'[Mine].perf = d
      BY <1>1, <1>2, <2>3 DEF d
    <3>2. w <= d
      BY <1>1, <1>2, <3>1, WrittenFacts, Zenon DEF w
    <3> QED
      BY <1>2, <1>4, <2>3, <3>1, <3>2
  <2> QED
    BY <1>5, <2>1, <2>2, <2>3, Zenon
<1>7. Lines' = <<>> /\ DOMAIN Lines' = {} /\ file' = Lines'
  BY <1>0, OneFacts, Zenon DEF Lines
<1>8. FileOK'
  <2>1. \A t \in {Mine, Other} : Written(due'[t]) = due'[t]
    BY <1>2, <1>4, Zenon DEF m
  <2>2. \A t \in DOMAIN stored' : stored'[t] \in Entry /\ Written(stored'[t].perf) = due'[t]
    BY <1>2, <1>4, <1>5, <1>6, Zenon DEF m
  <2>3. \A t \in {Mine, Other} \ DOMAIN stored' : due'[t] = 0
    BY <1>2, <1>4, <1>5, Zenon
  <2>4. DOMAIN stored' \subseteq {Mine, Other} /\ left' \subseteq DOMAIN stored' /\ DOMAIN stored' \ left' = {}
    BY <1>0, <1>2, <1>5, Zenon
  <2> QED
    BY <1>0, <1>4, <1>7, <2>1, <2>2, <2>3, <2>4, Zenon DEF FileOK
<1>9. HeapOK' /\ TopkKept' /\ TrackOK' /\ BestOK' /\ Fresh' /\ \A g : IsMeasured(g)' <=> IsMeasured(g)
  BY <1>0, <1>2, <1>4, SessionUntouched, Zenon DEF d, m
<1>10. AllMeasured'
  <2>1. IsMeasured(stored'[Mine])
    BY <1>0, <1>5, Zenon DEF LibInv, AllMeasured, f
  <2>2. (best' # <<>> => IsMeasured(Head(best'))) /\ (evaluating' # <<>> => IsMeasured(Head(evaluating')))
    BY <1>0, Zenon DEF LibInv, AllMeasured
  <2> QED
    BY <1>0, <1>7, <2>1, <2>2, Zenon DEF AllMeasured, IsMeasured
<1> QED
  BY <1>8, <1>9, <1>10 DEF LibInv

LEMMA SaveLineStep ==
  ASSUME LibInv, NEW t \in left, SaveLine(t)
  PROVE  LibInv'
<1> DEFINE l == [stored[t] EXCEPT !.perf = Written(@)]
<1>0. /\ prog = "saving" /\ left' = left \ {t}
      /\ UNCHANGED <<vars, prog, stored, best, evaluating, measured, due>>
      /\ file' = [u \in DOMAIN file \cup {t} |-> IF u = t THEN l ELSE file[u]]
  BY DEF SaveLine
<1>1. /\ prog \in {"none", "idle", "saving"} /\ due \in [{Mine, Other} -> Nat]
      /\ \A u \in {Mine, Other} : Written(due[u]) = due[u]
      /\ \A u \in DOMAIN Lines : Lines[u] \in Entry /\ Lines[u].perf = due[u]
      /\ file = Lines /\ DOMAIN stored \subseteq {Mine, Other} /\ left \subseteq DOMAIN stored
      /\ DOMAIN Lines = DOMAIN stored \ left
      /\ \A u \in DOMAIN stored : stored[u] \in Entry /\ Written(stored[u].perf) = due[u]
      /\ \A u \in {Mine, Other} \ DOMAIN stored : due[u] = 0
  BY <1>0 DEF LibInv, FileOK
<1>2. l \in Entry /\ l.perf = due[t] /\ l.entity = stored[t].entity
  <2>1. stored[t] \in Entry /\ Written(stored[t].perf) = due[t] /\ due[t] \in Nat
    BY <1>1, Zenon
  <2> QED
    BY <2>1 DEF Entry
<1> HIDE DEF l
<1>3. /\ DOMAIN file' = DOMAIN Lines \cup {t} /\ file'[t] = l
      /\ \A u \in DOMAIN Lines \ {t} : file'[u] = Lines[u]
      /\ \A u \in DOMAIN file' : file'[u] \in Entry /\ file'[u].perf = due[u]
      /\ DOMAIN file' \subseteq {Mine, Other}
  BY <1>0, <1>1, <1>2, Zenon
<1>4. Lines' = file'
  <2>1. file' \in [DOMAIN file' -> Entry]
    BY <1>0, <1>3, Zenon
  <2>2. file' # NoFile
    BY <1>3, <2>1, LibraryAssumption, Zenon
  <2> QED
    BY <2>2 DEF Lines
<1>5. FileOK'
  <2>1. DOMAIN file' = DOMAIN stored \ left'
    BY <1>0, <1>1, <1>3, Zenon
  <2> QED
    BY <1>0, <1>1, <1>3, <1>4, <2>1, Zenon DEF FileOK
<1>6. HeapOK' /\ TopkKept' /\ TrackOK' /\ BestOK' /\ Fresh' /\ \A g : IsMeasured(g)' <=> IsMeasured(g)
  <2>1. due[Mine] \in Nat /\ due'[Mine] \in Nat /\ due[Mine] <= due'[Mine]
    <3>1. due \in [{Mine, Other} -> Nat] /\ due' = due
      BY <1>0, <1>1, Zenon
    <3> QED
      BY <3>1
  <2> QED
    BY <1>0, <2>1, SessionUntouched, Zenon
<1>7. AllMeasured'
  <2>1. t = Mine => IsMeasured(l)
    <3>1. t = Mine => IsMeasured(stored[t])
      BY <1>0, <1>1, Zenon DEF LibInv, AllMeasured
    <3>2. Written(l.perf) = Written(stored[t].perf)
      BY <1>1, <1>2, Zenon
    <3> QED
      BY <1>2, <3>1, <3>2, Zenon DEF IsMeasured
  <2>2. Mine \in DOMAIN Lines' => IsMeasured(Lines'[Mine])
    BY <1>3, <1>4, <2>1, Zenon DEF LibInv, AllMeasured
  <2> QED
    BY <1>0, <2>2, Zenon DEF LibInv, AllMeasured, IsMeasured
<1> QED
  BY <1>5, <1>6, <1>7 DEF LibInv

LEMMA SaveEndsStep ==
  ASSUME LibInv, SaveEnds
  PROVE  LibInv'
<1>0. /\ prog = "saving" /\ prog' = "idle" /\ left = {} /\ left' = {}
      /\ UNCHANGED <<vars, best, evaluating, file, measured, due>>
  BY DEF SaveEnds
<1>1. Lines' = Lines
  BY <1>0 DEF Lines
<1>2. FileOK'
  BY <1>0, <1>1, Zenon DEF LibInv, FileOK
<1>3. HeapOK' /\ TopkKept' /\ TrackOK' /\ BestOK' /\ Fresh' /\ \A g : IsMeasured(g)' <=> IsMeasured(g)
  <2>1. due[Mine] \in Nat /\ due'[Mine] \in Nat /\ due[Mine] <= due'[Mine]
    <3>1. due \in [{Mine, Other} -> Nat] /\ due' = due
      BY <1>0, Zenon DEF LibInv, FileOK
    <3> QED
      BY <3>1
  <2> QED
    BY <1>0, <2>1, SessionUntouched, Zenon
<1>4. AllMeasured'
  BY <1>0, <1>1, Zenon DEF LibInv, AllMeasured, IsMeasured
<1> QED
  BY <1>2, <1>3, <1>4 DEF LibInv

LEMMA DropStep ==
  ASSUME LibInv, DeleteSession \/ Crash
  PROVE  LibInv'
<1>0. /\ DropSession /\ due' = [t \in DOMAIN due |-> IF t \in left THEN 0 ELSE due[t]]
      /\ due \in [{Mine, Other} -> Nat]
  <2>1. due \in [{Mine, Other} -> Nat] /\ (prog # "saving" => left = {})
    BY Zenon DEF LibInv, FileOK
  <2>2. CASE DeleteSession
    <3>1. left = {} /\ due' = due /\ DropSession
      BY <2>1, <2>2 DEF DeleteSession
    <3> QED
      BY <2>1, <3>1
  <2>3. CASE Crash
    BY <2>1, <2>3, Zenon DEF Crash
  <2> QED
    BY <2>2, <2>3
<1>1. /\ prog' = "none" /\ left' = {} /\ best' = <<>> /\ evaluating' = <<>> /\ fed' = <<>> /\ topk' = {}
      /\ ~threads' /\ pc' = "idle" /\ reverse_sort' = <<>> /\ returned' = 0
      /\ made' = <<>> /\ known' = {} /\ knowing' = {} /\ waiting' = {}
      /\ UNCHANGED <<file, measured>> /\ Lines' = Lines
  BY <1>0, Zenon DEF DropSession, Lines
<1>2. HeapOK' /\ TopkKept' /\ Fresh'
  BY <1>1 DEF HeapOK, TopkKept, Fresh
<1>6. TrackOK'
  <2>1. Held' = {}
    BY <1>1 DEF Held, Drawn
  <2>2. ObjectsOK'
    BY <1>1 DEF ObjectsOK, Kept
  <2>3. Cardinality({}) = 0 /\ 0 <= KnownLimit /\ Len(<<>>) = 0
    BY FS_EmptySet, AutoScheduleAssumption
  <2> QED
    BY <1>1, <2>1, <2>2, <2>3 DEF TrackOK, SchedulesTracked
<1>3. BestOK'
  BY <1>1, OneFacts DEF BestOK
<1>4. AllMeasured'
  BY <1>1, Zenon DEF LibInv, AllMeasured, IsMeasured
<1>5. FileOK'
  <2>1. \A t \in {Mine, Other} : due'[t] \in Nat /\ due'[t] = IF t \in left THEN 0 ELSE due[t]
    BY <1>0
  <2>2. due' \in [{Mine, Other} -> Nat]
    BY <1>0
  <2>3. \A t \in {Mine, Other} : Written(due'[t]) = due'[t]
    BY <2>1, WrittenFacts, Zenon DEF LibInv, FileOK
  <2>4. \A t \in DOMAIN Lines : t \in {Mine, Other} /\ t \notin left /\ Lines[t] \in Entry /\ Lines[t].perf = due'[t]
    <3>1. /\ DOMAIN Lines \subseteq {Mine, Other}
          /\ \A t \in DOMAIN Lines : t \notin left /\ Lines[t] \in Entry /\ Lines[t].perf = due[t]
      BY Zenon DEF LibInv, FileOK
    <3> QED
      BY <2>1, <3>1
  <2>5. \A t \in {Mine, Other} \ DOMAIN Lines : due'[t] = 0
    BY <2>1, Zenon DEF LibInv, FileOK
  <2> QED
    BY <1>1, <2>2, <2>3, <2>4, <2>5, Zenon DEF FileOK
<1> QED
  BY <1>2, <1>3, <1>4, <1>5, <1>6 DEF LibInv

-----------------------------------------------------------------------------
(* The theorems                                                              *)

LEMMA LibraryInvariant == LibrarySpec => []LibInv
<1>1. LibraryInit => LibInv
  BY LibraryStart
<1>2. LibInv /\ [LibraryNext]_libVars => LibInv'
  <2> SUFFICES ASSUME LibInv, [LibraryNext]_libVars PROVE LibInv'
    OBVIOUS
  <2>1. CASE UNCHANGED libVars
    <3>1. /\ UNCHANGED vars /\ UNCHANGED <<prog, stored, left, file, due, best, evaluating, measured>>
          /\ UNCHANGED <<fed, topk, threads, pc, reverse_sort, returned>>
          /\ UNCHANGED <<made, known, knowing, waiting>>
      BY <2>1, Zenon DEF libVars, vars, local, program
    <3>2. HeapOK' /\ TopkKept' /\ TrackOK'
      BY <3>1, KeptStep, TrackStep DEF LibInv
    <3>3. FileOK' /\ Lines' = Lines
      BY <3>1, FileUntouched, Zenon DEF LibInv, FileOK
    <3>4. BestOK' /\ Fresh'
      BY <3>1, Zenon DEF LibInv, BestOK, Fresh
    <3>5. AllMeasured'
      BY <3>1, <3>3, Zenon DEF LibInv, AllMeasured, IsMeasured
    <3> QED
      BY <3>2, <3>3, <3>4, <3>5 DEF LibInv
  <2> QED
    BY <2>1, CreateStep, ThreadStep, StoreStep, SaveStep, SaveLineStep, SaveEndsStep, DropStep, Zenon
    DEF LibraryNext
<1> QED
  BY <1>1, <1>2, PTL DEF LibrarySpec

\* In every session, whatever the order of its threads, knowing_schedules has the
\* objects whose result is outstanding, known_schedules none of them and never
\* more than its limit, and add_feedback's early return leaves in knowing_schedules
\* at most an object for every evaluation the heap does not have.
THEOREM SchedulesAreTracked == LibrarySpec => []SchedulesTracked
<1>1. LibInv => SchedulesTracked
  BY DEF LibInv, TrackOK
<1> QED
  BY <1>1, LibraryInvariant, PTL

\* Whatever sessions tune, load and save, in whatever order their threads run
\* and wherever the process crashes, the file has for every tag the best
\* performance saved, except for the lines a crash cut off.
THEOREM LibraryKeepsTheBest == LibrarySpec => []LibraryKept
<1>1. LibInv => LibraryKept
  <2> SUFFICES ASSUME LibInv, prog # "saving", NEW t \in DOMAIN due, due[t] > 0
               PROVE  t \in DOMAIN Lines /\ Lines[t].perf = due[t]
    BY Zenon DEF LibraryKept
  <2>1. t \in {Mine, Other}
    BY Zenon DEF LibInv, FileOK
  <2>2. t \in DOMAIN Lines
    BY <2>1 DEF LibInv, FileOK
  <2> QED
    BY <2>2, Zenon DEF LibInv, FileOK
<1> QED
  BY <1>1, LibraryInvariant, PTL

\* A line names a schedule and a performance measured together, although
\* best_functions, the reference and the file pass them on through roundings.
THEOREM LibraryNamesMeasured == LibrarySpec => []LibrarySound
<1>1. LibInv => LibrarySound
  <2> SUFFICES ASSUME LibInv, Mine \in DOMAIN Lines
               PROVE  \E m \in measured : m.entity = Lines[Mine].entity /\ Written(m.perf) = Lines[Mine].perf
    BY Zenon DEF LibrarySound
  <2>1. IsMeasured(Lines[Mine]) /\ Written(Lines[Mine].perf) = Lines[Mine].perf
    BY Zenon DEF LibInv, AllMeasured, FileOK
  <2> QED
    BY <2>1, Zenon DEF IsMeasured
<1> QED
  BY <1>1, LibraryInvariant, PTL

\* The scheduler of a tuning session never loses sight of a schedule as good as
\* the session's best function, though begin_tuning, run_evaluate and
\* auto_schedule come to the heap at different times.
THEOREM SchedulerKnowsBest == LibrarySpec => []HeapKnowsBest
<1>1. LibInv => HeapKnowsBest
  <2> SUFFICES ASSUME LibInv, threads, best # <<>>, Head(best).perf > 0
               PROVE  \E i \in Held : fed[i] >= Head(best).perf
    BY DEF HeapKnowsBest
  <2>1. Head(best).perf # 0
    <3>1. \A f \in Entry : best = <<f>> => Head(best).perf \in Nat
      BY OneFacts
    <3> QED
      BY <3>1 DEF LibInv, BestOK, AtMostOne
  <2>2. PICK i \in 1 .. Len(fed) : fed[i] = Head(best).perf /\ fed[i] \in Nat
    <3>1. Len(evaluating) \in Nat
      <4>1. \A g \in Entry : evaluating = <<g>> => Len(evaluating) \in Nat
        BY OneFacts
      <4>2. evaluating = <<>> => Len(evaluating) \in Nat
        OBVIOUS
      <4> QED
        BY <4>1, <4>2, Zenon DEF LibInv, BestOK, AtMostOne
    <3>2. PICK i \in 1 .. Len(fed) - Len(evaluating) : fed[i] = Head(best).perf
      BY <2>1 DEF LibInv, BestOK
    <3>3. i \in 1 .. Len(fed) /\ fed[i] \in Nat
      <4>1. fed \in Seq(Nat)
        BY Zenon DEF LibInv, BestOK
      <4> QED
        BY <3>1, <3>2, <4>1
    <3> QED
      BY <3>2, <3>3
  <2>3. CASE i \in Held
    BY <2>2, <2>3
  <2>4. CASE i \notin Held
    <3> DEFINE S == {j \in Held : fed[j] >= fed[i]}
    <3>1. i \in DOMAIN fed
      BY <2>2 DEF LibInv, HeapOK
    <3>2. Cardinality(S) >= Topk
      BY <2>4, <3>1 DEF LibInv, TopkKept
    <3>3. S # {}
      <4> HIDE DEF S
      <4>1. Topk \in Nat \ {0}
        BY AutoScheduleAssumption, Zenon
      <4>2. ~(0 >= Topk)
        BY <4>1
      <4>3. Cardinality({}) = 0
        BY FS_EmptySet, Zenon
      <4> QED
        BY <3>2, <4>2, <4>3, Zenon
    <3> QED
      BY <2>2, <3>3
  <2> QED
    BY <2>3, <2>4
<1> QED
  BY <1>1, LibraryInvariant, PTL
=============================================================================
