------------------------ MODULE GraphPartitionProofs ------------------------
(***************************************************************************)
(* The second half of the proofs about GraphPartition, for graphs of any   *)
(* size: the call order, the theorems about all of add_task, and why it    *)
(* returns.                                                                *)
(***************************************************************************)
EXTENDS GraphMarkProofs, FiniteSetTheorems

-----------------------------------------------------------------------------
(* The call order                                                            *)

\* The subgraphs in the call order.
Called == Range(order)

\* The loop of add_task: call_order counts the predecessors that are not called
\* yet, and the subgraphs with none left are those called, free or released.
OrderRight ==
  /\ order \in Seq(marks) /\ Cardinality(Called) = Len(order)
  /\ free \subseteq marks /\ update \subseteq marks
  /\ Called \cap (free \cup update) = {} /\ free \cap update = {}
  /\ pending = [m \in marks |-> Cardinality(predecessor(m) \ Called)]
  /\ \A m \in marks : predecessor(m) \subseteq Called <=> m \in Called \cup free \cup update
  /\ free = {} => update = {}
  /\ pc = "ready" => free = {}
  /\ \A i, j \in 1 .. Len(order) : Depends(order[i], order[j]) => j < i

\* OrderRight holds from the first layer on.
OrderInv == pc \in {"order", "ready"} => OrderRight

\* There are finitely many subgraphs.
LEMMA MarksFinite ==
  StateType => IsFiniteSet(marks) /\ \A m : IsFiniteSet(predecessor(m))
<1> SUFFICES ASSUME StateType PROVE IsFiniteSet(marks) /\ \A m : IsFiniteSet(predecessor(m))
  OBVIOUS
<1>1. current \in Nat /\ marks \subseteq 0 .. current  BY DEF StateType, MarkType, marks, Marked
<1>2. IsFiniteSet(0 .. current)  BY <1>1, FS_Interval
<1>3. IsFiniteSet(marks)  BY <1>1, <1>2, FS_Subset, Zenon
<1>4. \A m : predecessor(m) \subseteq marks  BY DEF predecessor
<1> QED BY <1>3, <1>4, FS_Subset

\* add_task starts with the subgraphs that wait for nothing.
LEMMA OrderStart ==
  ASSUME SplitDone
  PROVE  OrderInv'
<1>1. UNCHANGED marks /\ (\A m : predecessor(m)' = predecessor(m)) /\ (\A m, n : Depends(m, n)' <=> Depends(m, n))
  BY MarkingFixed, Zenon DEF SplitDone
<1>2. pending' = [m \in marks |-> Cardinality(predecessor(m))] /\ free' = {m \in marks : predecessor(m) = {}}
      /\ update' = {} /\ order' = <<>> /\ pc' = "order"
  BY DEF SplitDone
<1>3. Called' = {}  BY <1>2, EmptyRange DEF Called
<1>4. \A m : predecessor(m) \ Called' = predecessor(m)  BY <1>3
<1>5. Cardinality(Called') = 0  BY <1>3, FS_EmptySet
<1> QED BY <1>1, <1>2, <1>3, <1>4, <1>5 DEF OrderInv, OrderRight

\* A counter that is one when a predecessor is called has no other to wait for.
LEMMA OneWaits ==
  ASSUME NEW P, IsFiniteSet(P), NEW m \in P
  PROVE  /\ Cardinality(P \ {m}) = Cardinality(P) - 1
         /\ Cardinality(P) = 1 <=> P \ {m} = {}
<1>1. IsFiniteSet(P \ {m}) /\ Cardinality(P \ {m}) = Cardinality(P) - 1  BY FS_RemoveElement
<1>2. Cardinality(P) \in Nat  BY FS_CardinalityType
<1>3. Cardinality(P \ {m}) = 0 <=> P \ {m} = {}  BY <1>1, FS_EmptySet, Zenon
<1> QED BY <1>1, <1>2, <1>3

\* Calling a subgraph counts its successors down and releases those at zero.
LEMMA CallStep ==
  ASSUME StateType, OrderRight, pc = "order", Call
  PROVE  OrderRight'
<1>1. UNCHANGED <<marks, pc>> /\ (\A m : predecessor(m)' = predecessor(m)) /\ (\A m, n : Depends(m, n)' <=> Depends(m, n))
  BY MarkingFixed, Zenon DEF Call
<1>2. PICK m \in free :
        /\ order' = Append(order, m)
        /\ pending' = [n \in marks |-> IF n \in successors(m) THEN pending[n] - 1 ELSE pending[n]]
        /\ IF free = {m}
           THEN free' = update \cup Released(m) /\ update' = {}
           ELSE free' = free \ {m} /\ update' = update \cup Released(m)
  BY Zenon DEF Call
<1>3. m \in marks /\ m \notin Called /\ order \in Seq(marks)  BY Zenon DEF OrderRight
<1>4. order' \in Seq(marks) /\ Called' = Called \cup {m} /\ Len(order') = Len(order) + 1
      /\ Len(order) \in Nat /\ order'[Len(order) + 1] = m
      /\ \A i \in 1 .. Len(order) : order'[i] = order[i]
  BY <1>2, <1>3, AppendRange DEF Called
<1>5. IsFiniteSet(marks) /\ \A n : IsFiniteSet(predecessor(n))  BY MarksFinite
<1>6. Called \subseteq marks  BY <1>3, RangeType DEF Called
<1>7. Cardinality(Called') = Len(order')
  <2>1. IsFiniteSet(Called)  BY <1>5, <1>6, FS_Subset
  <2>2. Cardinality(Called \cup {m}) = Cardinality(Called) + 1  BY <1>3, <2>1, FS_AddElement, Zenon
  <2> QED BY <1>4, <2>2, Zenon DEF OrderRight
<1>8. \A n \in marks : n \in successors(m) <=> m \in predecessor(n)
  BY <1>3 DEF successors, predecessor
<1>9. ASSUME NEW n \in marks, m \in predecessor(n)
      PROVE  /\ Cardinality(predecessor(n) \ Called') = pending[n] - 1
             /\ pending[n] = 1 <=> predecessor(n) \subseteq Called'
  <2> DEFINE P == predecessor(n) \ Called
  <2>1. IsFiniteSet(P) /\ m \in P  BY <1>3, <1>5, <1>9, FS_Subset, Zenon
  <2>2. pending[n] = Cardinality(P)  BY Zenon DEF OrderRight
  <2>3. predecessor(n) \ Called' = P \ {m}  BY <1>4, Zenon
  <2> HIDE DEF P
  <2>4. P \ {m} = {} <=> predecessor(n) \subseteq Called'  BY <2>3
  <2> QED BY <2>1, <2>2, <2>3, <2>4, OneWaits, Zenon
<1>10. ASSUME NEW n \in marks, m \notin predecessor(n)
       PROVE  /\ Cardinality(predecessor(n) \ Called') = pending[n]
              /\ predecessor(n) \subseteq Called' <=> predecessor(n) \subseteq Called
  <2>1. predecessor(n) \ Called' = predecessor(n) \ Called  BY <1>4, <1>10, Zenon
  <2>2. pending[n] = Cardinality(predecessor(n) \ Called)  BY Zenon DEF OrderRight
  <2>3. predecessor(n) \subseteq Called' <=> predecessor(n) \subseteq Called  BY <2>1, Zenon
  <2> QED BY <2>1, <2>2, <2>3, Zenon
<1>11. pending' = [n \in marks |-> Cardinality(predecessor(n) \ Called')]
  BY <1>2, <1>8, <1>9, <1>10, Zenon
<1>12. Released(m) = {n \in marks : m \in predecessor(n) /\ predecessor(n) \subseteq Called'}
  BY <1>8, <1>9, Zenon DEF Released, successors
<1>13. free' \cup update' = (free \ {m}) \cup update \cup Released(m)  BY <1>2, Zenon DEF OrderRight
<1>14. Released(m) \cap (Called' \cup free \cup update) = {}
  BY <1>3, <1>4, <1>12, Zenon DEF OrderRight
<1>20. /\ \A n \in marks : predecessor(n) \subseteq Called <=> n \in Called \cup free \cup update
       /\ Called \cap (free \cup update) = {} /\ free \cap update = {}
  BY Zenon DEF OrderRight
<1>15. \A n \in marks : predecessor(n) \subseteq Called' <=> n \in Called' \cup free' \cup update'
  <2> TAKE n \in marks
  <2>1. n \in free' \cup update' <=> n \in free \ {m} \/ n \in update \/ n \in Released(m)
    BY <1>13, Zenon
  <2>2. n \in Called' <=> n \in Called \/ n = m  BY <1>4, Zenon
  <2>3. predecessor(n) \subseteq Called => predecessor(n) \subseteq Called'  BY <1>4, Zenon
  <2>4. CASE m \in predecessor(n)
    <3>1. ~(predecessor(n) \subseteq Called)  BY <1>3, <2>4, Zenon
    <3>2. n \notin Called /\ n \notin free /\ n \notin update /\ n # m  BY <1>3, <1>20, <3>1, Zenon
    <3>3. n \in Released(m) <=> predecessor(n) \subseteq Called'  BY <1>12, <2>4, Zenon
    <3> QED BY <2>1, <2>2, <3>2, <3>3, Zenon
  <2>5. CASE m \notin predecessor(n)
    <3>1. predecessor(n) \subseteq Called' <=> n \in Called \cup free \cup update
      BY <1>10, <1>20, <2>5, Zenon
    <3>2. n \notin Released(m)  BY <1>12, <2>5, Zenon
    <3> QED BY <1>3, <2>1, <2>2, <3>1, <3>2, Zenon
  <2> QED BY <2>4, <2>5, Zenon
<1>16. free' \subseteq marks /\ update' \subseteq marks
  BY <1>2, <1>12, Zenon DEF OrderRight
<1>17. Called' \cap (free' \cup update') = {} /\ free' \cap update' = {}
  <2>1. m \notin update /\ m \in free  BY <1>2, <1>20, Zenon
  <2>2. Called' \cap (free' \cup update') = {}
    <3> SUFFICES ASSUME NEW n \in Called', n \in free' \cup update' PROVE FALSE  BY Zenon
    <3>1. n \in Called \/ n = m  BY <1>4, Zenon
    <3>2. n \in free \ {m} \/ n \in update \/ n \in Released(m)  BY <1>13, Zenon
    <3>3. n \notin Released(m)  BY <1>14, Zenon
    <3> QED BY <1>20, <2>1, <3>1, <3>2, <3>3, Zenon
  <2>3. CASE free = {m}
    <3>1. update' = {}  BY <1>2, <2>3, Zenon
    <3> QED BY <2>2, <3>1, Zenon
  <2>4. CASE free # {m}
    <3>1. free' = free \ {m} /\ update' = update \cup Released(m)  BY <1>2, <2>4, Zenon
    <3> QED BY <1>14, <1>20, <2>2, <3>1, Zenon
  <2> QED BY <2>2, <2>3, <2>4, Zenon
<1>18. free' = {} => update' = {}  BY <1>2, Zenon
<1>19. ASSUME NEW i \in 1 .. Len(order'), NEW j \in 1 .. Len(order'), Depends(order'[i], order'[j])
       PROVE  j < i
  <2>0. Len(order') = Len(order) + 1 /\ Len(order) \in Nat  BY <1>4, Zenon
  <2>1. CASE i = Len(order) + 1
    <3>1. ~Depends(m, m)  BY DEF Depends
    <3>2. j # Len(order) + 1  BY <1>4, <1>19, <2>1, <3>1, Zenon
    <3> QED BY <2>0, <2>1, <3>2
  <2>2. CASE i # Len(order) + 1
    <3>0. i \in 1 .. Len(order)  BY <2>0, <2>2
    <3>1. i \in 1 .. Len(order) /\ order'[i] = order[i]  BY <1>4, <3>0, Zenon
    <3>2. order[i] \in Called /\ order[i] \in marks  BY <1>3, <3>1, RangeType, Zenon DEF Called
    <3>3. CASE j = Len(order) + 1
      <4>1. m \in predecessor(order[i])  BY <1>3, <1>4, <1>19, <3>1, <3>3, Zenon DEF predecessor
      <4>2. predecessor(order[i]) \subseteq Called  BY <3>2, Zenon DEF OrderRight
      <4> QED BY <1>3, <4>1, <4>2
    <3>4. CASE j # Len(order) + 1
      <4>1. j \in 1 .. Len(order) /\ order'[j] = order[j]  BY <1>4, <3>4
      <4> QED BY <1>19, <3>1, <4>1, Zenon DEF OrderRight
    <3> QED BY <3>3, <3>4
  <2> QED BY <2>1, <2>2
<1>24. pending' = [n \in marks' |-> Cardinality(predecessor(n)' \ Called')]  BY <1>1, <1>11, Zenon
<1>21. \A n \in marks' : predecessor(n)' \subseteq Called' <=> n \in Called' \cup free' \cup update'
  BY <1>1, <1>15, Zenon
<1>22. \A i, j \in 1 .. Len(order') : Depends(order[i], order[j])' => j < i  BY <1>1, <1>19, Zenon
<1>23. pc' # "ready"  BY <1>1
<1> QED BY <1>1, <1>4, <1>7, <1>16, <1>17, <1>18, <1>21, <1>22, <1>23, <1>24, Zenon DEF OrderRight

\* Every step of add_task keeps OrderInv.
LEMMA OrderStep ==
  ASSUME StateType, OrderInv, [Next]_vars
  PROVE  OrderInv'
<1>1. CASE SplitDone  BY <1>1, OrderStart
<1>2. CASE Call  BY <1>2, CallStep, Zenon DEF Call, OrderInv
<1>3. CASE ~SplitDone /\ ~Call /\ pc' \in {"order", "ready"}
  <2>1. /\ pc \in {"order", "ready"} /\ UNCHANGED <<graph, marking, ordering>>
        /\ pc' = "ready" => pc = "ready" \/ free = {}
    BY <1>3, Zenon DEF Next, vars, Serialise, Mark, Validate, AddTask, SerialiseRoot, SerialiseInput,
       SerialiseReturn, GraphSerialised, SubgraphSerialised, MarkVisit, MarkEdge, MarkVisited,
       MarkSkip, MarkDone, HelperEnter, HelperDescend, HelperLeave, ValidateDone, BuildSubgraph,
       OrderDone, Returned
  <2>2. UNCHANGED <<marks, Called, pending, free, update, order>>
        /\ (\A m : predecessor(m)' = predecessor(m)) /\ (\A m, n : Depends(m, n)' <=> Depends(m, n))
    BY <2>1, MarkingFixed, Zenon DEF ordering, Called
  <2> QED BY <2>1, <2>2, Zenon DEF OrderInv, OrderRight
<1> QED BY <1>1, <1>2, <1>3 DEF OrderInv

\* A subgraph that is never called waits for another one.
LEMMA OrderComplete ==
  ASSUME OrderInv, ValidateInv
  PROVE  CallOrderSound
<1> SUFFICES ASSUME pc = "ready"
             PROVE  /\ Len(order) = Cardinality(marks) /\ Range(order) = marks
                    /\ \A i, j \in DOMAIN order : Depends(order[i], order[j]) => j < i
  BY DEF CallOrderSound
<1>1. OrderRight /\ free = {} /\ update = {}  BY Zenon DEF OrderInv, OrderRight
<1>2. CycleFree(marks, Waits)  BY DEF ValidateInv, MarkedAll
<1>3. order \in Seq(marks) /\ Called \subseteq marks  BY <1>1, RangeType, Zenon DEF OrderRight, Called
<1>4. marks \ Called = {}
  <2> SUFFICES ASSUME marks \ Called # {} PROVE FALSE
    OBVIOUS
  <2>1. PICK m \in marks \ Called : \A n \in marks \ Called : <<m, n>> \notin Waits
    BY <1>2, Zenon DEF CycleFree
  <2>2. predecessor(m) \subseteq Called  BY <2>1, WaitsPredecessor, Zenon
  <2> QED BY <1>1, <2>2, Zenon DEF OrderRight
<1>5. Called = marks  BY <1>3, <1>4, Zenon
<1>6. DOMAIN order = 1 .. Len(order)  BY <1>3, RangeType, Zenon
<1> QED BY <1>1, <1>5, <1>6, Zenon DEF OrderRight, Called

-----------------------------------------------------------------------------
(* The theorems                                                              *)

\* The inductive invariant of add_task.
Inv == /\ StateType /\ SerialiseInv /\ DagInv
       /\ MarkInv /\ ComponentInv /\ ValidateInv /\ SplitInv /\ OrderInv

\* add_task starts in Inv.
LEMMA InvInit == Init => Inv
<1> SUFFICES ASSUME Init PROVE Inv
  OBVIOUS
<1>1. StateType /\ SerialiseInv /\ DagInv  BY TypeInit, SerialiseInit
<1>2. pc = "serialise" /\ at = Whole /\ path = <<>> /\ checked = {} /\ subgraphs = <<>>  BY Zenon DEF Init
<1>3. ~MarkedAll  BY <1>2 DEF MarkedAll
<1> QED BY <1>1, <1>2, <1>3, Zenon DEF Inv, MarkInv, ComponentInv, ValidateInv, SplitInv, OrderInv

\* Every step of add_task keeps Inv.
LEMMA InvStep == Inv /\ [Next]_vars => Inv'
<1> SUFFICES ASSUME Inv, [Next]_vars PROVE Inv'
  OBVIOUS
<1>1. StateType' /\ SerialiseInv' /\ DagInv'  BY TypeNext, SerialiseStep, DagStep DEF Inv
<1>2. MarkInv' /\ ComponentInv'  BY MarkStep, ComponentStep DEF Inv, MarkBase
<1>3. ValidateInv' /\ SplitInv' /\ OrderInv'
  BY ValidateStep, SplitStep, OrderStep DEF Inv, MarkBase
<1> QED BY <1>1, <1>2, <1>3 DEF Inv

\* Inv holds throughout add_task.
LEMMA InvAlways == Spec => []Inv
  BY InvInit, InvStep, PTL DEF Spec

\* mark_graph with the default policy, on a graph of any size: although it writes
\* marks more than once, the subgraphs are exactly the components that fusible
\* edges connect.
THEOREM MarksCorrect == Spec => []MarksAreComponents
<1>1. Inv => MarksAreComponents  BY ComponentsMarked DEF Inv
<1> QED BY <1>1, InvAlways, PTL

\* validate_subgraph_dependency, on any graph and whatever a policy answers, aborts
\* only on a circular dependency and accepts no partition that has one.
THEOREM ValidationCorrect == Spec => []ValidationExact
<1>1. Inv => ValidationExact  BY Validated DEF Inv
<1> QED BY <1>1, InvAlways, PTL

\* The default policy fuses an operation only to its single consumer, so that on no
\* graph validate_subgraph_dependency aborts.
THEOREM DefaultNeverCircular == Spec => []NeverCircular
<1>1. Inv => NeverCircular
  <2> SUFFICES ASSUME Inv, ~user, pc = "fatal" PROVE FALSE
    BY DEF NeverCircular
  <2>1. Fusion  BY DEF Inv, Fusion, MarkedAll
  <2>2. ~CycleFree(marks, Waits)  BY DEF Inv, ValidateInv
  <2> QED BY <2>1, <2>2, FusionIsCycleFree
<1> QED BY <1>1, InvAlways, PTL

\* SubGraphPartitionEngine with the default policy: although the TIRGraph of a
\* subgraph serialises only its last category of roots, no operation of any graph
\* is lost in the split.
THEOREM NoOperationLost == Spec => []SubgraphsComplete
<1>1. Inv => SubgraphsComplete  BY SplitComplete DEF Inv
<1> QED BY <1>1, InvAlways, PTL

\* static_call_order of add_task has each subgraph once, after all it reads from,
\* on any graph and whatever a policy answers.
THEOREM CallOrderCorrect == Spec => []CallOrderSound
<1>1. Inv => CallOrderSound  BY OrderComplete DEF Inv
<1> QED BY <1>1, InvAlways, PTL

-----------------------------------------------------------------------------
(* add_task returns: how many steps are left                                 *)

\* There are n numbers from 1 to n.
LEMMA CountTo == \A n \in Nat : IsFiniteSet(1 .. n) /\ Cardinality(1 .. n) = n
  BY FS_Interval

\* A sequence without repetitions is no longer than the set it is taken from.
LEMMA DistinctLength ==
  ASSUME NEW S, IsFiniteSet(S), NEW s \in Seq(S), Distinct(s)
  PROVE  Len(s) <= Cardinality(S)
<1>1. Len(s) \in Nat /\ s \in [1 .. Len(s) -> S]  OBVIOUS
<1>2. IsFiniteSet(1 .. Len(s)) /\ Cardinality(1 .. Len(s)) = Len(s)  BY <1>1, CountTo, Zenon
<1>3. ASSUME Cardinality(S) < Cardinality(1 .. Len(s)) PROVE FALSE
  <2>1. \E x, y \in 1 .. Len(s) : x # y /\ s[x] = s[y]  BY <1>1, <1>2, <1>3, FS_PigeonHole
  <2> QED BY <2>1, Zenon DEF Distinct
<1>4. Cardinality(S) \in Nat  BY FS_CardinalityType, Zenon
<1> QED BY <1>1, <1>2, <1>3, <1>4

\* What a sequence is a sequence of.
LEMMA SeqNarrows ==
  ASSUME NEW S, NEW s \in Seq(S), NEW T, \A i \in 1 .. Len(s) : s[i] \in T
  PROVE  s \in Seq(T)
<1>1. Len(s) \in Nat /\ s = [i \in 1 .. Len(s) |-> s[i]]  OBVIOUS
<1>2. [i \in 1 .. Len(s) |-> s[i]] \in Seq(T)  BY <1>1
<1> QED BY <1>1, <1>2, Zenon

\* There are NOps operations.
LEMMA OpsFinite == IsFiniteSet(Ops) /\ Cardinality(Ops) = NOps /\ NOps \in Nat \ {0}
  BY PartitionAssumption, FS_Interval DEF Ops

\* What is left of a finite set, counted.
LEMMA OneLess ==
  ASSUME NEW S, NEW T, NEW x, IsFiniteSet(S), x \in S, T = S \ {x}
  PROVE  /\ Cardinality(S) \in Nat /\ Cardinality(T) \in Nat
         /\ Cardinality(T) = Cardinality(S) - 1
<1>1. IsFiniteSet(T) /\ Cardinality(T) = Cardinality(S) - 1  BY FS_RemoveElement, Zenon
<1> QED BY <1>1, FS_CardinalityType, Zenon

\* No more subgraphs than operations, whatever the walk of mark_graph does.
LEMMA MarksFew == StateType => IsFiniteSet(marks) /\ Cardinality(marks) <= NOps /\ Cardinality(marks) \in Nat
<1> SUFFICES ASSUME StateType
             PROVE  IsFiniteSet(marks) /\ Cardinality(marks) <= NOps /\ Cardinality(marks) \in Nat
  OBVIOUS
<1> DEFINE f == [op \in Marked |-> mark[op]]
<1>1. IsFiniteSet(Marked) /\ Cardinality(Marked) <= NOps
  <2>1. Marked \subseteq Ops  BY Zenon DEF Marked
  <2> QED BY <2>1, OpsFinite, FS_Subset, Zenon
<1>2. f \in Surjection(Marked, marks)  BY DEF Surjection, marks
<1> HIDE DEF f
<1>3. IsFiniteSet(marks) /\ Cardinality(marks) <= Cardinality(Marked)  BY <1>1, <1>2, FS_Surjection, Zenon
<1>4. Cardinality(marks) \in Nat /\ Cardinality(Marked) \in Nat  BY <1>1, <1>3, FS_CardinalityType, Zenon
<1>5. NOps \in Nat  BY OpsFinite
<1> QED BY <1>1, <1>3, <1>4, <1>5

\* An operation has fewer edges than there are operations.
LEMMA NeighboursFew ==
  ASSUME StateType, BoundInv, NEW op \in Ops
  PROVE  Len(Neighbours(op)) \in Nat /\ Len(Neighbours(op)) < NOps
<1>1. ListType /\ GraphType  BY Zenon DEF StateType
<1>2. /\ Len(Neighbours(op)) = Len(down[op]) + Len(inputs[op])
      /\ Len(down[op]) \in Nat /\ Len(inputs[op]) \in Nat
  BY <1>1, NeighbourFacts, Zenon
<1>3. op \in 1 .. NOps /\ NOps \in Nat /\ op \in Nat  BY OpsFinite DEF Ops
<1>4. Len(inputs[op]) <= op - 1
  <2>1. inputs[op] \in Seq(Ops) /\ Distinct(inputs[op]) /\ \A t \in Range(inputs[op]) : t < op
    BY <1>1, Zenon DEF GraphType, BoundInv, EdgesOnce
  <2>2. inputs[op] \in Seq(1 .. op - 1)
    <3>1. \A i \in 1 .. Len(inputs[op]) : inputs[op][i] \in Ops /\ inputs[op][i] < op
      BY <2>1, RangeType, Zenon
    <3>2. \A i \in 1 .. Len(inputs[op]) : inputs[op][i] \in 1 .. op - 1  BY <1>3, <3>1 DEF Ops
    <3> QED BY <2>1, <3>2, SeqNarrows, Zenon
  <2>3. IsFiniteSet(1 .. op - 1) /\ Cardinality(1 .. op - 1) = op - 1  BY <1>3, FS_Interval
  <2> QED BY <2>1, <2>2, <2>3, DistinctLength, Zenon
<1>5. Len(down[op]) <= NOps - op
  <2>1. down[op] \in Seq(Ops) /\ Distinct(down[op]) /\ \A c \in Range(down[op]) : op < c
    BY <1>1, Zenon DEF ListType, BoundInv, EdgesOnce
  <2>2. down[op] \in Seq(op + 1 .. NOps)
    <3>1. \A i \in 1 .. Len(down[op]) : down[op][i] \in Ops /\ op < down[op][i]
      BY <2>1, RangeType, Zenon
    <3>2. \A i \in 1 .. Len(down[op]) : down[op][i] \in op + 1 .. NOps  BY <1>3, <3>1 DEF Ops
    <3> QED BY <2>1, <3>2, SeqNarrows, Zenon
  <2>3. IsFiniteSet(op + 1 .. NOps) /\ Cardinality(op + 1 .. NOps) = NOps - op  BY <1>3, FS_Interval
  <2> QED BY <2>1, <2>2, <2>3, DistinctLength, Zenon
<1> DEFINE k == Len(down[op])
           l == Len(inputs[op])
<1>6. k \in Nat /\ l \in Nat /\ l <= op - 1 /\ k <= NOps - op  BY <1>2, <1>4, <1>5, Zenon
<1> HIDE DEF k, l
<1>7. k + l \in Nat /\ k + l < NOps  BY <1>3, <1>6
<1> QED BY <1>2, <1>7, Zenon DEF k, l

\* Sets of operations, counted.
LEMMA OpsCounted ==
  ASSUME NEW S \in SUBSET Ops
  PROVE  IsFiniteSet(S) /\ Cardinality(S) \in Nat /\ Cardinality(S) <= NOps
<1>1. IsFiniteSet(S) /\ Cardinality(S) <= NOps  BY OpsFinite, FS_Subset, Zenon
<1> QED BY <1>1, FS_CardinalityType, Zenon

\* Sets of edges, counted.
LEMMA EdgesCounted ==
  ASSUME NEW S \in SUBSET (Ops \X Ops)
  PROVE  IsFiniteSet(S) /\ Cardinality(S) \in Nat /\ Cardinality(S) <= NOps * NOps
<1>1. IsFiniteSet(Ops \X Ops) /\ Cardinality(Ops \X Ops) = NOps * NOps  BY OpsFinite, FS_Product
<1>2. IsFiniteSet(S) /\ Cardinality(S) <= NOps * NOps  BY <1>1, FS_Subset, Zenon
<1> QED BY <1>2, FS_CardinalityType, Zenon

\* SerialiseLeft, from the locals of serialize_compute_dag.
LeftFor(rs, fr, rt, un) ==
  1 + Cardinality(rs) + 2 * Cardinality(Ops \ Range(rt)) - Len(fr) + Cardinality(un)

\* helper is called on operations that it has not appended, on each once at a time.
LEMMA LeftBounds ==
  ASSUME NEW rs \in SUBSET Ops, NEW fr \in Seq(Ops), NEW rt, NEW un \in SUBSET (Ops \X Ops),
         \A i \in 1 .. Len(fr) : fr[i] \notin Range(rt),
         \A i, j \in 1 .. Len(fr) : i < j => fr[j] < fr[i]
  PROVE  /\ LeftFor(rs, fr, rt, un) \in Nat /\ LeftFor(rs, fr, rt, un) >= 1
         /\ fr = <<>> => LeftFor(rs, fr, rt, un) <= SerialiseMax
<1> DEFINE U == Ops \ Range(rt)
<1>1. IsFiniteSet(U) /\ Cardinality(U) \in Nat /\ Cardinality(U) <= NOps  BY OpsCounted, Zenon
<1>2. Len(fr) \in Nat /\ Len(fr) <= Cardinality(U)
  <2>1. \A i \in 1 .. Len(fr) : fr[i] \in Ops  OBVIOUS
  <2>2. fr \in Seq(U)  BY <2>1, SeqNarrows, Zenon
  <2>3. \A i \in 1 .. Len(fr) : fr[i] \in Int  BY <2>1, OpsFinite DEF Ops
  <2>4. Distinct(fr)
    <3> SUFFICES ASSUME NEW i \in 1 .. Len(fr), NEW j \in 1 .. Len(fr), fr[i] = fr[j], i # j PROVE FALSE
      BY Zenon DEF Distinct
    <3>1. i < j \/ j < i  OBVIOUS
    <3>2. fr[j] < fr[j]  BY <3>1, Zenon
    <3>3. fr[j] \in Int  BY <2>3, Zenon
    <3> QED BY <3>2, <3>3
  <2>5. Len(fr) \in Nat  OBVIOUS
  <2> QED BY <1>1, <2>2, <2>4, <2>5, DistinctLength, Zenon
<1>3. Cardinality(rs) \in Nat /\ Cardinality(rs) <= NOps  BY OpsCounted, Zenon
<1>4. Cardinality(un) \in Nat /\ Cardinality(un) <= NOps * NOps  BY EdgesCounted, Zenon
<1>5. NOps \in Nat /\ NOps * NOps \in Nat  BY OpsFinite
<1>6. fr = <<>> => Len(fr) = 0  OBVIOUS
<1> DEFINE r == Cardinality(rs)
           u == Cardinality(U)
           l == Len(fr)
           e == Cardinality(un)
           s == NOps * NOps
<1>7. /\ r \in Nat /\ r <= NOps /\ u \in Nat /\ u <= NOps /\ l \in Nat /\ l <= u
      /\ e \in Nat /\ e <= s /\ s \in Nat /\ (fr = <<>> => l = 0)
  BY <1>1, <1>2, <1>3, <1>4, <1>5, <1>6, Zenon
<1>8. LeftFor(rs, fr, rt, un) = 1 + r + 2 * u - l + e /\ SerialiseMax = 3 * NOps + s + 1
  BY Zenon DEF LeftFor, SerialiseMax
<1> HIDE DEF r, u, l, e, s
<1>9. /\ 1 + r + 2 * u - l + e \in Nat /\ 1 + r + 2 * u - l + e >= 1
      /\ l = 0 => 1 + r + 2 * u - l + e <= 3 * NOps + s + 1
  BY <1>5, <1>7
<1> QED BY <1>7, <1>8, <1>9, Zenon

\* SerialiseLeft is right for its locals.
LEMMA LeftIs ==
  /\ SerialiseLeft = LeftFor(roots, frames, ret, Unread)
  /\ SerialiseLeft' = LeftFor(roots', frames', ret', Unread')
  BY Zenon DEF SerialiseLeft, LeftFor, Unread

\* One call, one return or one edge less.
LEMMA LeftLess ==
  ASSUME NEW r \in Nat, NEW u \in Nat, NEW l \in Nat, NEW e \in Nat,
         NEW r1 \in Nat, NEW u1 \in Nat, NEW l1 \in Nat, NEW e1 \in Nat,
         \/ r1 = r - 1 /\ u1 = u /\ l1 >= l /\ e1 = e
         \/ r1 = r /\ u1 = u /\ l1 = l + 1 /\ e1 = e
         \/ r1 = r /\ u1 = u /\ l1 = l /\ e1 = e - 1
         \/ r1 = r /\ u1 = u - 1 /\ l1 = l - 1 /\ e1 = e
  PROVE  1 + r1 + 2 * u1 - l1 + e1 < 1 + r + 2 * u - l + e
  OBVIOUS

\* Each step of serialize_compute_dag leaves less of it to do.
LEMMA SerialiseLess ==
  ASSUME StateType, StateType', CallsOnce, CallsOnce', SerialiseRoot \/ SerialiseInput \/ SerialiseReturn
  PROVE  SerialiseLeft' < SerialiseLeft /\ SerialiseLeft' \in Nat /\ SerialiseLeft \in Nat
<1>0. /\ roots \in SUBSET Ops /\ frames \in Seq(Ops) /\ ret \in Seq(Ops) /\ Unread \in SUBSET (Ops \X Ops)
      /\ roots' \in SUBSET Ops /\ frames' \in Seq(Ops) /\ Unread' \in SUBSET (Ops \X Ops)
  BY Zenon DEF StateType, SerialiseType, Unread
<1>1. SerialiseLeft \in Nat  BY <1>0, LeftBounds, LeftIs, Zenon DEF CallsOnce
<1>2. SerialiseLeft' \in Nat
  <2>1. /\ \A i \in 1 .. Len(frames') : frames'[i] \notin Range(ret')
        /\ \A i, j \in 1 .. Len(frames') : i < j => frames'[j] < frames'[i]
    BY Zenon DEF CallsOnce
  <2> QED BY <1>0, <2>1, LeftBounds, LeftIs, Zenon
<1> DEFINE r == Cardinality(roots)
           u == Cardinality(Ops \ Range(ret))
           l == Len(frames)
           e == Cardinality(Unread)
<1>3. r \in Nat /\ u \in Nat /\ e \in Nat /\ r' \in Nat /\ u' \in Nat /\ e' \in Nat
  BY <1>0, OpsCounted, EdgesCounted, Zenon
<1>4. l \in Nat /\ l' \in Nat  BY <1>0
<1>5. SerialiseLeft = 1 + r + 2 * u - l + e /\ SerialiseLeft' = 1 + r' + 2 * u' - l' + e'
  BY LeftIs, Zenon DEF LeftFor
<1>6. UNCHANGED <<inputs, at, mark>>
  BY Zenon DEF SerialiseRoot, SerialiseInput, SerialiseReturn, graph, marking
<1>7. UNCHANGED feeds => Unread' = Unread
  <2> SUFFICES ASSUME UNCHANGED feeds PROVE Unread' = Unread  OBVIOUS
  <2>1. \A o : Left(o)' = Left(o)  BY <1>6, Zenon DEF Left, InGraph
  <2> QED BY <1>6, <2>1, Zenon DEF Unread
<1>8. ASSUME SerialiseRoot PROVE 1 + r' + 2 * u' - l' + e' < 1 + r + 2 * u - l + e
  <2>1. PICK x \in roots : roots' = roots \ {x} /\ frames' = IF x \in Range(ret) THEN <<>> ELSE <<x>>
    BY <1>8, Zenon DEF SerialiseRoot
  <2>2. frames = <<>> /\ UNCHANGED <<ret, feeds>>  BY <1>8, Zenon DEF SerialiseRoot
  <2>3. r' = r - 1
    <3>1. IsFiniteSet(roots)  BY <1>0, OpsCounted, Zenon
    <3> QED BY <2>1, <3>1, OneLess, Zenon
  <2>4. u' = u /\ e' = e  BY <1>7, <2>2, Zenon
  <2>5. l = 0  BY <2>2
  <2>6. l' >= l  BY <1>4, <2>5
  <2> HIDE DEF r, u, l, e
  <2> QED BY <1>3, <1>4, <2>3, <2>4, <2>6, LeftLess, Zenon
<1>9. ASSUME SerialiseInput PROVE 1 + r' + 2 * u' - l' + e' < 1 + r + 2 * u - l + e
  <2> DEFINE op == Top(frames)
  <2>1. PICK i \in Left(op) :
          \/ feeds' = [feeds EXCEPT ![inputs[op][i]] = Append(@, op)] /\ UNCHANGED frames
          \/ frames' = Append(frames, inputs[op][i]) /\ UNCHANGED feeds
    BY <1>9, Zenon DEF SerialiseInput
  <2>2. frames # <<>> /\ UNCHANGED <<roots, ret>>  BY <1>9, Zenon DEF SerialiseInput
  <2>3. op \in Ops  BY <1>0, <2>2, PushPop, Zenon
  <2> HIDE DEF op
  <2>4. r' = r /\ u' = u  BY <2>2, Zenon
  <2>5. CASE feeds' = [feeds EXCEPT ![inputs[op][i]] = Append(@, op)] /\ UNCHANGED frames
    <3> DEFINE p == <<inputs[op][i], op>>
    <3>1. p \in Unread /\ Unread' = Unread \ {p}  BY <1>6, <2>3, <2>5, UnreadStep, Zenon
    <3> HIDE DEF p
    <3>2. IsFiniteSet(Unread)  BY <1>0, EdgesCounted, Zenon
    <3>3. e' = e - 1  BY <3>1, <3>2, OneLess, Zenon
    <3>4. l' = l  BY <2>5, Zenon
    <3> HIDE DEF r, u, l, e
    <3> QED BY <1>3, <1>4, <2>4, <3>3, <3>4, LeftLess, Zenon
  <2>6. CASE frames' = Append(frames, inputs[op][i]) /\ UNCHANGED feeds
    <3>1. e' = e  BY <1>7, <2>6, Zenon
    <3>2. l' = l + 1  BY <1>0, <2>6
    <3> HIDE DEF r, u, l, e
    <3> QED BY <1>3, <1>4, <2>4, <3>1, <3>2, LeftLess, Zenon
  <2> QED BY <2>1, <2>5, <2>6, Zenon
<1>10. ASSUME SerialiseReturn PROVE 1 + r' + 2 * u' - l' + e' < 1 + r + 2 * u - l + e
  <2> DEFINE op == Top(frames)
  <2>1. frames # <<>> /\ ret' = Append(ret, op) /\ frames' = Pop(frames) /\ UNCHANGED <<roots, feeds>>
    BY <1>10, Zenon DEF SerialiseReturn
  <2>2. op \in Ops /\ op = frames[Len(frames)] /\ Len(frames) \in Nat \ {0}  BY <1>0, <2>1, PushPop, Zenon DEF Top
  <2>3. l' = l - 1
    <3>1. Len(Pop(frames)) = Len(frames) - 1  BY <1>0, <2>1, PushPop, Zenon
    <3> QED BY <2>1, <3>1, Zenon
  <2> HIDE DEF op
  <2>4. Len(frames) \in 1 .. Len(frames)  BY <2>2
  <2>5. op \notin Range(ret)  BY <2>2, <2>4, Zenon DEF CallsOnce
  <2>6. Range(ret') = Range(ret) \cup {op}  BY <1>0, <2>1, <2>2, Appended, Zenon
  <2>7. Ops \ Range(ret') = (Ops \ Range(ret)) \ {op} /\ op \in Ops \ Range(ret)  BY <2>2, <2>5, <2>6, Zenon
  <2>8. u' = u - 1
    <3> DEFINE U == Ops \ Range(ret)
    <3>1. IsFiniteSet(U)  BY OpsCounted, Zenon
    <3>2. op \in U /\ U' = U \ {op}  BY <2>7, Zenon
    <3> HIDE DEF U
    <3>3. Cardinality(U') = Cardinality(U) - 1  BY <3>1, <3>2, OneLess, Zenon
    <3> QED BY <3>3, Zenon DEF U
  <2>9. r' = r /\ e' = e  BY <1>7, <2>1, Zenon
  <2> HIDE DEF r, u, l, e
  <2> QED BY <1>3, <1>4, <2>3, <2>8, <2>9, LeftLess, Zenon
<1> QED BY <1>1, <1>2, <1>5, <1>8, <1>9, <1>10, Zenon

-----------------------------------------------------------------------------
\* The bounds are numbers, and a phase's bound covers the next phase.
LEMMA Bounds ==
  /\ NOps \in Nat \ {0} /\ SerialiseMax \in Nat /\ OrderMax = NOps + 2
  /\ SplitMax \in Nat /\ ValidateMax = SplitMax + 2 * NOps + 1 /\ ValidateMax \in Nat
  /\ MarkMax = ValidateMax + 2 * NOps * NOps + NOps /\ MarkMax \in Nat
<1>1. NOps \in Nat \ {0} /\ SerialiseMax \in Nat  BY OpsFinite DEF SerialiseMax
<1>2. OrderMax = NOps + 2 /\ OrderMax \in Nat  BY <1>1 DEF OrderMax
<1>3. SplitMax \in Nat  BY <1>1, <1>2 DEF SplitMax
<1>4. ValidateMax = SplitMax + 2 * NOps + 1 /\ ValidateMax \in Nat  BY <1>1, <1>3 DEF ValidateMax
<1>5. MarkMax = ValidateMax + 2 * NOps * NOps + NOps /\ MarkMax \in Nat  BY <1>1, <1>4 DEF MarkMax
<1> QED BY <1>1, <1>2, <1>3, <1>4, <1>5, Zenon

\* The second part of a sum decides.
LEMMA SumLess == \A a, b, c \in Nat : c < b => a + c < a + b /\ a + c >= 0
  OBVIOUS

\* What each of a steps costs, a at most b.
LEMMA TimesGrows == \A k, a, b \in Nat : a <= b => k * a <= k * b /\ k * a \in Nat
  OBVIOUS

\* One step less at the cost k.
LEMMA TimesLess == \A k \in Nat, a \in Nat \ {0} : k * (a - 1) = k * a - k /\ k * (a - 1) \in Nat /\ k * a \in Nat
  OBVIOUS

\* What is left of the split, by the subgraphs that are not built.
LEMMA SplitBounds ==
  ASSUME NEW c \in Nat
  PROVE  /\ OrderMax + (SerialiseMax + 1) * c \in Nat
         /\ OrderMax + (SerialiseMax + 1) * c >= OrderMax
         /\ c <= NOps => OrderMax + (SerialiseMax + 1) * c < SplitMax
         /\ c # 0 => OrderMax + (SerialiseMax + 1) * (c - 1) = (OrderMax + (SerialiseMax + 1) * c) - SerialiseMax - 1
<1> DEFINE k == SerialiseMax + 1
<1>1. k \in Nat /\ OrderMax \in Nat /\ NOps \in Nat  BY Bounds
<1>2. SplitMax = OrderMax + k * NOps + 1  BY Zenon DEF SplitMax
<1>3. k * c \in Nat /\ k * NOps \in Nat /\ (c <= NOps => k * c <= k * NOps)  BY <1>1, TimesGrows
<1>4. c # 0 => k * (c - 1) = k * c - k /\ k * (c - 1) \in Nat  BY <1>1, TimesLess
<1> HIDE DEF k
<1>5. OrderMax + k * c \in Nat /\ OrderMax + k * c >= OrderMax  BY <1>1, <1>3
<1>6. c <= NOps => OrderMax + k * c < SplitMax  BY <1>1, <1>2, <1>3
<1>7. c # 0 => OrderMax + k * (c - 1) = OrderMax + k * c - k  BY <1>1, <1>3, <1>4
<1>8. OrderMax + k * c - k = (OrderMax + k * c) - SerialiseMax - 1  BY <1>1, <1>3, Bounds DEF k
<1> QED BY <1>5, <1>6, <1>7, <1>8, Zenon DEF k

\* The steps left, by where add_task is.
LEMMA StepsNow ==
  /\ pc = "serialise" /\ at = Whole => StepsLeft = MarkMax + SerialiseLeft
  /\ pc = "mark" => StepsLeft = MarkLeft
  /\ pc = "edges" => StepsLeft = MarkLeft - 2 * NOps + 2 * (Len(Neighbours(cur)) - edge) + 3
  /\ pc = "validate" => StepsLeft = SplitMax + 2 * Cardinality(marks \ checked) - Len(path)
  /\ pc = "split" => StepsLeft = SplitLeft
  /\ pc = "serialise" /\ at # Whole => StepsLeft = SplitLeft - SerialiseMax - 1 + SerialiseLeft
  /\ pc = "order" => StepsLeft = NOps + 1 - Len(order)
  /\ pc \in {"ready", "fatal"} => StepsLeft = 0
  BY DEF StepsLeft

\* The same after the step.
LEMMA StepsThen ==
  /\ pc' = "serialise" /\ at' = Whole => StepsLeft' = MarkMax + SerialiseLeft'
  /\ pc' = "mark" => StepsLeft' = MarkLeft'
  /\ pc' = "edges" => StepsLeft' = MarkLeft' - 2 * NOps + 2 * (Len(Neighbours(cur)') - edge') + 3
  /\ pc' = "validate" => StepsLeft' = SplitMax + 2 * Cardinality(marks' \ checked') - Len(path')
  /\ pc' = "split" => StepsLeft' = SplitLeft'
  /\ pc' = "serialise" /\ at' # Whole => StepsLeft' = SplitLeft' - SerialiseMax - 1 + SerialiseLeft'
  /\ pc' = "order" => StepsLeft' = NOps + 1 - Len(order')
  /\ pc' \in {"ready", "fatal"} => StepsLeft' = 0
  BY DEF StepsLeft, MarkMax, SplitMax, ValidateMax, OrderMax, SerialiseMax

\* A step that leaves fewer steps to take.
Less == StepsLeft' < StepsLeft /\ StepsLeft' >= 0

\* What is left to do, in the phases that only Inv and BoundInv bound.
LEMMA LeftNow ==
  ASSUME StateType, BoundInv
  PROVE  /\ SerialiseLeft \in Nat /\ SerialiseLeft >= 1
         /\ IsFiniteSet(marks) /\ Cardinality(marks) \in Nat /\ Cardinality(marks) <= NOps
         /\ \A S \in SUBSET marks : IsFiniteSet(S) /\ Cardinality(S) \in Nat /\ Cardinality(S) <= NOps
<1>0. /\ roots \in SUBSET Ops /\ frames \in Seq(Ops) /\ ret \in Seq(Ops) /\ Unread \in SUBSET (Ops \X Ops)
  BY Zenon DEF StateType, SerialiseType, Unread
<1>1. SerialiseLeft \in Nat /\ SerialiseLeft >= 1  BY <1>0, LeftBounds, LeftIs, Zenon DEF BoundInv, CallsOnce
<1>2. IsFiniteSet(marks) /\ Cardinality(marks) \in Nat /\ Cardinality(marks) <= NOps  BY MarksFew, Zenon
<1>3. ASSUME NEW S \in SUBSET marks
      PROVE  IsFiniteSet(S) /\ Cardinality(S) \in Nat /\ Cardinality(S) <= NOps
  <2>1. IsFiniteSet(S) /\ Cardinality(S) <= Cardinality(marks)  BY <1>2, FS_Subset, Zenon
  <2>2. Cardinality(S) \in Nat  BY <2>1, FS_CardinalityType, Zenon
  <2> QED BY <1>2, <2>1, <2>2, Bounds
<1> QED BY <1>1, <1>2, <1>3, Zenon

\* A call, an input or a return of helper, or the end of serialize_compute_dag.
LEMMA SerialisePhase ==
  ASSUME Inv, Inv', BoundInv, BoundInv', Serialise
  PROVE  Less
<1>0. StateType /\ StateType' /\ CallsOnce /\ CallsOnce'  BY Zenon DEF Inv, BoundInv
<1>1. SerialiseLeft \in Nat /\ SerialiseLeft >= 1  BY <1>0, LeftNow, Zenon
<1>2. MarkMax \in Nat /\ SerialiseMax \in Nat  BY Bounds, Zenon
<1> DEFINE c == Cardinality(marks \ DOMAIN subgraphs)
<1>3. IsFiniteSet(marks \ DOMAIN subgraphs) /\ c \in Nat  BY <1>0, LeftNow, Zenon
<1>4. pc = "serialise"  BY Zenon DEF Serialise, SerialiseRoot, SerialiseInput, SerialiseReturn, GraphSerialised, SubgraphSerialised
<1>5. at # Whole => at \in marks \ DOMAIN subgraphs
  <2>1. at # Whole => MarkedAll  BY <1>4 DEF MarkedAll
  <2> QED BY <1>4, <2>1, Zenon DEF Inv, SplitInv, BoundInv
<1>6. at # Whole => SplitLeft - SerialiseMax - 1 = OrderMax + (SerialiseMax + 1) * (c - 1) /\ c - 1 \in Nat
  <2>1. at # Whole => c # 0  BY <1>3, <1>5, FS_EmptySet, Zenon
  <2>2. at # Whole => c - 1 \in Nat  BY <1>3, <2>1
  <2>4. c \in Nat  BY <1>3, Zenon
  <2> HIDE DEF c
  <2>5. c # 0 => OrderMax + (SerialiseMax + 1) * (c - 1) = (OrderMax + (SerialiseMax + 1) * c) - SerialiseMax - 1
    BY <2>4, SplitBounds, Zenon
  <2> QED BY <2>1, <2>2, <2>5, Zenon DEF SplitLeft, c
<1>7. at # Whole => SplitLeft - SerialiseMax - 1 \in Nat  BY <1>6, SplitBounds, Zenon
<1>8. CASE SerialiseRoot \/ SerialiseInput \/ SerialiseReturn
  <2>1. SerialiseLeft' < SerialiseLeft /\ SerialiseLeft' \in Nat  BY <1>0, <1>8, SerialiseLess, Zenon
  <2>2. UNCHANGED <<pc, at, graph, marking, subgraphs>>  BY <1>8, Zenon DEF SerialiseRoot, SerialiseInput, SerialiseReturn
  <2>3. SplitLeft' = SplitLeft
    <3>1. marks' = marks  BY <2>2, MarkingFixed, Zenon
    <3> QED BY <2>2, <3>1, Zenon DEF SplitLeft, OrderMax, SerialiseMax
  <2>4. CASE at = Whole
    <3>1. StepsLeft = MarkMax + SerialiseLeft /\ StepsLeft' = MarkMax + SerialiseLeft'
      BY <1>4, <2>2, <2>4, StepsNow, StepsThen, Zenon
    <3> QED BY <1>1, <1>2, <2>1, <3>1, SumLess, Zenon DEF Less
  <2>5. CASE at # Whole
    <3> DEFINE d == SplitLeft - SerialiseMax - 1
    <3>1. StepsLeft = d + SerialiseLeft /\ StepsLeft' = d + SerialiseLeft'
      BY <1>4, <2>2, <2>3, <2>5, StepsNow, StepsThen, Zenon
    <3>2. d \in Nat  BY <1>7, <2>5, Zenon
    <3> HIDE DEF d
    <3> QED BY <1>1, <2>1, <3>1, <3>2, SumLess, Zenon DEF Less
  <2> QED BY <2>4, <2>5, Zenon
<1>9. CASE GraphSerialised
  <2>1. pc' = "mark" /\ at = Whole /\ stack' = ret /\ UNCHANGED visited  BY <1>9, Zenon DEF GraphSerialised
  <2>2. StepsLeft = MarkMax + SerialiseLeft /\ StepsLeft' = ValidateMax + 2 * NOps * Cardinality(Ops \ visited) + Len(ret)
    BY <1>4, <2>1, StepsNow, StepsThen, Zenon DEF MarkLeft, ValidateMax, SplitMax, OrderMax, SerialiseMax
  <2> DEFINE v == Cardinality(Ops \ visited)
             n == Len(ret)
             k == 2 * NOps
  <2>3. v \in Nat /\ v <= NOps  BY OpsCounted, Zenon
  <2>4. n \in Nat /\ n <= NOps
    <3>1. ret \in Seq(Ops) /\ Distinct(ret)  BY <1>0, Zenon DEF StateType, SerialiseType, CallsOnce
    <3>2. n \in Nat  BY <3>1
    <3> QED BY <3>1, <3>2, DistinctLength, OpsFinite, Zenon
  <2>5. NOps \in Nat /\ ValidateMax \in Nat /\ MarkMax = ValidateMax + k * NOps + NOps /\ k \in Nat  BY Bounds
  <2>6. StepsLeft' = ValidateMax + k * v + n  BY <2>2, Zenon
  <2> HIDE DEF v, n, k
  <2>7. k * v \in Nat /\ k * NOps \in Nat /\ k * v <= k * NOps  BY <2>3, <2>5, TimesGrows
  <2> QED BY <1>1, <2>2, <2>4, <2>5, <2>6, <2>7 DEF Less
<1>10. CASE SubgraphSerialised
  <2>1. pc' = "split" /\ at # Whole /\ DOMAIN subgraphs' = DOMAIN subgraphs \cup {at} /\ UNCHANGED <<graph, marking>>
    BY <1>10, Zenon DEF SubgraphSerialised
  <2>2. marks' = marks  BY <2>1, MarkingFixed, Zenon
  <2>3. c' = c - 1
    <3>1. (marks \ DOMAIN subgraphs)' = (marks \ DOMAIN subgraphs) \ {at}  BY <2>1, <2>2, Zenon
    <3>2. at \in marks \ DOMAIN subgraphs  BY <1>5, <2>1, Zenon
    <3> QED BY <1>3, <3>1, <3>2, OneLess, Zenon
  <2>4. StepsLeft' = OrderMax + (SerialiseMax + 1) * (c - 1)
    BY <2>1, <2>3, StepsThen, Zenon DEF SplitLeft, OrderMax, SerialiseMax
  <2>5. StepsLeft = SplitLeft - SerialiseMax - 1 + SerialiseLeft  BY <1>4, <2>1, StepsNow, Zenon
  <2> DEFINE d == SplitLeft - SerialiseMax - 1
  <2>6. StepsLeft = d + SerialiseLeft /\ StepsLeft' = d /\ d \in Nat  BY <1>6, <1>7, <2>1, <2>4, <2>5, Zenon
  <2> HIDE DEF d
  <2> QED BY <1>1, <2>6 DEF Less
<1> QED BY <1>8, <1>9, <1>10, Zenon DEF Serialise

\* What is left of mark_graph, by the operations to visit and the stack.
LEMMA MarkLeftIs ==
  /\ MarkLeft = ValidateMax + 2 * NOps * Cardinality(Ops \ visited) + Len(stack)
  /\ MarkLeft' = ValidateMax + 2 * NOps * Cardinality(Ops \ visited') + Len(stack')
  BY Zenon DEF MarkLeft, ValidateMax, SplitMax, OrderMax, SerialiseMax

\* The walk over the edges of cur: g is their number, e the next of them.
LEMMA MarkLess ==
  ASSUME NEW m \in Nat, NEW n \in Nat, NEW l \in Nat, NEW g \in Nat, NEW e \in Nat
  PROVE  /\ \A k \in {l, l + 1} : (m + k) - 2 * n + 2 * (g - (e + 1)) + 3 < (m + l) - 2 * n + 2 * (g - e) + 3
         /\ \A k \in Nat : m >= 2 * n /\ e <= g => (m + k) - 2 * n + 2 * (g - (e + 1)) + 3 >= 0
         /\ e = g + 1 => (m - 2 * n) + l < (m + l) - 2 * n + 2 * (g - e) + 3
  OBVIOUS

\* A step of the walk of mark_graph, or its end.
LEMMA MarkPhase ==
  ASSUME Inv, Inv', BoundInv, BoundInv', Mark
  PROVE  Less
<1>0. StateType /\ GraphType /\ ListType /\ stack \in Seq(Ops) /\ stack' \in Seq(Ops) /\ visited \subseteq Ops
  BY Zenon DEF Inv, StateType, MarkType
<1>1. ValidateMax \in Nat /\ SplitMax \in Nat /\ ValidateMax = SplitMax + 2 * NOps + 1 /\ NOps \in Nat /\ 2 * NOps \in Nat
  BY Bounds
<1> DEFINE v == Cardinality(Ops \ visited)
           l == Len(stack)
           m == ValidateMax + 2 * NOps * v
<1>2. v \in Nat /\ IsFiniteSet(Ops \ visited)  BY OpsCounted, Zenon
<1>3. l \in Nat /\ l' \in Nat  BY <1>0
<1>4. m \in Nat
  <2> HIDE DEF v
  <2>1. 2 * NOps * v \in Nat  BY <1>1, <1>2, TimesGrows
  <2> QED BY <1>1, <2>1
<1>5. MarkLeft = m + l  BY MarkLeftIs, Zenon
<1>6. UNCHANGED visited => MarkLeft' = m + l'  BY MarkLeftIs, Zenon
\* An operation not visited pays for the edges of cur.
<1>7. ASSUME NEW x \in Ops \ visited
      PROVE  m >= 2 * NOps /\ ValidateMax + 2 * NOps * (v - 1) = m - 2 * NOps /\ m - 2 * NOps \in Nat
  <2>1. v # 0  BY <1>2, FS_EmptySet, Zenon
  <2> DEFINE k == 2 * NOps
  <2>2. k * (v - 1) = k * v - k /\ k * (v - 1) \in Nat /\ k * v \in Nat
    <3> HIDE DEF v, k
    <3>1. k \in Nat /\ v \in Nat \ {0}  BY <1>1, <1>2, <2>1 DEF k
    <3> QED BY <3>1, TimesLess, Zenon
  <2>3. m = ValidateMax + k * v /\ k \in Nat  BY <1>1, Zenon
  <2> HIDE DEF v, m, k
  <2>4. m >= k /\ ValidateMax + k * (v - 1) = m - k /\ m - k \in Nat  BY <1>1, <2>2, <2>3
  <2> QED BY <2>4, Zenon DEF k
<1>8. CASE MarkVisit
  <2> DEFINE x == Top(stack)
             g == Len(Neighbours(x))
  <2>1. /\ pc = "mark" /\ pc' = "edges" /\ stack # <<>> /\ x \notin visited /\ UNCHANGED <<visited, inputs, down>>
        /\ cur' = x /\ stack' = Pop(stack) /\ edge' = 1
    BY <1>8, Zenon DEF MarkVisit, graph, lists
  <2>2. x \in Ops /\ l' = l - 1 /\ l # 0  BY <1>0, <2>1, PushPop
  <2>3. g \in Nat /\ g < NOps  BY <1>0, <2>2, NeighboursFew, Zenon
  <2>4. Neighbours(cur)' = Neighbours(x)  BY <2>1, Zenon DEF Neighbours
  <2>5. StepsLeft = m + l  BY <1>5, <2>1, StepsNow, Zenon
  <2>6. StepsLeft' = (m + (l - 1)) - 2 * NOps + 2 * (g - 1) + 3
    BY <1>6, <2>1, <2>2, <2>4, StepsThen, Zenon
  <2>7. m >= 2 * NOps  BY <1>7, <2>1, <2>2, Zenon
  <2> HIDE DEF m, l, g
  <2>8. /\ (m + (l - 1)) - 2 * NOps + 2 * (g - 1) + 3 < m + l
        /\ (m + (l - 1)) - 2 * NOps + 2 * (g - 1) + 3 >= 0
    BY <1>1, <1>3, <1>4, <2>2, <2>3, <2>7
  <2> QED BY <2>5, <2>6, <2>8, Zenon DEF Less
<1>9. CASE MarkEdge \/ MarkVisited
  <2> DEFINE g == Len(Neighbours(cur))
  <2>1. pc = "edges" /\ UNCHANGED <<cur, inputs, down>>
    BY <1>9, Zenon DEF MarkEdge, MarkVisited, graph, lists
  <2>2. cur \in Ops /\ edge \in Nat /\ cur \notin visited /\ edge <= g + 1
    BY <2>1, Zenon DEF Inv, StateType, MarkType, BoundInv
  <2>3. g \in Nat  BY <1>0, <2>2, NeighboursFew, Zenon
  <2>4. Neighbours(cur)' = Neighbours(cur)  BY <2>1, Zenon DEF Neighbours
  <2>5. StepsLeft = (m + l) - 2 * NOps + 2 * (g - edge) + 3  BY <1>5, <2>1, StepsNow, Zenon
  <2>6. m >= 2 * NOps /\ ValidateMax + 2 * NOps * (v - 1) = m - 2 * NOps /\ m - 2 * NOps \in Nat  BY <1>7, <2>2, Zenon
  <2>7. CASE MarkEdge
    <3>1. pc' = "edges" /\ edge <= g /\ edge' = edge + 1 /\ UNCHANGED visited
      BY <2>1, <2>7, Zenon DEF MarkEdge
    <3>2. l' \in {l, l + 1}
      <4>1. UNCHANGED stack \/ \E o : stack' = Append(stack, o)  BY <2>7, Zenon DEF MarkEdge
      <4> QED BY <1>0, <4>1
    <3>3. StepsLeft' = (m + l') - 2 * NOps + 2 * (g - (edge + 1)) + 3
      BY <1>6, <2>4, <3>1, StepsThen, Zenon
    <3> HIDE DEF m, l, g
    <3> QED BY <1>1, <1>3, <1>4, <2>2, <2>3, <2>5, <2>6, <3>1, <3>2, <3>3, MarkLess, Zenon DEF Less
  <2>8. CASE MarkVisited
    <3>1. pc' = "mark" /\ edge > g /\ visited' = visited \cup {cur} /\ UNCHANGED stack
      BY <2>8, Zenon DEF MarkVisited, Visit
    <3>2. edge = g + 1
      <4> HIDE DEF g
      <4> QED BY <2>2, <2>3, <3>1
    <3>3. Cardinality(Ops \ visited') = v - 1
      <4>1. Ops \ visited' = (Ops \ visited) \ {cur} /\ cur \in Ops \ visited  BY <2>2, <3>1, Zenon
      <4> QED BY <1>2, <4>1, OneLess, Zenon
    <3>4. StepsLeft' = ValidateMax + 2 * NOps * (v - 1) + l  BY <3>1, <3>3, MarkLeftIs, StepsThen, Zenon
    <3>5. StepsLeft' = (m - 2 * NOps) + l
      <4> HIDE DEF m, l, v
      <4> QED BY <2>6, <3>4, Zenon
    <3>6. (m - 2 * NOps) + l >= 0
      <4> DEFINE d == m - 2 * NOps
      <4>1. d \in Nat  BY <2>6, Zenon
      <4> HIDE DEF d, l
      <4>2. d + l >= 0  BY <1>3, <4>1
      <4> QED BY <4>2, Zenon DEF d
    <3> HIDE DEF m, l, g
    <3> QED BY <1>1, <1>3, <1>4, <2>2, <2>3, <2>5, <3>2, <3>5, <3>6, MarkLess, Zenon DEF Less
  <2> QED BY <1>9, <2>7, <2>8, Zenon
<1>10. CASE MarkSkip
  <2>1. pc = "mark" /\ pc' = "mark" /\ stack # <<>> /\ stack' = Pop(stack) /\ UNCHANGED visited
    BY <1>10, Zenon DEF MarkSkip
  <2>2. l' = l - 1 /\ l # 0  BY <1>0, <2>1, PushPop
  <2>3. StepsLeft = m + l /\ StepsLeft' = m + l'  BY <1>5, <1>6, <2>1, StepsNow, StepsThen, Zenon
  <2>4. l' < l  BY <1>3, <2>2
  <2> HIDE DEF m, l
  <2> QED BY <1>3, <1>4, <2>3, <2>4, SumLess, Zenon DEF Less
<1>11. CASE MarkDone
  <2>1. pc = "mark" /\ pc' = "validate" /\ UNCHANGED <<graph, marking, path, checked>>
    BY <1>11, Zenon DEF MarkDone, validating
  <2>2. path = <<>> /\ marks' = marks
    <3>1. ~MarkedAll  BY <2>1 DEF MarkedAll
    <3> QED BY <2>1, <3>1, MarkingFixed, Zenon DEF Inv, ValidateInv
  <2> DEFINE d == Cardinality(marks \ checked)
  <2>3. d \in Nat /\ d <= NOps  BY <1>0, LeftNow, Zenon
  <2>4. StepsLeft = m + l /\ StepsLeft' = SplitMax + 2 * d - Len(<<>>)
    BY <1>5, <2>1, <2>2, StepsNow, StepsThen, Zenon
  <2>5. Len(<<>>) = 0  OBVIOUS
  <2>6. m >= ValidateMax
    <3> DEFINE w == 2 * NOps * v
    <3>1. w \in Nat
      <4> HIDE DEF v
      <4> QED BY <1>1, <1>2, TimesGrows
    <3>2. m = ValidateMax + w  BY Zenon
    <3> HIDE DEF w, m
    <3> QED BY <1>1, <3>1, <3>2
  <2> HIDE DEF m, l, d
  <2> QED BY <1>1, <1>3, <1>4, <2>3, <2>4, <2>5, <2>6 DEF Less
<1> QED BY <1>8, <1>9, <1>10, <1>11, Zenon DEF Mark

\* A call path of helper is no longer than what is left to check.
LEMMA PathFew ==
  ASSUME NEW M, IsFiniteSet(M), NEW C, NEW p \in Seq(M),
         \A i \in 1 .. Len(p) : p[i] \notin C,
         \A i, j \in 1 .. Len(p) : p[i] = p[j] => i = j
  PROVE  /\ Len(p) \in Nat /\ Cardinality(M \ C) \in Nat
         /\ Len(p) <= Cardinality(M \ C)
<1>1. IsFiniteSet(M \ C)  BY FS_Difference, Zenon
<1>2. p \in Seq(M \ C)  BY SeqNarrows
<1>3. Cardinality(M \ C) \in Nat  BY <1>1, FS_CardinalityType, Zenon
<1>4. Distinct(p)  BY Zenon DEF Distinct
<1> QED BY <1>1, <1>2, <1>3, <1>4, DistinctLength

\* A step of validate_subgraph_dependency goes on with it, aborts or ends it.
LEMMA ValidatePhase ==
  ASSUME Inv, Inv', BoundInv, BoundInv', Validate
  PROVE  Less
<1> DEFINE c == Cardinality(marks \ checked)
           l == Len(path)
<1>0. StateType /\ pc = "validate" /\ UNCHANGED <<graph, marking, subgraphs>>
  BY Zenon DEF Inv, Validate, HelperEnter, HelperDescend, HelperLeave, ValidateDone
<1>1. SplitMax \in Nat /\ OrderMax = NOps + 2 /\ NOps \in Nat  BY Bounds
<1>2. marks' = marks /\ IsFiniteSet(marks)  BY <1>0, MarkingFixed, LeftNow, Zenon
<1>3. path \in Seq(marks) /\ l \in Nat /\ c \in Nat /\ l <= c
  <2>1. PathInv  BY <1>0, Zenon DEF Inv, ValidateInv
  <2> QED BY <1>2, <2>1, PathFew, Zenon DEF PathInv
<1>4. pc' = "validate" => l' \in Nat /\ Cardinality(marks \ checked') \in Nat /\ l' <= Cardinality(marks \ checked')
  <2> SUFFICES ASSUME pc' = "validate"
               PROVE  l' \in Nat /\ Cardinality(marks \ checked') \in Nat /\ l' <= Cardinality(marks \ checked')
    BY Zenon
  <2>1. PathInv'  BY Zenon DEF Inv, ValidateInv
  <2>2. /\ path' \in Seq(marks) /\ \A i \in 1 .. Len(path') : path'[i] \notin checked'
        /\ \A i, j \in 1 .. Len(path') : path'[i] = path'[j] => i = j
    BY <1>2, <2>1, Zenon DEF PathInv
  <2> QED BY <1>2, <2>2, PathFew, Zenon
<1>5. StepsLeft = SplitMax + 2 * c - l  BY <1>0, StepsNow, Zenon
<1>6. pc' = "validate" => StepsLeft' = SplitMax + 2 * Cardinality(marks \ checked') - l'
  BY <1>2, StepsThen, Zenon
<1>7. ASSUME pc' = "validate", checked' = checked, l' = l + 1
      PROVE  Less
  <2>1. StepsLeft' = SplitMax + 2 * c - l' /\ l' <= c  BY <1>4, <1>6, <1>7, Zenon
  <2> HIDE DEF c, l
  <2>2. SplitMax + 2 * c - (l + 1) < SplitMax + 2 * c - l  BY <1>1, <1>3
  <2>3. l + 1 <= c => SplitMax + 2 * c - (l + 1) >= 0  BY <1>1, <1>3
  <2> QED BY <1>5, <1>7, <2>1, <2>2, <2>3, Zenon DEF Less
<1>8. CASE HelperEnter
  <2>1. path = <<>> /\ (\E m : path' = <<m>>) /\ pc' = "validate" /\ checked' = checked
    BY <1>0, <1>8, Zenon DEF HelperEnter
  <2>2. l' = l + 1  BY <2>1
  <2> QED BY <1>7, <2>1, <2>2, Zenon
<1>9. CASE HelperDescend
  <2>1. checked' = checked /\ (pc' = "fatal" \/ (pc' = "validate" /\ \E n : path' = Append(path, n)))
    BY <1>0, <1>9, Zenon DEF HelperDescend
  <2>2. CASE pc' = "fatal"
    <3>1. StepsLeft' = 0  BY <2>2, StepsThen, Zenon
    <3>2. SplitMax > 0
      <4>1. OrderMax + (SerialiseMax + 1) * 0 \in Nat /\ OrderMax + (SerialiseMax + 1) * 0 < SplitMax
        BY <1>1, SplitBounds
      <4> QED BY <1>1, <4>1
    <3> HIDE DEF c, l
    <3> QED BY <1>1, <1>3, <1>5, <3>1, <3>2 DEF Less
  <2>3. CASE pc' = "validate" /\ \E n : path' = Append(path, n)
    <3>1. l' = l + 1  BY <1>3, <2>3
    <3> QED BY <1>7, <2>1, <2>3, <3>1, Zenon
  <2> QED BY <2>1, <2>2, <2>3, Zenon
<1>10. CASE HelperLeave
  <2>1. path # <<>> /\ checked' = checked \cup {Top(path)} /\ path' = Pop(path) /\ pc' = "validate"
    BY <1>0, <1>10, Zenon DEF HelperLeave
  <2>2. Top(path) \in marks \ checked
    <3>1. \A i \in 1 .. Len(path) : path[i] \notin checked  BY <1>0, Zenon DEF Inv, ValidateInv, PathInv
    <3>2. Top(path) \in marks /\ \E i \in 1 .. Len(path) : Top(path) = path[i]
      BY <1>3, <2>1, PushPop DEF Top
    <3> QED BY <3>1, <3>2, Zenon
  <2>3. l' = l - 1  BY <1>3, <2>1, PushPop
  <2>4. marks \ checked' = (marks \ checked) \ {Top(path)} /\ IsFiniteSet(marks \ checked)
    BY <1>2, <2>1, FS_Difference, Zenon
  <2>5. Cardinality(marks \ checked') = c - 1  BY <2>2, <2>4, OneLess, Zenon
  <2>6. StepsLeft' = SplitMax + 2 * (c - 1) - (l - 1) /\ l - 1 \in Nat /\ c - 1 \in Nat /\ l - 1 <= c - 1
    BY <1>4, <1>6, <2>1, <2>3, <2>5, Zenon
  <2> HIDE DEF c, l
  <2> QED BY <1>1, <1>3, <1>5, <2>6 DEF Less
<1>11. CASE ValidateDone
  <2> DEFINE d == Cardinality(marks \ DOMAIN subgraphs)
  <2>1. pc' = "split"  BY <1>11, Zenon DEF ValidateDone
  <2>2. d \in Nat /\ d <= NOps  BY <1>0, LeftNow, Zenon
  <2>3. StepsLeft' = OrderMax + (SerialiseMax + 1) * d
    BY <1>0, <1>2, <2>1, StepsThen, Zenon DEF SplitLeft, OrderMax, SerialiseMax
  <2> HIDE DEF d
  <2>4. StepsLeft' \in Nat /\ StepsLeft' < SplitMax  BY <2>2, <2>3, SplitBounds, Zenon
  <2> HIDE DEF c, l
  <2> QED BY <1>1, <1>3, <1>5, <2>4 DEF Less
<1> QED BY <1>8, <1>9, <1>10, <1>11, Zenon DEF Validate

\* The sequence of calls of add_task is no longer than there are operations.
LEMMA OrderFew ==
  ASSUME NEW M, NEW o \in Seq(M), IsFiniteSet(M), Cardinality(M) <= NOps, Cardinality(Range(o)) = Len(o)
  PROVE  Len(o) \in Nat /\ Len(o) <= NOps
<1>1. Range(o) \subseteq M /\ Len(o) \in Nat  BY RangeType
<1>2. Cardinality(Range(o)) <= Cardinality(M) /\ Cardinality(M) \in Nat
  BY <1>1, FS_Subset, FS_CardinalityType, Zenon
<1>3. NOps \in Nat  BY Bounds
<1> QED BY <1>1, <1>2, <1>3

\* A subgraph to build pays for serialising it.
LEMMA BuildLess ==
  \A s, m, r \in Nat : s - m - 1 \in Nat /\ r <= m => s - m - 1 + r < s /\ s - m - 1 + r >= 0
  OBVIOUS

\* A step of the split or of the loop of add_task.
LEMMA AddTaskPhase ==
  ASSUME Inv, Inv', BoundInv, BoundInv', AddTask
  PROVE  Less
<1>0. StateType /\ StateType' /\ UNCHANGED <<graph, marking, subgraphs>>
  BY Zenon DEF Inv, AddTask, BuildSubgraph, SplitDone, Call, OrderDone
<1>1. SerialiseMax \in Nat /\ OrderMax = NOps + 2 /\ NOps \in Nat  BY Bounds
<1>2. marks' = marks /\ IsFiniteSet(marks) /\ Cardinality(marks) <= NOps  BY <1>0, MarkingFixed, LeftNow, Zenon
<1> DEFINE c == Cardinality(marks \ DOMAIN subgraphs)
<1>3. c \in Nat /\ IsFiniteSet(marks \ DOMAIN subgraphs)  BY <1>0, LeftNow, Zenon
<1>4. SplitLeft = OrderMax + (SerialiseMax + 1) * c /\ SplitLeft' = SplitLeft
  BY <1>0, <1>2, Zenon DEF SplitLeft, OrderMax, SerialiseMax
<1>5. SplitLeft \in Nat /\ SplitLeft >= OrderMax
  <2> HIDE DEF c
  <2> QED BY <1>3, <1>4, SplitBounds, Zenon
<1>6. CASE BuildSubgraph
  <2>1. /\ pc = "split" /\ pc' = "serialise" /\ at' \in marks \ DOMAIN subgraphs
        /\ frames' = <<>> /\ ret' = <<>>
    BY <1>6, Zenon DEF BuildSubgraph
  <2>2. at' # Whole  BY <2>1, MarksReal, Zenon
  <2>3. SplitLeft - SerialiseMax - 1 \in Nat
    <3>1. c # 0  BY <1>3, <2>1, FS_EmptySet, Zenon
    <3> HIDE DEF c
    <3>2. c - 1 \in Nat  BY <1>3, <3>1
    <3> QED BY <1>3, <1>4, <3>1, <3>2, SplitBounds, Zenon
  <2>4. SerialiseLeft' \in Nat /\ SerialiseLeft' <= SerialiseMax
    <3>1. /\ roots' \in SUBSET Ops /\ frames' \in Seq(Ops) /\ Unread' \in SUBSET (Ops \X Ops)
          /\ \A i \in 1 .. Len(frames') : frames'[i] \notin Range(ret')
          /\ \A i, j \in 1 .. Len(frames') : i < j => frames'[j] < frames'[i]
      BY <1>0, Zenon DEF StateType, SerialiseType, Unread, BoundInv, CallsOnce
    <3> QED BY <2>1, <3>1, LeftBounds, LeftIs, Zenon
  <2>5. StepsLeft = SplitLeft /\ StepsLeft' = SplitLeft - SerialiseMax - 1 + SerialiseLeft'
    BY <1>4, <2>1, <2>2, StepsNow, StepsThen, Zenon
  <2> QED BY <1>1, <1>5, <2>3, <2>4, <2>5, BuildLess, Zenon DEF Less
<1>7. CASE SplitDone
  <2>1. pc = "split" /\ pc' = "order" /\ order' = <<>>  BY <1>7, Zenon DEF SplitDone
  <2>2. StepsLeft = SplitLeft /\ StepsLeft' = NOps + 1 - Len(order')  BY <2>1, StepsNow, StepsThen, Zenon
  <2>3. Len(order') = 0  BY <2>1
  <2> QED BY <1>1, <1>5, <2>2, <2>3 DEF Less
<1>8. CASE Call
  <2>1. pc = "order" /\ pc' = "order" /\ \E m : order' = Append(order, m)  BY <1>8, Zenon DEF Call
  <2>2. order \in Seq(marks)  BY <2>1, Zenon DEF Inv, OrderInv, OrderRight
  <2>3. Len(order') = Len(order) + 1 /\ Len(order) \in Nat  BY <2>1, <2>2
  <2>4. Len(order') <= NOps
    <3>1. order' \in Seq(marks) /\ Cardinality(Range(order')) = Len(order')
      BY <1>2, <2>1, Zenon DEF Inv, OrderInv, OrderRight, Called
    <3> QED BY <1>2, <3>1, OrderFew, Zenon
  <2>5. StepsLeft = NOps + 1 - Len(order) /\ StepsLeft' = NOps + 1 - Len(order')
    BY <2>1, StepsNow, StepsThen, Zenon
  <2> QED BY <1>1, <2>3, <2>4, <2>5 DEF Less
<1>9. CASE OrderDone
  <2>1. pc = "order" /\ pc' = "ready"  BY <1>9, Zenon DEF OrderDone
  <2>2. order \in Seq(marks) /\ Cardinality(Range(order)) = Len(order)
    BY <2>1, Zenon DEF Inv, OrderInv, OrderRight, Called
  <2>3. Len(order) \in Nat /\ Len(order) <= NOps  BY <1>2, <2>2, OrderFew, Zenon
  <2>4. StepsLeft = NOps + 1 - Len(order) /\ StepsLeft' = 0
    BY <2>1, StepsNow, StepsThen, Zenon
  <2> QED BY <1>1, <2>3, <2>4 DEF Less
<1> QED BY <1>6, <1>7, <1>8, <1>9, Zenon DEF AddTask

\* add_task returns or aborts, on any graph and with any policy of the model:
\* no step of serialize_compute_dag, mark_graph, validate_subgraph_dependency,
\* the split or the call loop leaves as many steps to take as there were.
THEOREM AddTaskBounded == Spec => AddTaskReturns
<1>1. Init => Inv /\ BoundInv  BY InvInit, BoundInit, Zenon
<1>2. Inv /\ BoundInv /\ [Next]_vars => Inv' /\ BoundInv'
  <2>1. Inv => StateType  BY Zenon DEF Inv
  <2> QED BY <2>1, InvStep, BoundStep, Zenon
<1>3. Inv /\ BoundInv /\ Inv' /\ BoundInv' /\ [Next]_vars => [StepsLeft' < StepsLeft /\ StepsLeft' >= 0]_vars
  <2> SUFFICES ASSUME Inv, BoundInv, Inv', BoundInv', Next PROVE Less \/ UNCHANGED vars
    BY Zenon DEF Less
  <2>1. Serialise \/ Mark \/ Validate \/ AddTask \/ UNCHANGED vars  BY Zenon DEF Next, Returned
  <2> QED BY <2>1, SerialisePhase, MarkPhase, ValidatePhase, AddTaskPhase, Zenon
<1> QED BY <1>1, <1>2, <1>3, PTL DEF Spec, AddTaskReturns
=============================================================================
