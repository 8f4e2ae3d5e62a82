--------------------------- MODULE GraphMarkProofs ---------------------------
(***************************************************************************)
(* The first half of the proofs about GraphPartition, for graphs of any    *)
(* size: what serialize_compute_dag and mark_graph compute, the check for  *)
(* circular dependency, the split, and what bounds the loops of add_task.  *)
(***************************************************************************)
EXTENDS GraphPartition, WellFoundedInduction, TLAPS

-----------------------------------------------------------------------------
(* Types, and facts about sequences                                          *)

\* The graph given to add_task: inputs come before their consumers.
GraphType ==
  /\ inputs \in [Ops -> Seq(Ops)]
  /\ \A op \in Ops : \A t \in Range(inputs[op]) : t < op
  /\ role \in [Ops -> Range(RoleOrder) \cup {"none"}]
  /\ user \in BOOLEAN

\* The locals of serialize_compute_dag.
SerialiseType ==
  /\ roots \subseteq Ops /\ frames \in Seq(Ops) /\ ret \in Seq(Ops)
  /\ feeds \in [Ops -> Seq(Ops)]

\* operation_list and down_graph of the whole graph.
ListType == list \in Seq(Ops) /\ down \in [Ops -> Seq(Ops)]

\* The locals of mark_graph: no mark is above current.
MarkType ==
  /\ stack \in Seq(Ops) /\ visited \subseteq Ops
  /\ current \in Nat /\ mark \in [Ops -> 0 .. current]
  /\ edge \in Nat /\ (pc = "edges" => cur \in Ops /\ edge >= 1)

\* The types the other invariants rest on.
StateType == GraphType /\ SerialiseType /\ ListType /\ MarkType

\* A push and a pop.
LEMMA PushPop ==
  ASSUME NEW S, NEW s \in Seq(S), s # <<>>
  PROVE  /\ Top(s) \in S /\ Pop(s) \in Seq(S)
         /\ Len(Pop(s)) = Len(s) - 1 /\ Len(s) \in Nat \ {0}
         /\ \A i \in 1 .. Len(s) - 1 : Pop(s)[i] = s[i]
         /\ Range(Pop(s)) \subseteq Range(s)
         /\ Range(s) = Range(Pop(s)) \cup {Top(s)}
<1>1. Len(s) \in Nat \ {0} /\ DOMAIN s = 1 .. Len(s)  OBVIOUS
<1>2. Top(s) \in S /\ Top(s) \in Range(s)  BY <1>1 DEF Top, Range
<1>3. Pop(s) \in Seq(S) /\ Len(Pop(s)) = Len(s) - 1  BY <1>1 DEF Pop
<1>4. \A i \in 1 .. Len(s) - 1 : Pop(s)[i] = s[i]  BY <1>1 DEF Pop
<1>5. DOMAIN Pop(s) = 1 .. Len(s) - 1  BY <1>1, <1>3
<1>6. Range(s) = Range(Pop(s)) \cup {Top(s)}
  BY <1>1, <1>4, <1>5 DEF Range, Top
<1> QED BY <1>1, <1>2, <1>3, <1>4, <1>6

\* What pushing an element adds to a stack or a list.
LEMMA AppendRange ==
  ASSUME NEW S, NEW s \in Seq(S), NEW x \in S
  PROVE  /\ Append(s, x) \in Seq(S) /\ Range(Append(s, x)) = Range(s) \cup {x}
         /\ Len(Append(s, x)) = Len(s) + 1 /\ Len(s) \in Nat
         /\ \A i \in 1 .. Len(s) : Append(s, x)[i] = s[i]
         /\ Append(s, x)[Len(s) + 1] = x
<1>1. Len(s) \in Nat /\ DOMAIN s = 1 .. Len(s) /\ DOMAIN Append(s, x) = 1 .. Len(s) + 1  OBVIOUS
<1>2. \A i \in 1 .. Len(s) : Append(s, x)[i] = s[i]  OBVIOUS
<1>3. Append(s, x)[Len(s) + 1] = x  OBVIOUS
<1>4. Range(Append(s, x)) = Range(s) \cup {x}
  BY <1>1, <1>2, <1>3 DEF Range
<1> QED BY <1>1, <1>2, <1>3, <1>4

\* The same for a list that has become longer.
LEMMA Appended ==
  \A S, x, a : \A s \in Seq(S) :
    x \in S /\ a = Append(s, x) => Range(a) = Range(s) \cup {x}
  BY AppendRange

\* The elements of a sequence and its indices.
LEMMA RangeType ==
  ASSUME NEW S, NEW s \in Seq(S)
  PROVE  /\ Range(s) \subseteq S /\ DOMAIN s = 1 .. Len(s) /\ Len(s) \in Nat
         /\ \A x : x \in Range(s) <=> \E i \in 1 .. Len(s) : s[i] = x
  BY DEF Range

\* The empty sequence has no elements.
LEMMA EmptyRange == Range(<<>>) = {} /\ \A S : <<>> \in Seq(S)
  BY DEF Range

\* add_task never changes the graph it was given.
LEMMA GraphFixed == [Next]_vars => UNCHANGED graph
  BY Zenon DEF Next, vars, Serialise, Mark, Validate, AddTask, SerialiseRoot, SerialiseInput,
     SerialiseReturn, GraphSerialised, SubgraphSerialised, MarkVisit, MarkEdge, MarkVisited,
     MarkSkip, MarkDone, HelperEnter, HelperDescend, HelperLeave, ValidateDone, BuildSubgraph,
     SplitDone, Call, OrderDone, Returned

\* The edges of an operation.
LEMMA NeighbourFacts ==
  ASSUME ListType, GraphType, NEW op \in Ops
  PROVE  /\ Len(Neighbours(op)) = Len(down[op]) + Len(inputs[op])
         /\ Len(down[op]) \in Nat /\ Len(inputs[op]) \in Nat /\ Len(Neighbours(op)) \in Nat
         /\ \A k \in 1 .. Len(Neighbours(op)) :
              \/ Neighbours(op)[k][1] = op /\ Neighbours(op)[k][2] \in Range(down[op])
              \/ Neighbours(op)[k][2] = op /\ Neighbours(op)[k][1] \in Range(inputs[op])
         /\ \A c \in Range(down[op]) : \E k \in 1 .. Len(Neighbours(op)) : Neighbours(op)[k] = <<op, c>>
         /\ \A t \in Range(inputs[op]) : \E k \in 1 .. Len(Neighbours(op)) : Neighbours(op)[k] = <<t, op>>
<1> DEFINE a == Len(down[op])
           b == Len(inputs[op])
<1>1. down[op] \in Seq(Ops) /\ inputs[op] \in Seq(Ops)  BY DEF ListType, GraphType
<1>2. a \in Nat /\ b \in Nat /\ DOMAIN down[op] = 1 .. a /\ DOMAIN inputs[op] = 1 .. b  BY <1>1
<1>3. Neighbours(op) = [k \in 1 .. a + b |->
          IF k <= a THEN <<op, down[op][k]>> ELSE <<inputs[op][k - a], op>>]
  BY DEF Neighbours
<1> HIDE DEF a, b
<1>4. Len(Neighbours(op)) = a + b  BY <1>2, <1>3
<1>5. ASSUME NEW k \in 1 .. a + b
      PROVE  \/ Neighbours(op)[k][1] = op /\ Neighbours(op)[k][2] \in Range(down[op])
             \/ Neighbours(op)[k][2] = op /\ Neighbours(op)[k][1] \in Range(inputs[op])
  <2>1. CASE k <= a
    <3>1. k \in 1 .. a /\ Neighbours(op)[k] = <<op, down[op][k]>>  BY <1>2, <1>3, <2>1
    <3> QED BY <1>2, <3>1 DEF Range
  <2>2. CASE k > a
    <3>1. k - a \in 1 .. b /\ Neighbours(op)[k] = <<inputs[op][k - a], op>>  BY <1>2, <1>3, <2>2
    <3> QED BY <1>2, <3>1 DEF Range
  <2> QED BY <1>2, <2>1, <2>2
<1>6. ASSUME NEW c \in Range(down[op])
      PROVE  \E k \in 1 .. a + b : Neighbours(op)[k] = <<op, c>>
  <2>1. PICK k \in 1 .. a : down[op][k] = c  BY <1>2 DEF Range
  <2>2. k \in 1 .. a + b /\ Neighbours(op)[k] = <<op, c>>  BY <1>2, <1>3, <2>1
  <2> QED BY <2>2
<1>7. ASSUME NEW t \in Range(inputs[op])
      PROVE  \E k \in 1 .. a + b : Neighbours(op)[k] = <<t, op>>
  <2>1. PICK j \in 1 .. b : inputs[op][j] = t  BY <1>2 DEF Range
  <2> DEFINE k == j + a
  <2>2. k \in 1 .. a + b /\ k - a = j /\ ~(k <= a)  BY <1>2
  <2> HIDE DEF k
  <2>3. Neighbours(op)[k] = <<t, op>>  BY <1>3, <2>1, <2>2
  <2> QED BY <2>2, <2>3
<1>8. a + b \in Nat  BY <1>2
<1>9. a = Len(down[op]) /\ b = Len(inputs[op])  BY DEF a, b
<1> QED BY <1>2, <1>4, <1>5, <1>6, <1>7, <1>8, <1>9, Zenon

\* add_task starts in a typed state.
LEMMA TypeInit == Init => StateType
<1> SUFFICES ASSUME Init PROVE StateType
  OBVIOUS
<1>1. InputLists \subseteq Seq(Ops)
  <2> SUFFICES ASSUME NEW n \in 0 .. NOps, NEW s \in [1 .. n -> Ops] PROVE s \in Seq(Ops)
    BY DEF InputLists
  <2> QED BY PartitionAssumption
<1>2. role \in [Ops -> Range(RoleOrder) \cup {"none"}]
  <2>1. "output" \in Range(RoleOrder)  BY DEF Range, RoleOrder
  <2> QED BY <2>1, PartitionAssumption DEF Init
<1>6. GraphType  BY <1>1, <1>2 DEF Init, GraphType
<1>3. SerialiseType  BY DEF Init, SerialiseType, Finalized
<1>4. ListType  BY DEF Init, ListType
<1>5. MarkType  BY DEF Init, MarkType, NoMark
<1> QED BY <1>3, <1>4, <1>5, <1>6 DEF StateType

\* The graph keeps its type.
LEMMA FrameGraph == GraphType /\ UNCHANGED graph => GraphType'
  BY DEF GraphType, graph

\* The locals of serialize_compute_dag keep their types.
LEMMA FrameSerialise == SerialiseType /\ UNCHANGED <<roots, frames, ret, feeds>> => SerialiseType'
  BY DEF SerialiseType

\* The lists keep their types.
LEMMA FrameLists == ListType /\ UNCHANGED lists => ListType'
  BY DEF ListType, lists

\* The locals of mark_graph keep their types outside the loops over edges.
LEMMA FrameMarking == MarkType /\ pc' # "edges" /\ UNCHANGED marking => MarkType'
  BY DEF MarkType, marking

\* Every step of serialize_compute_dag keeps the types.
LEMMA TypeSerialise ==
  ASSUME StateType, Serialise
  PROVE  SerialiseType' /\ ListType' /\ MarkType'
<1>0. GraphType /\ SerialiseType /\ ListType /\ MarkType  BY DEF StateType
<1>1. CASE SerialiseRoot
  <2>1. PICK r \in roots : roots' = roots \ {r} /\ frames' = IF r \in Range(ret) THEN <<>> ELSE <<r>>
    BY <1>1 DEF SerialiseRoot
  <2>2. SerialiseType'  BY <1>0, <1>1, <2>1 DEF SerialiseRoot, SerialiseType
  <2> QED BY <1>0, <1>1, <2>2, FrameLists, FrameMarking DEF SerialiseRoot
<1>2. CASE SerialiseInput
  <2> DEFINE op == Top(frames)
  <2>0. op \in Ops  BY <1>0, <1>2, PushPop DEF SerialiseInput, SerialiseType
  <2>1. PICK i \in Left(op) :
          IF inputs[op][i] \in Range(ret)
          THEN feeds' = [feeds EXCEPT ![inputs[op][i]] = Append(@, op)] /\ UNCHANGED frames
          ELSE frames' = Append(frames, inputs[op][i]) /\ UNCHANGED feeds
    BY <1>2, Zenon DEF SerialiseInput
  <2>2. inputs[op][i] \in Ops  BY <1>0, <2>0 DEF Left, GraphType
  <2> HIDE DEF op
  <2>3. SerialiseType'
    <3>1. UNCHANGED <<roots, ret>>  BY <1>2 DEF SerialiseInput
    <3>2. Append(frames, inputs[op][i]) \in Seq(Ops)
      BY <1>0, <2>2, AppendRange DEF SerialiseType
    <3>3. Append(feeds[inputs[op][i]], op) \in Seq(Ops)
      BY <1>0, <2>0, <2>2, AppendRange DEF SerialiseType
    <3>4. feeds' \in [Ops -> Seq(Ops)]  BY <1>0, <2>1, <2>2, <3>3, Zenon DEF SerialiseType
    <3> QED BY <1>0, <2>1, <3>1, <3>2, <3>4, Zenon DEF SerialiseType
  <2> QED BY <1>0, <1>2, <2>3, FrameLists, FrameMarking, Zenon DEF SerialiseInput
<1>3. CASE SerialiseReturn
  <2>1. Top(frames) \in Ops /\ Pop(frames) \in Seq(Ops)
    BY <1>0, <1>3, PushPop, Zenon DEF SerialiseReturn, SerialiseType
  <2>2. SerialiseType'  BY <1>0, <1>3, <2>1 DEF SerialiseReturn, SerialiseType
  <2> QED BY <1>0, <1>3, <2>2, FrameLists, FrameMarking DEF SerialiseReturn
<1>4. CASE GraphSerialised
  <2>1. ListType'  BY <1>0, <1>4 DEF GraphSerialised, SerialiseType, ListType
  <2>2. MarkType'  BY <1>0, <1>4 DEF GraphSerialised, SerialiseType, MarkType
  <2> QED BY <1>0, <1>4, <2>1, <2>2, FrameSerialise DEF GraphSerialised, serialising
<1>5. CASE SubgraphSerialised
  BY <1>0, <1>5, FrameSerialise, FrameLists, FrameMarking DEF SubgraphSerialised, serialising
<1> QED BY <1>1, <1>2, <1>3, <1>4, <1>5 DEF Serialise

\* Every step of mark_graph keeps the types.
LEMMA TypeMark ==
  ASSUME StateType, Mark
  PROVE  SerialiseType' /\ ListType' /\ MarkType'
<1>0. GraphType /\ SerialiseType /\ ListType /\ MarkType  BY DEF StateType
<1>1. UNCHANGED <<serialising, lists>>
  BY Zenon DEF Mark, MarkVisit, MarkEdge, MarkVisited, MarkSkip, MarkDone
<1>2. SerialiseType' /\ ListType'  BY <1>0, <1>1, FrameSerialise, FrameLists DEF serialising
<1>3. CASE MarkVisit
  <2>1. Top(stack) \in Ops /\ Pop(stack) \in Seq(Ops)
    BY <1>0, <1>3, PushPop DEF MarkVisit, MarkType
  <2>2. cur' \in Ops /\ stack' \in Seq(Ops) /\ edge' = 1 /\ visited' = visited
    BY <1>3, <2>1 DEF MarkVisit
  <2>3. current' \in {current, current + 1} /\ mark' = [mark EXCEPT ![cur'] = current']
    BY <1>3 DEF MarkVisit
  <2>4. current' \in Nat /\ mark' \in [Ops -> 0 .. current']
    BY <1>0, <2>2, <2>3 DEF MarkType
  <2> QED BY <1>0, <1>2, <2>2, <2>4 DEF MarkType
<1>4. CASE MarkEdge
  <2> DEFINE o == Other(Neighbours(cur)[edge])
  <2>1. cur \in Ops /\ edge \in 1 .. Len(Neighbours(cur)) /\ edge' = edge + 1
    BY <1>0, <1>4, NeighbourFacts DEF MarkEdge, MarkType
  <2>2. o \in Ops
    <3>1. Range(down[cur]) \subseteq Ops /\ Range(inputs[cur]) \subseteq Ops
      BY <1>0, <2>1, RangeType DEF GraphType, ListType
    <3>2. Neighbours(cur)[edge][1] \in Ops /\ Neighbours(cur)[edge][2] \in Ops
      BY <1>0, <2>1, <3>1, NeighbourFacts, Zenon
    <3> QED BY <3>2 DEF Other
  <2>3. \/ UNCHANGED <<mark, stack>>
        \/ mark' = [mark EXCEPT ![o] = current] /\ stack' = Append(stack, o)
    BY <1>4 DEF MarkEdge
  <2>4. UNCHANGED <<visited, current, cur>>  BY <1>4 DEF MarkEdge
  <2> HIDE DEF o
  <2>5. mark' \in [Ops -> 0 .. current]  BY <1>0, <2>2, <2>3 DEF MarkType
  <2>6. stack' \in Seq(Ops)
    <3>1. stack \in Seq(Ops)  BY <1>0 DEF MarkType
    <3>2. Append(stack, o) \in Seq(Ops)  BY <2>2, <3>1, AppendRange, Zenon
    <3> QED BY <2>3, <3>1, <3>2
  <2>7. edge' \in Nat /\ edge' >= 1  BY <1>0, <2>1 DEF MarkType
  <2> QED BY <1>0, <1>2, <2>1, <2>4, <2>5, <2>6, <2>7 DEF MarkType
<1>5. CASE MarkVisited
  BY <1>0, <1>2, <1>5 DEF MarkVisited, MarkType, Visit
<1>6. CASE MarkSkip
  <2>1. Pop(stack) \in Seq(Ops)  BY <1>0, <1>6, PushPop DEF MarkSkip, MarkType
  <2> QED BY <1>0, <1>2, <1>6, <2>1 DEF MarkSkip, MarkType
<1>7. CASE MarkDone
  BY <1>0, <1>2, <1>7, FrameMarking DEF MarkDone
<1> QED BY <1>3, <1>4, <1>5, <1>6, <1>7 DEF Mark

\* Every step of add_task keeps the types.
LEMMA TypeNext ==
  ASSUME StateType, [Next]_vars
  PROVE  StateType'
<1>0. GraphType /\ SerialiseType /\ ListType /\ MarkType  BY DEF StateType
<1>1. GraphType'  BY <1>0, GraphFixed, FrameGraph
<1>2. CASE Serialise  BY <1>1, <1>2, TypeSerialise DEF StateType
<1>3. CASE Mark  BY <1>1, <1>3, TypeMark DEF StateType
<1>4. CASE Validate
  <2>1. pc' # "edges" /\ UNCHANGED <<serialising, lists, marking>>
    BY <1>4, Zenon DEF Validate, HelperEnter, HelperDescend, HelperLeave, ValidateDone
  <2> QED BY <1>0, <1>1, <2>1, FrameSerialise, FrameLists, FrameMarking DEF StateType, serialising
<1>5. CASE AddTask
  <2>1. pc' # "edges" /\ UNCHANGED <<lists, marking>>
    BY <1>5, Zenon DEF AddTask, BuildSubgraph, SplitDone, Call, OrderDone
  <2>2. SerialiseType'
    <3>1. CASE BuildSubgraph
      <4>1. roots' \subseteq Ops  BY <3>1 DEF BuildSubgraph, Finalized
      <4> QED BY <1>0, <3>1, <4>1 DEF BuildSubgraph, SerialiseType
    <3>2. CASE ~BuildSubgraph
      BY <1>0, <1>5, <3>2, FrameSerialise, Zenon DEF AddTask, SplitDone, Call, OrderDone, serialising
    <3> QED BY <3>1, <3>2
  <2> QED BY <1>0, <1>1, <2>1, <2>2, FrameLists, FrameMarking DEF StateType
<1>6. CASE UNCHANGED vars
  BY <1>0, <1>1, <1>6, FrameSerialise, FrameLists DEF StateType, MarkType, vars, serialising, lists, marking
<1> QED BY <1>2, <1>3, <1>4, <1>5, <1>6 DEF Next, Returned

-----------------------------------------------------------------------------
(* serialize_compute_dag                                                     *)

\* The roots of the TIRGraph g, the whole graph or the subgraph with mark g.
FinalOf(g) == Finalized(IF g = Whole THEN [op \in Ops |-> {role[op]}] ELSE SubgraphRole(g))

\* The operations that helper has been called on.
Seen == Range(ret) \cup Range(frames)

\* serialize_compute_dag at work: ret is closed under the inputs in the graph and
\* down_graph has exactly their edges, every root has been seen or is to come, and
\* what has been seen is a root or an input of something seen.
Serialised ==
  /\ \A op \in Range(ret) : \A t \in Range(inputs[op]) :
       InGraph(t) => t \in Range(ret) /\ op \in Range(feeds[t])
  /\ \A t \in Ops : \A op \in Range(feeds[t]) :
       t \in Range(inputs[op]) /\ t \in Range(ret) /\ op \in Seen
  /\ roots \subseteq FinalOf(at) /\ FinalOf(at) \subseteq Seen \cup roots
  /\ \A op \in Seen : op \in FinalOf(at) \/ \E c \in Seen : op \in Range(inputs[c])
  /\ at # Whole => Seen \subseteq Members(at)

\* The whole graph has been serialised.
GraphDone == pc # "serialise" \/ at # Whole

\* Serialisation is right while it runs, and comes before everything else.
SerialiseInv ==
  /\ pc = "serialise" => Serialised
  /\ GraphDone \/ (marking = <<<<>>, {}, [op \in Ops |-> NoMark], 0, 0, 0, 0>>
                   /\ validating = <<<<>>, {}>> /\ subgraphs = <<>>)

\* operation_list is closed under inputs, down_graph is the converse of the inputs
\* within it, and an operation of it without a role has a consumer in it.
DagInv ==
  GraphDone =>
  /\ \A op \in Range(list) : \A t \in Range(inputs[op]) : t \in Range(list) /\ op \in Range(down[t])
  /\ \A t \in Ops : \A op \in Range(down[t]) : t \in Range(inputs[op]) /\ op \in Range(list)
  /\ \A op \in Range(list) : role[op] # "none" \/ \E c \in Range(list) : op \in Range(inputs[c])

\* The roots of a TIRGraph and the members of a subgraph depend on the marks only.
LEMMA FinalFixed ==
  ASSUME UNCHANGED <<graph, mark, at>>
  PROVE  FinalOf(at)' = FinalOf(at) /\ \A m : Members(m)' = Members(m)
<1>1. SubgraphRole(at)' = SubgraphRole(at)
  BY DEF SubgraphRole, Members, Marked, graph
<1> QED BY <1>1 DEF FinalOf, Finalized, Members, graph

\* The roots of a subgraph are operations of it.
LEMMA FinalMembers ==
  ASSUME NEW m, m # Whole
  PROVE  FinalOf(m) \subseteq Members(m)
  BY Zenon DEF FinalOf, Finalized, SubgraphRole, RoleOrder

\* helper and the loop over the roots keep Serialised.
LEMMA SerialisedStep ==
  ASSUME StateType, Serialised, SerialiseRoot \/ SerialiseInput \/ SerialiseReturn
  PROVE  Serialised'
<1>0. GraphType /\ SerialiseType /\ StateType'
  BY TypeNext DEF StateType, Next, Serialise
<1>1. UNCHANGED <<graph, mark, at>> /\ FinalOf(at)' = FinalOf(at)
  /\ \A m : Members(m)' = Members(m)
  BY FinalFixed, Zenon DEF SerialiseRoot, SerialiseInput, SerialiseReturn, marking
<1>2. UNCHANGED inputs /\ \A t : InGraph(t)' <=> InGraph(t)  BY <1>1 DEF graph, InGraph
<1>3. CASE SerialiseRoot
  <2>1. PICK r \in roots : roots' = roots \ {r} /\ frames' = IF r \in Range(ret) THEN <<>> ELSE <<r>>
    BY <1>3 DEF SerialiseRoot
  <2>2. UNCHANGED <<ret, feeds>> /\ frames = <<>>  BY <1>3 DEF SerialiseRoot
  <2>3. Seen = Range(ret) /\ Seen' = Seen \cup {r}
    <3>1. Range(<<r>>) = {r}  BY DEF Range
    <3> QED BY <2>1, <2>2, <3>1, EmptyRange DEF Seen
  <2>4. at # Whole => r \in Members(at)  BY FinalMembers DEF Serialised
  <2> QED BY <1>1, <1>2, <2>1, <2>2, <2>3, <2>4 DEF Serialised
<1>4. CASE SerialiseInput
  <2> DEFINE op == Top(frames)
  <2>0. op \in Range(frames) /\ op \in Ops
    <3>1. frames # <<>>  BY <1>4, Zenon DEF SerialiseInput
    <3>2. frames \in Seq(Ops)  BY <1>0 DEF SerialiseType
    <3> QED BY <3>1, <3>2, PushPop, Zenon
  <2>1. PICK i \in Left(op) :
          IF inputs[op][i] \in Range(ret)
          THEN feeds' = [feeds EXCEPT ![inputs[op][i]] = Append(@, op)] /\ UNCHANGED frames
          ELSE frames' = Append(frames, inputs[op][i]) /\ UNCHANGED feeds
    BY <1>4, Zenon DEF SerialiseInput
  <2> DEFINE t == inputs[op][i]
  <2>2. t \in Range(inputs[op]) /\ InGraph(t) /\ t \in Ops
    BY <1>0, <2>0, RangeType DEF Left, GraphType, Range
  <2>3. UNCHANGED <<roots, ret>>  BY <1>4, Zenon DEF SerialiseInput
  <2>5. CASE t \in Range(ret)
    <3>1. Seen' = Seen  BY <2>1, <2>3, <2>5 DEF Seen
    <3>2. feeds' = [feeds EXCEPT ![t] = Append(@, op)]  BY <2>1, <2>5, Zenon
    <3> HIDE DEF op, t
    <3>3. Range(Append(feeds[t], op)) = Range(feeds[t]) \cup {op}
      BY <1>0, <2>0, <2>2, AppendRange DEF SerialiseType
    <3>4. \A s \in Ops : Range(feeds[s])' = IF s = t THEN Range(feeds[s]) \cup {op} ELSE Range(feeds[s])
      BY <1>0, <3>2, <3>3, Zenon DEF SerialiseType
    <3>5. op \in Seen  BY <2>0 DEF Seen
    <3>6. \A o \in Range(ret) : \A s \in Range(inputs[o]) : s \in Ops
      BY <1>0, RangeType DEF SerialiseType, GraphType
    <3>7. \A s \in Ops : \A o \in Range(feeds[s])' : o \in Range(feeds[s]) \/ (s = t /\ o = op)
      BY <3>4, Zenon
    <3>8. \A s \in Ops : \A o \in Range(feeds[s])' :
            s \in Range(inputs[o]) /\ s \in Range(ret) /\ o \in Seen
      BY <2>2, <2>5, <3>5, <3>7, Zenon DEF Serialised
    <3>9. \A s \in Ops : Range(feeds[s]) \subseteq Range(feeds[s])'  BY <3>4, Zenon
    <3>10. \A o \in Range(ret) : \A s \in Range(inputs[o]) :
            InGraph(s) => s \in Range(ret) /\ o \in Range(feeds[s])'
      BY <3>6, <3>9 DEF Serialised
    <3> QED BY <1>1, <1>2, <2>3, <3>1, <3>8, <3>10 DEF Serialised
  <2>6. CASE t \notin Range(ret)
    <3>1. frames' = Append(frames, t) /\ UNCHANGED feeds  BY <2>1, <2>6
    <3> HIDE DEF op, t
    <3>2. Seen' = Seen \cup {t} /\ op \in Seen
      <4>1. Range(frames') = Range(frames) \cup {t}  BY <1>0, <2>2, <3>1, AppendRange DEF SerialiseType
      <4> QED BY <2>0, <2>3, <4>1 DEF Seen
    <3>3. at # Whole => t \in Members(at)  BY <2>2 DEF InGraph, Members
    <3>4. /\ \A o \in Range(ret') : \A s \in Range(inputs'[o]) :
               InGraph(s)' => s \in Range(ret') /\ o \in Range(feeds'[s])
          /\ \A s \in Ops : \A o \in Range(feeds'[s]) :
               s \in Range(inputs'[o]) /\ s \in Range(ret') /\ o \in Seen'
      BY <1>2, <2>3, <3>1, <3>2, Zenon DEF Serialised
    <3>5. roots' \subseteq FinalOf(at)' /\ FinalOf(at)' \subseteq Seen' \cup roots'
      BY <1>1, <2>3, <3>2, Zenon DEF Serialised
    <3>7. at' # Whole => Seen' \subseteq Members(at)'
      <4>1. at' = at /\ Members(at)' = Members(at)  BY <1>1, Zenon DEF Members
      <4>2. at # Whole => Seen \subseteq Members(at)  BY Zenon DEF Serialised
      <4> QED BY <3>2, <3>3, <4>1, <4>2, Zenon
    <3>6. \A o \in Seen' : o \in FinalOf(at)' \/ \E c \in Seen' : o \in Range(inputs'[c])
      <4>1. \A o \in Seen : o \in FinalOf(at) \/ \E c \in Seen : o \in Range(inputs[c])  BY Zenon DEF Serialised
      <4>2. FinalOf(at)' = FinalOf(at) /\ inputs' = inputs  BY <1>1, <1>2, Zenon
      <4>3. \A o \in Seen' : o \in FinalOf(at) \/ \E c \in Seen' : o \in Range(inputs[c])
        BY <2>2, <3>2, <4>1, Zenon
      <4> QED BY <4>2, <4>3, Zenon
    <3> QED BY <3>4, <3>5, <3>6, <3>7, Zenon DEF Serialised
  <2> QED BY <2>5, <2>6
<1>5. CASE SerialiseReturn
  <2> DEFINE op == Top(frames)
  <2>1. UNCHANGED <<roots, feeds>> /\ Left(op) = {} /\ ret' = Append(ret, op) /\ frames' = Pop(frames)
    BY <1>5 DEF SerialiseReturn
  <2>2. op \in Ops /\ Range(frames) = Range(Pop(frames)) \cup {op}
    BY <1>0, <1>5, PushPop, Zenon DEF SerialiseReturn, SerialiseType
  <2> HIDE DEF op
  <2>3. Range(ret') = Range(ret) \cup {op}
    BY <1>0, <2>1, <2>2, AppendRange DEF SerialiseType
  <2>4. Seen' = Seen  BY <2>1, <2>2, <2>3 DEF Seen
  <2>5. \A t \in Range(inputs[op]) : t \in Ops /\ (InGraph(t) => op \in Range(feeds[t]))
    <3>1. inputs[op] \in Seq(Ops)  BY <1>0, <2>2 DEF GraphType
    <3>2. Range(inputs[op]) \subseteq Ops  BY <3>1, RangeType
    <3> QED BY <2>1, <3>2, Zenon DEF Left, Range
  <2> QED BY <1>1, <1>2, <2>1, <2>3, <2>4, <2>5 DEF Serialised
<1> QED BY <1>3, <1>4, <1>5

\* A mark is never that of the whole graph.
LEMMA MarksReal == \A m \in marks : m # Whole
  BY DEF marks, Marked, Whole

\* The whole graph is serialised once.
LEMMA GraphStaysDone == GraphDone /\ [Next]_vars => GraphDone'
<1> SUFFICES ASSUME GraphDone, [Next]_vars PROVE GraphDone'
  OBVIOUS
<1>1. CASE BuildSubgraph  BY <1>1, MarksReal DEF BuildSubgraph, GraphDone
<1>2. CASE ~BuildSubgraph
  BY <1>2, Zenon DEF GraphDone, Next, vars, Serialise, Mark, Validate, AddTask, SerialiseRoot, SerialiseInput,
     SerialiseReturn, GraphSerialised, SubgraphSerialised, MarkVisit, MarkEdge, MarkVisited,
     MarkSkip, MarkDone, HelperEnter, HelperDescend, HelperLeave, ValidateDone,
     SplitDone, Call, OrderDone, Returned, serialising
<1> QED BY <1>1, <1>2

\* add_task starts to serialise the whole graph.
LEMMA SerialiseInit == Init => SerialiseInv /\ DagInv
<1> SUFFICES ASSUME Init PROVE SerialiseInv /\ DagInv
  OBVIOUS
<1>1. ~GraphDone  BY Zenon DEF Init, GraphDone
<1>2. at = Whole /\ roots = FinalOf(at)  BY Zenon DEF Init, FinalOf
<1>3. Seen = {} /\ Range(ret) = {} /\ \A t \in Ops : Range(feeds[t]) = {}
  BY EmptyRange, Zenon DEF Init, Seen
<1>4. Serialised  BY <1>2, <1>3, Zenon DEF Serialised
<1> QED BY <1>1, <1>4, Zenon DEF SerialiseInv, DagInv, Init, marking, validating

\* Every step of add_task keeps SerialiseInv.
LEMMA SerialiseStep ==
  ASSUME StateType, SerialiseInv, [Next]_vars
  PROVE  SerialiseInv'
<1>1. CASE SerialiseRoot \/ SerialiseInput \/ SerialiseReturn
  <2>1. pc = "serialise" /\ UNCHANGED <<pc, at, marking, validating, subgraphs>>
    BY <1>1, Zenon DEF SerialiseRoot, SerialiseInput, SerialiseReturn
  <2> QED BY <1>1, <2>1, SerialisedStep DEF SerialiseInv, GraphDone
<1>2. CASE BuildSubgraph
  <2>1. PICK m \in marks : at' = m /\ roots' = Finalized(SubgraphRole(m))  BY <1>2 DEF BuildSubgraph
  <2>2. m # Whole  BY MarksReal
  <2>3. UNCHANGED <<graph, marking>> /\ FinalOf(m)' = FinalOf(m)
    <3>1. UNCHANGED <<graph, marking, inputs, role, mark>>  BY <1>2 DEF BuildSubgraph, graph, marking
    <3>2. SubgraphRole(m)' = SubgraphRole(m)  BY <3>1, Zenon DEF SubgraphRole, Members, Marked
    <3> QED BY <3>1, <3>2, Zenon DEF FinalOf, Finalized
  <2>4. roots' = FinalOf(m)  BY <2>1, <2>2 DEF FinalOf
  <2>5. Seen' = {} /\ Range(ret') = {} /\ \A t \in Ops : Range(feeds'[t]) = {}
    BY <1>2, EmptyRange DEF BuildSubgraph, Seen
  <2>6. Serialised'  BY <2>1, <2>3, <2>4, <2>5, Zenon DEF Serialised
  <2>7. GraphDone'  BY <2>1, <2>2 DEF GraphDone
  <2> QED BY <2>6, <2>7 DEF SerialiseInv
<1>3. CASE UNCHANGED vars
  <2>1. UNCHANGED <<graph, pc, serialising, marking, validating, subgraphs>>  BY <1>3 DEF vars
  <2>2. UNCHANGED <<FinalOf(at), Seen>> /\ \A m : Members(m)' = Members(m)
    BY <2>1, FinalFixed DEF serialising, marking, Seen
  <2>3. Serialised' <=> Serialised  BY <2>1, <2>2, ZenonT(40) DEF Serialised, serialising, InGraph, graph, marking
  <2> QED BY <2>1, <2>3 DEF SerialiseInv, GraphDone, serialising
<1>4. CASE Next /\ pc' # "serialise"
  BY <1>4 DEF SerialiseInv, GraphDone
<1> QED
  <2>1. CASE Serialise
    BY <1>1, <1>4, <2>1, Zenon DEF Serialise, GraphSerialised, SubgraphSerialised, Next
  <2>2. CASE Mark \/ Validate \/ (AddTask /\ ~BuildSubgraph)
    <3>1. pc' # "serialise"
      BY <2>2, Zenon DEF Mark, Validate, AddTask, MarkVisit, MarkEdge, MarkVisited,
        MarkSkip, MarkDone, HelperEnter, HelperDescend, HelperLeave, ValidateDone,
        SplitDone, Call, OrderDone
    <3> QED BY <1>4, <2>2, <3>1 DEF Next
  <2> QED BY <1>2, <1>3, <2>1, <2>2 DEF Next, Returned, AddTask

\* Every step of add_task keeps DagInv.
LEMMA DagStep ==
  ASSUME StateType, SerialiseInv, DagInv, [Next]_vars
  PROVE  DagInv'
<1>1. CASE GraphSerialised
  <2>1. Serialised /\ at = Whole /\ frames = <<>> /\ roots = {} /\ list' = ret /\ down' = feeds
    /\ UNCHANGED <<inputs, role>>
    BY <1>1 DEF GraphSerialised, SerialiseInv, graph
  <2>2. Seen = Range(ret) /\ \A t : InGraph(t)  BY <2>1, EmptyRange DEF Seen, InGraph
  <2>3. \A op \in FinalOf(at) : role[op] # "none"
    BY <2>1 DEF FinalOf, Finalized, RoleOrder
  <2> QED BY <2>1, <2>2, <2>3, Zenon DEF DagInv, Serialised
<1>2. CASE ~GraphSerialised
  <2>1. UNCHANGED lists
    BY <1>2, Zenon DEF Next, vars, Serialise, Mark, Validate, AddTask, SerialiseRoot, SerialiseInput,
     SerialiseReturn, SubgraphSerialised, MarkVisit, MarkEdge, MarkVisited,
     MarkSkip, MarkDone, HelperEnter, HelperDescend, HelperLeave, ValidateDone, BuildSubgraph,
     SplitDone, Call, OrderDone, Returned
  <2>2. UNCHANGED <<list, down, inputs, role>>  BY <2>1, GraphFixed DEF graph, lists
  <2>3. CASE GraphDone  BY <2>2, <2>3, Zenon DEF DagInv
  <2>4. CASE ~GraphDone /\ ~UNCHANGED vars
    <3>1. SerialiseRoot \/ SerialiseInput \/ SerialiseReturn
      BY <1>2, <2>4, Zenon DEF GraphDone, Next, Serialise, Mark, Validate, AddTask,
         SubgraphSerialised, MarkVisit, MarkEdge, MarkVisited,
         MarkSkip, MarkDone, HelperEnter, HelperDescend, HelperLeave, ValidateDone, BuildSubgraph,
         SplitDone, Call, OrderDone, Returned
    <3>2. ~GraphDone'
      BY <2>4, <3>1, Zenon DEF SerialiseRoot, SerialiseInput, SerialiseReturn, GraphDone
    <3> QED BY <3>2, Zenon DEF DagInv
  <2>5. CASE ~GraphDone /\ UNCHANGED vars
    BY <2>5, Zenon DEF GraphDone, DagInv, vars, serialising
  <2> QED BY <2>3, <2>4, <2>5
<1> QED BY <1>1, <1>2

-----------------------------------------------------------------------------
(* mark_graph                                                                *)

\* The edges the default policy keeps, in both directions.
Adjacency == {e \in Ops \X Ops : Fused(e[1], e[2]) \/ Fused(e[2], e[1])}

\* No part of M is without an edge of R to the rest.
Linked(M, R) == \A S \in SUBSET M : S # {} /\ S # M => \E a \in S, b \in M \ S : <<a, b>> \in R

\* The operation whose edges the walk is asking about.
Current == IF pc = "edges" THEN {cur} ELSE {}

\* The stack of mark_graph is the first n operations of the list, followed by what
\* the walk pushed, all of it with the current mark. Behind the first n the list
\* has been visited, and every marked operation has been visited or was pushed.
StackRight(n) ==
  /\ n <= Len(stack)
  /\ \A i \in 1 .. n : stack[i] = list[i]
  /\ \A i \in n + 1 .. Len(list) : list[i] \in visited \cup Current
  /\ \A i \in n + 1 .. Len(stack) : mark[stack[i]] = current /\ current # NoMark
  /\ \A op \in Marked \ (visited \cup Current) : \E i \in n + 1 .. Len(stack) : stack[i] = op

\* Across a fusible edge from a visited operation there is the same mark, and the
\* operations of one mark are linked by fusible edges.
ClassInv ==
  /\ visited \subseteq Marked /\ Marked \subseteq Range(list)
  /\ \A a \in visited, b \in Ops : <<a, b>> \in Adjacency => mark[b] = mark[a]
  /\ \A m \in 1 .. current : Linked(Members(m), Adjacency)

\* The edges of cur that have been asked about lead to the current mark.
EdgeInv ==
  /\ cur \notin visited /\ mark[cur] = current /\ current # NoMark
  /\ \A k \in 1 .. Len(Neighbours(cur)) :
       k < edge /\ ~DefaultPolicy(Neighbours(cur)[k][1], Neighbours(cur)[k][2])
         => mark[Other(Neighbours(cur)[k])] = current

\* The walk of mark_graph, with the default policy.
MarkInv ==
  ~user /\ pc \in {"mark", "edges"} =>
    /\ \E n \in 0 .. Len(list) : StackRight(n)
    /\ ClassInv
    /\ pc = "edges" => EdgeInv

\* What the walk leaves, with the default policy.
ComponentInv ==
  ~user /\ MarkedAll =>
    /\ visited = Marked /\ Marked = Range(list)
    /\ \A a \in Marked, b \in Ops : <<a, b>> \in Adjacency => mark[b] = mark[a]
    /\ \A m \in marks : Linked(Members(m), Adjacency)

\* The walk changes neither the edges nor what the default policy says of them.
LEMMA EdgesFixed ==
  UNCHANGED <<graph, lists>> =>
    /\ UNCHANGED Adjacency
    /\ \A op : Neighbours(op)' = Neighbours(op)
    /\ \A t, op : DefaultPolicy(t, op)' <=> DefaultPolicy(t, op)
<1> SUFFICES ASSUME UNCHANGED <<graph, lists>>
             PROVE  /\ UNCHANGED Adjacency
                    /\ \A op : Neighbours(op)' = Neighbours(op)
                    /\ \A t, op : DefaultPolicy(t, op)' <=> DefaultPolicy(t, op)
  OBVIOUS
<1>1. UNCHANGED <<inputs, role, reductive, list, down>>  BY DEF graph, lists
<1>2. \A t, op : DefaultPolicy(t, op)' <=> DefaultPolicy(t, op)  BY <1>1 DEF DefaultPolicy
<1>3. \A t, op : Fused(t, op)' <=> Fused(t, op)  BY <1>1, <1>2 DEF Fused
<1>4. UNCHANGED Adjacency  BY <1>3 DEF Adjacency
<1>5. \A op : Neighbours(op)' = Neighbours(op)  BY <1>1 DEF Neighbours
<1> QED BY <1>2, <1>4, <1>5

\* An edge the policy keeps is an edge of the walk, in each direction.
LEMMA EdgesWalked ==
  ASSUME StateType, DagInv, GraphDone, NEW op \in Range(list)
  PROVE  /\ \A k \in 1 .. Len(Neighbours(op)) :
              LET e == Neighbours(op)[k]
                  o == IF e[1] = op THEN e[2] ELSE e[1]
              IN  /\ o \in Range(list) /\ o # op /\ o \in Ops
                  /\ ~DefaultPolicy(e[1], e[2]) => <<op, o>> \in Adjacency
         /\ \A o \in Ops : <<op, o>> \in Adjacency =>
              \E k \in 1 .. Len(Neighbours(op)) :
                LET e == Neighbours(op)[k]
                IN  ~DefaultPolicy(e[1], e[2]) /\ o = IF e[1] = op THEN e[2] ELSE e[1]
<1>0. GraphType /\ ListType /\ op \in Ops /\ Range(list) \subseteq Ops
  BY RangeType DEF StateType, ListType
<1>1. \A a, b \in Ops : a \in Range(inputs[b]) => a < b /\ a # b
  BY <1>0 DEF GraphType, Ops
<1>2. ASSUME NEW k \in 1 .. Len(Neighbours(op)), NEW e, e = Neighbours(op)[k],
             NEW o, o = IF e[1] = op THEN e[2] ELSE e[1]
      PROVE  /\ o \in Range(list) /\ o # op /\ o \in Ops
             /\ ~DefaultPolicy(e[1], e[2]) => <<op, o>> \in Adjacency
  <2>1. CASE e[1] = op /\ e[2] \in Range(down[op])
    <3>1. o = e[2] /\ op \in Range(inputs[o]) /\ o \in Range(list)
      BY <1>0, <1>2, <2>1, Zenon DEF DagInv
    <3> QED BY <1>0, <1>1, <2>1, <3>1, Zenon DEF Adjacency, Fused
  <2>2. CASE e[2] = op /\ e[1] \in Range(inputs[op])
    <3>1. e[1] \in Range(list) /\ e[1] # op  BY <1>0, <1>1, <2>2, Zenon DEF DagInv
    <3>2. o = e[1]  BY <1>2, <3>1
    <3> QED BY <1>0, <2>2, <3>1, <3>2, Zenon DEF Adjacency, Fused
  <2> QED BY <1>0, <1>2, <2>1, <2>2, NeighbourFacts, Zenon
<1>3. ASSUME NEW o \in Ops, <<op, o>> \in Adjacency
      PROVE  \E k \in 1 .. Len(Neighbours(op)) :
                LET e == Neighbours(op)[k]
                IN  ~DefaultPolicy(e[1], e[2]) /\ o = IF e[1] = op THEN e[2] ELSE e[1]
  <2>1. Fused(op, o) \/ Fused(o, op)  BY <1>3 DEF Adjacency
  <2>2. CASE Fused(op, o)
    <3>1. o \in Range(down[op]) /\ ~DefaultPolicy(op, o)  BY <2>2, GraphDone, Zenon DEF Fused, DagInv
    <3>2. PICK k \in 1 .. Len(Neighbours(op)) : Neighbours(op)[k] = <<op, o>>
      BY <1>0, <3>1, NeighbourFacts, Zenon
    <3>3. <<op, o>>[1] = op /\ <<op, o>>[2] = o  OBVIOUS
    <3> QED BY <3>1, <3>2, <3>3, Zenon
  <2>3. CASE Fused(o, op)
    <3>1. o \in Range(inputs[op]) /\ ~DefaultPolicy(o, op) /\ o # op  BY <1>0, <1>1, <2>3 DEF Fused
    <3>2. PICK k \in 1 .. Len(Neighbours(op)) : Neighbours(op)[k] = <<o, op>>
      BY <1>0, <3>1, NeighbourFacts, Zenon
    <3> QED BY <3>1, <3>2
  <2> QED BY <2>1, <2>2, <2>3, Zenon
<1> QED BY <1>2, <1>3, Zenon

\* A linked set and an operation with an edge to it are linked.
LEMMA LinkedGrows ==
  ASSUME NEW M, NEW R, Linked(M, R), NEW c \in M, NEW o, <<c, o>> \in R, <<o, c>> \in R
  PROVE  Linked(M \cup {o}, R)
<1> SUFFICES ASSUME NEW S \in SUBSET (M \cup {o}), S # {}, S # M \cup {o}
             PROVE  \E a \in S, b \in (M \cup {o}) \ S : <<a, b>> \in R
  BY DEF Linked
<1>1. CASE S \cap M = {}  BY <1>1
<1>2. CASE S \cap M = M  BY <1>2
<1>3. CASE S \cap M # {} /\ S \cap M # M
  <2>1. PICK a \in S \cap M, b \in M \ (S \cap M) : <<a, b>> \in R  BY <1>3, Zenon DEF Linked
  <2> QED BY <2>1
<1> QED BY <1>1, <1>2, <1>3, Zenon

\* What the walk starts from.
MarkBase == StateType /\ SerialiseInv /\ DagInv

\* The walk starts with the operation list on the stack and no marks.
LEMMA MarkStart ==
  ASSUME MarkBase, GraphSerialised
  PROVE  MarkInv'
<1>1. StateType' /\ list' = ret /\ stack' = ret /\ pc' = "mark" /\ ret \in Seq(Ops)
  BY TypeNext, Zenon DEF MarkBase, GraphSerialised, Next, Serialise, StateType, SerialiseType
<1>2. visited' = {} /\ mark' = [op \in Ops |-> NoMark] /\ current' = 0
  BY DEF MarkBase, SerialiseInv, GraphDone, marking, GraphSerialised
<1>3. Marked' = {} /\ Current' = {}  BY <1>1, <1>2 DEF Marked, Current
<1>4. Len(list') \in 0 .. Len(list') /\ StackRight(Len(list))'
  BY <1>1, <1>2, <1>3 DEF StackRight
<1>5. ClassInv'  BY <1>2, <1>3 DEF ClassInv
<1> QED BY <1>1, <1>4, <1>5 DEF MarkInv

\* What a step of the walk leaves alone.
LEMMA WalkFrame ==
  ASSUME MarkVisit \/ MarkEdge \/ MarkVisited \/ MarkSkip
  PROVE  /\ UNCHANGED <<inputs, role, reductive, user, list, down, graph, lists, Adjacency>>
         /\ pc' \in {"mark", "edges"} /\ GraphDone
         /\ \A op : Neighbours(op)' = Neighbours(op)
         /\ \A t, op : DefaultPolicy(t, op)' <=> DefaultPolicy(t, op)
<1>1. UNCHANGED <<graph, lists>> /\ pc' \in {"mark", "edges"} /\ pc \in {"mark", "edges"}
  BY Zenon DEF MarkVisit, MarkEdge, MarkVisited, MarkSkip
<1> QED BY <1>1, EdgesFixed DEF graph, lists, GraphDone

\* A walk that comes to an operation without a mark has emptied the part of the
\* stack it pushed, and starts a new class.
LEMMA VisitNew ==
  ASSUME MarkBase, MarkInv, ~user, MarkVisit, mark[Top(stack)] = NoMark
  PROVE  MarkInv'
<1> DEFINE x == Top(stack)
<1>0. ListType /\ MarkType /\ StateType' /\ DagInv
  BY TypeNext DEF MarkBase, StateType, Next, Mark
<1>1. pc = "mark" /\ stack # <<>> /\ x \notin visited /\ Current = {}  BY DEF MarkVisit, Current
<1>2. stack \in Seq(Ops) /\ x \in Ops /\ stack' = Pop(stack) /\ cur' = x /\ edge' = 1 /\ pc' = "edges"
  BY <1>0, <1>1, PushPop, Zenon DEF MarkVisit, MarkType
<1>3. current' = current + 1 /\ mark' = [mark EXCEPT ![x] = current + 1] /\ UNCHANGED visited
  BY DEF MarkVisit
<1>4. Len(stack') = Len(stack) - 1 /\ Len(stack) \in Nat \ {0} /\ stack' \in Seq(Ops)
      /\ \A i \in 1 .. Len(stack) - 1 : stack'[i] = stack[i]
  BY <1>1, <1>2, PushPop
<1>5. current \in Nat /\ mark \in [Ops -> 0 .. current]  BY <1>0 DEF MarkType
<1>6. ClassInv /\ \E n \in 0 .. Len(list) : StackRight(n)  BY <1>1 DEF MarkInv
<1>7. PICK n \in 0 .. Len(list) : StackRight(n)  BY <1>6
<1>8. x = stack[Len(stack)] /\ mark[x] = NoMark  BY DEF Top
<1> HIDE DEF x
<1>9. n = Len(stack)
  <2> SUFFICES ASSUME n # Len(stack) PROVE FALSE
    OBVIOUS
  <2>1. n <= Len(stack) /\ n \in Nat  BY <1>7 DEF StackRight
  <2>2. Len(stack) \in n + 1 .. Len(stack)  BY <1>4, <2>1
  <2> QED BY <1>7, <1>8, <2>2, Zenon DEF StackRight
<1>10. Marked \subseteq visited  BY <1>1, <1>4, <1>7, <1>9 DEF StackRight
<1>11. Marked' = Marked \cup {x} /\ Current' = {x}
  <2>1. current + 1 # NoMark  BY <1>5 DEF NoMark
  <2>2. Current' = {x}  BY <1>2 DEF Current
  <2> QED BY <1>2, <1>3, <1>5, <2>1, <2>2 DEF Marked
<1>12. UNCHANGED <<list, user, Adjacency>>  BY WalkFrame
<1>13. x = list[n] /\ n \in 1 .. Len(list) /\ x \in Range(list)
  <2>1. list \in Seq(Ops)  BY <1>0 DEF ListType
  <2>2. n \in 1 .. Len(list)  BY <1>4, <1>9, <2>1
  <2>3. x = list[n]  BY <1>7, <1>8, <1>9, <2>2 DEF StackRight
  <2> QED BY <2>1, <2>2, <2>3, RangeType
<1>14. n - 1 \in 0 .. Len(list)' /\ StackRight(n - 1)'
  <2>1. n - 1 \in 0 .. Len(list)  BY <1>13
  <2>2. n - 1 <= Len(stack')  BY <1>4, <1>9
  <2>3. \A i \in 1 .. n - 1 : stack'[i] = list[i]
    <3>1. \A i \in 1 .. n - 1 : i \in 1 .. n  BY <1>13
    <3> QED BY <1>4, <1>7, <1>9, <3>1, Zenon DEF StackRight
  <2>4. \A i \in (n - 1) + 1 .. Len(list) : list[i] \in visited \cup {x}
    <3>1. \A i \in (n - 1) + 1 .. Len(list) : i = n \/ i \in n + 1 .. Len(list)  BY <1>13
    <3> QED BY <1>1, <1>7, <1>13, <3>1, Zenon DEF StackRight
  <2>5. (n - 1) + 1 .. Len(stack') = {}  BY <1>4, <1>9
  <2>6. Marked' \ (visited' \cup Current') = {}  BY <1>3, <1>10, <1>11
  <2> QED BY <1>3, <1>11, <1>12, <2>1, <2>2, <2>3, <2>4, <2>5, <2>6, Zenon DEF StackRight
<1>15. ClassInv'
  <2>1. visited' \subseteq Marked' /\ Marked' \subseteq Range(list')
    BY <1>3, <1>6, <1>11, <1>12, <1>13, Zenon DEF ClassInv
  <2>2. \A a \in visited : a # x /\ mark'[a] = mark[a] /\ mark[a] # NoMark
    BY <1>1, <1>3, <1>5, <1>6 DEF ClassInv, Marked
  <2>3. \A a \in visited, b \in Ops : <<a, b>> \in Adjacency => mark'[b] = mark'[a]
    BY <1>3, <1>5, <1>6, <1>8, <2>2, Zenon DEF ClassInv
  <2>4. ASSUME NEW m \in 1 .. current PROVE Members(m)' = Members(m)
    BY <1>2, <1>3, <1>5, <1>8 DEF Members, NoMark
  <2>5. ASSUME NEW m, m = current + 1 PROVE Members(m)' = {x}
    <3>1. \A op \in Ops : mark[op] # current + 1  BY <1>5
    <3> QED BY <1>2, <1>3, <1>5, <2>5, <3>1 DEF Members
  <2>6. Linked({x}, Adjacency)  BY DEF Linked
  <2>7. ASSUME NEW m \in 1 .. current' PROVE Linked(Members(m)', Adjacency)
    <3>1. m \in 1 .. current \/ m = current + 1  BY <1>3, <1>5
    <3>2. CASE m \in 1 .. current  BY <1>6, <2>4, <3>2 DEF ClassInv
    <3>3. CASE m = current + 1  BY <2>5, <2>6, <3>3, Zenon
    <3> QED BY <3>1, <3>2, <3>3
  <2> QED BY <1>3, <1>12, <2>1, <2>3, <2>7 DEF ClassInv
<1>16. EdgeInv'
  <2>1. cur' \notin visited' /\ mark'[cur'] = current' /\ current' # NoMark
    BY <1>1, <1>2, <1>3, <1>5 DEF NoMark
  <2>2. \A k \in 1 .. Len(Neighbours(cur))' : ~(k < edge')
    BY <1>2
  <2> QED BY <2>1, <2>2, Zenon DEF EdgeInv
<1> QED BY <1>14, <1>15, <1>16 DEF MarkInv

\* One that comes to a marked operation goes on with the class it is in.
LEMMA VisitMarked ==
  ASSUME MarkBase, MarkInv, ~user, MarkVisit, mark[Top(stack)] # NoMark
  PROVE  MarkInv'
<1> DEFINE x == Top(stack)
<1>0. ListType /\ MarkType /\ StateType' /\ DagInv
  BY TypeNext DEF MarkBase, StateType, Next, Mark
<1>1. pc = "mark" /\ stack # <<>> /\ x \notin visited /\ Current = {}  BY Zenon DEF MarkVisit, Current
<1>2. stack \in Seq(Ops) /\ x \in Ops /\ stack' = Pop(stack) /\ cur' = x /\ edge' = 1 /\ pc' = "edges"
  BY <1>0, <1>1, PushPop, Zenon DEF MarkVisit, MarkType
<1>3. current' = current /\ mark' = [mark EXCEPT ![x] = current] /\ UNCHANGED visited
  BY DEF MarkVisit
<1>4. Len(stack') = Len(stack) - 1 /\ Len(stack) \in Nat \ {0} /\ stack' \in Seq(Ops)
      /\ \A i \in 1 .. Len(stack) - 1 : stack'[i] = stack[i]
  BY <1>1, <1>2, PushPop, Zenon
<1>5. current \in Nat /\ mark \in [Ops -> 0 .. current]  BY <1>0 DEF MarkType
<1>6. ClassInv /\ \E n \in 0 .. Len(list) : StackRight(n)  BY <1>1 DEF MarkInv
<1>7. PICK n \in 0 .. Len(list) : StackRight(n)  BY <1>6
<1>8. x = stack[Len(stack)] /\ x \in Marked  BY <1>2 DEF Top, Marked
<1> HIDE DEF x
<1>9. Len(stack) \in n + 1 .. Len(stack) /\ mark[x] = current /\ current # NoMark
  <2>1. PICK i \in n + 1 .. Len(stack) : stack[i] = x  BY <1>1, <1>7, <1>8 DEF StackRight
  <2>2. Len(stack) \in n + 1 .. Len(stack)  BY <1>4, <2>1
  <2> QED BY <1>7, <1>8, <2>2, Zenon DEF StackRight
<1>10. mark' = mark  BY <1>2, <1>3, <1>5, <1>9
<1>11. Marked' = Marked /\ Current' = {x}  BY <1>2, <1>10 DEF Marked, Current
<1>12. UNCHANGED <<list, user, Adjacency>>  BY WalkFrame
<1>13. StackRight(n)'
  <2>1. n <= Len(stack')  BY <1>4, <1>9
  <2>2. \A i \in 1 .. n : stack'[i] = list[i]
    <3>1. \A i \in 1 .. n : i \in 1 .. Len(stack) - 1  BY <1>4, <1>9
    <3> QED BY <1>4, <1>7, <3>1, Zenon DEF StackRight
  <2>3. \A i \in n + 1 .. Len(stack') : i \in n + 1 .. Len(stack) /\ stack'[i] = stack[i]
    <3>1. \A i \in n + 1 .. Len(stack') : i \in n + 1 .. Len(stack) /\ i \in 1 .. Len(stack) - 1
      <4>1. Len(stack') = Len(stack) - 1 /\ Len(stack) \in Nat  BY <1>4, Zenon
      <4> QED BY <4>1
    <3> QED BY <1>4, <3>1, Zenon
  <2>4. \A op \in Marked \ (visited \cup {x}) : \E i \in n + 1 .. Len(stack') : stack'[i] = op
    <3> SUFFICES ASSUME NEW op \in Marked \ (visited \cup {x})
                 PROVE  \E i \in n + 1 .. Len(stack') : stack'[i] = op
      OBVIOUS
    <3>1. PICK i \in n + 1 .. Len(stack) : stack[i] = op  BY <1>1, <1>7, Zenon DEF StackRight
    <3>2. i # Len(stack)  BY <1>8, <3>1
    <3>3. i \in n + 1 .. Len(stack')  BY <1>4, <3>2
    <3> QED BY <2>3, <3>1, <3>3, Zenon
  <2>5. \A i \in n + 1 .. Len(list) : list[i] \in visited \cup {x}  BY <1>1, <1>7 DEF StackRight
  <2>6. \A i \in n + 1 .. Len(stack') : mark[stack'[i]] = current /\ current # NoMark
    BY <1>7, <2>3 DEF StackRight
  <2> QED BY <1>3, <1>10, <1>11, <1>12, <2>1, <2>2, <2>4, <2>5, <2>6, Zenon DEF StackRight
<1>14. ClassInv'  BY <1>3, <1>6, <1>10, <1>11, <1>12 DEF ClassInv, Members
<1>15. EdgeInv'
  <2>1. cur' \notin visited' /\ mark'[cur'] = current' /\ current' # NoMark
    BY <1>1, <1>2, <1>3, <1>9, <1>10, Zenon
  <2>2. \A k \in 1 .. Len(Neighbours(cur))' : ~(k < edge')
    BY <1>2
  <2> QED BY <2>1, <2>2, Zenon DEF EdgeInv
<1> QED BY <1>12, <1>13, <1>14, <1>15 DEF MarkInv

\* The two loops over the edges of cur.  A neighbour that is marked already has
\* the mark of cur.
LEMMA EdgeStep ==
  ASSUME MarkBase, MarkInv, ~user, MarkEdge
  PROVE  MarkInv'
<1> DEFINE e == Neighbours(cur)[edge]
           o == Other(e)
<1>0. GraphType /\ ListType /\ MarkType /\ StateType' /\ DagInv /\ StateType
  BY TypeNext DEF MarkBase, StateType, Next, Mark
<1>1. pc = "edges" /\ pc' = "edges" /\ Current = {cur} /\ Current' = {cur} /\ edge' = edge + 1
      /\ UNCHANGED <<visited, current, cur>>
  BY Zenon DEF MarkEdge, Current
<1>2. current \in Nat /\ mark \in [Ops -> 0 .. current] /\ stack \in Seq(Ops)
      /\ cur \in Ops /\ edge \in 1 .. Len(Neighbours(cur))
  <2>1. current \in Nat /\ mark \in [Ops -> 0 .. current] /\ stack \in Seq(Ops)
        /\ cur \in Ops /\ edge \in Nat /\ edge >= 1
    BY <1>0, <1>1, Zenon DEF MarkType
  <2>2. edge <= Len(Neighbours(cur))  BY Zenon DEF MarkEdge
  <2>3. Len(Neighbours(cur)) \in Nat  BY <1>0, <2>1, NeighbourFacts, Zenon
  <2>4. edge \in 1 .. Len(Neighbours(cur))  BY <2>1, <2>2, <2>3
  <2> QED BY <2>1, <2>4, Zenon
<1>3. ClassInv /\ EdgeInv /\ \E n \in 0 .. Len(list) : StackRight(n)  BY <1>1 DEF MarkInv
<1>4. UNCHANGED <<list, user, Adjacency>> /\ GraphDone /\ Neighbours(cur)' = Neighbours(cur)
      /\ \A t, op : DefaultPolicy(t, op)' <=> DefaultPolicy(t, op)
  BY <1>1, WalkFrame, Zenon DEF Neighbours
<1>5. cur \in Range(list)  BY <1>2, <1>3, Zenon DEF ClassInv, EdgeInv, Marked
<1>6. o \in Range(list) /\ o # cur /\ o \in Ops
      /\ (~DefaultPolicy(e[1], e[2]) => <<cur, o>> \in Adjacency)
  BY <1>0, <1>2, <1>4, <1>5, EdgesWalked, Zenon DEF Other
<1>7. \/ DefaultPolicy(e[1], e[2]) /\ UNCHANGED <<mark, stack>>
      \/ /\ ~DefaultPolicy(e[1], e[2])
         /\ mark' = [mark EXCEPT ![o] = current] /\ stack' = Append(stack, o)
  BY Zenon DEF MarkEdge, Policy
<1>8. \A k \in 1 .. Len(Neighbours(cur)) : Other(Neighbours(cur)[k])' = Other(Neighbours(cur)[k])
  BY <1>1, <1>4, Zenon DEF Other
<1>9. ASSUME mark'[o] = current \/ DefaultPolicy(e[1], e[2]),
             \A op \in Ops : mark[op] = current => mark'[op] = current
      PROVE  EdgeInv'
  <2>1. cur' \notin visited' /\ mark'[cur'] = current' /\ current' # NoMark
    BY <1>1, <1>2, <1>3, <1>9, Zenon DEF EdgeInv
  <2>2. ASSUME NEW k \in 1 .. Len(Neighbours(cur)), k < edge + 1,
               ~DefaultPolicy(Neighbours(cur)[k][1], Neighbours(cur)[k][2])
        PROVE  mark'[Other(Neighbours(cur)[k])] = current
    <3>1. CASE k = edge  BY <1>9, <2>2, <3>1, Zenon
    <3>2. CASE k # edge
      <4>1. k < edge  BY <1>2, <2>2, <3>2
      <4>2. mark[Other(Neighbours(cur)[k])] = current  BY <1>3, <2>2, <4>1, Zenon DEF EdgeInv
      <4>3. Other(Neighbours(cur)[k]) \in Ops
        BY <1>0, <1>4, <1>5, EdgesWalked, Zenon DEF Other
      <4> QED BY <1>9, <4>2, <4>3, Zenon
    <3> QED BY <3>1, <3>2
  <2> QED BY <1>1, <1>4, <1>8, <2>1, <2>2, Zenon DEF EdgeInv
<1>10. CASE DefaultPolicy(e[1], e[2])
  <2>1. UNCHANGED <<mark, stack>>  BY <1>7, <1>10, Zenon
  <2>2. EdgeInv'  BY <1>9, <1>10, <2>1, Zenon
  <2>3. ClassInv'  BY <1>1, <1>3, <1>4, <2>1, Zenon DEF ClassInv, Marked, Members
  <2>4. \A n : StackRight(n)' <=> StackRight(n)
    BY <1>1, <1>4, <2>1, Zenon DEF StackRight, Marked
  <2> QED BY <1>3, <1>4, <2>2, <2>3, <2>4 DEF MarkInv
<1>11. CASE ~DefaultPolicy(e[1], e[2])
  <2>1. mark' = [mark EXCEPT ![o] = current] /\ stack' = Append(stack, o) /\ <<cur, o>> \in Adjacency
    BY <1>6, <1>7, <1>11, Zenon
  <2>2. EdgeInv'
    <3>1. mark'[o] = current /\ \A op \in Ops : mark[op] = current => mark'[op] = current
      BY <1>2, <1>6, <2>1, Zenon
    <3> QED BY <1>9, <3>1, Zenon
  <2> HIDE DEF e, o
  <2>3. PICK n \in 0 .. Len(list) : StackRight(n)  BY <1>3
  <2>4. <<o, cur>> \in Adjacency  BY <2>1 DEF Adjacency
  <2>5. mark[o] \in {NoMark, current}
    <3>1. CASE o \in visited  BY <1>2, <1>3, <2>4, <3>1, Zenon DEF ClassInv, EdgeInv
    <3>2. CASE o \notin visited /\ mark[o] # NoMark
      <4>1. o \in Marked \ (visited \cup Current)  BY <1>1, <1>6, <3>2 DEF Marked
      <4> QED BY <2>3, <4>1, Zenon DEF StackRight
    <3> QED BY <3>1, <3>2
  <2>6. mark[cur] = current /\ current # NoMark  BY <1>3, Zenon DEF EdgeInv
  <2>7. Marked' = Marked \cup {o}
    BY <1>2, <1>6, <2>1, <2>6, Zenon DEF Marked
  <2>8. StackRight(n)'
    <3>1. Len(stack') = Len(stack) + 1 /\ Len(stack) \in Nat /\ stack'[Len(stack) + 1] = o
          /\ \A i \in 1 .. Len(stack) : stack'[i] = stack[i]
      <4>1. stack \in Seq(Ops) /\ o \in Ops /\ stack' = Append(stack, o)  BY <1>2, <1>6, <2>1, Zenon
      <4> QED BY <4>1, AppendRange
    <3>2. n <= Len(stack) /\ n \in Nat  BY <2>3 DEF StackRight
    <3>3. n <= Len(stack')  BY <3>1, <3>2
    <3>4. \A i \in 1 .. n : stack'[i] = list[i]
      <4>1. \A i \in 1 .. n : i \in 1 .. Len(stack)  BY <3>1, <3>2
      <4> QED BY <2>3, <3>1, <4>1, Zenon DEF StackRight
    <3>5. \A i \in n + 1 .. Len(stack') :
             (i \in n + 1 .. Len(stack) /\ stack'[i] = stack[i]) \/ stack'[i] = o
      BY <3>1, <3>2
    <3>6. \A i \in n + 1 .. Len(stack') : mark'[stack'[i]] = current
      <4> SUFFICES ASSUME NEW i \in n + 1 .. Len(stack') PROVE mark'[stack'[i]] = current
        BY Zenon
      <4>1. CASE stack'[i] = o  BY <1>2, <1>6, <2>1, <4>1, Zenon
      <4>2. CASE i \in n + 1 .. Len(stack) /\ stack'[i] = stack[i]
        <5>1. mark[stack[i]] = current  BY <2>3, <4>2, Zenon DEF StackRight
        <5>2. stack[i] \in Ops  BY <1>2, <3>2, <4>2
        <5> QED BY <1>2, <2>1, <4>2, <5>1, <5>2, Zenon
      <4> QED BY <3>5, <4>1, <4>2, Zenon
    <3>7. \A op \in (Marked \cup {o}) \ (visited \cup Current) :
            \E i \in n + 1 .. Len(stack') : stack'[i] = op
      <4> SUFFICES ASSUME NEW op \in (Marked \cup {o}) \ (visited \cup Current)
                   PROVE  \E i \in n + 1 .. Len(stack') : stack'[i] = op
        OBVIOUS
      <4>1. CASE op = o
        <5>1. Len(stack) + 1 \in n + 1 .. Len(stack')  BY <3>1, <3>2
        <5> QED BY <3>1, <4>1, <5>1, Zenon
      <4>2. CASE op # o
        <5>1. PICK i \in n + 1 .. Len(stack) : stack[i] = op  BY <2>3, <4>2, Zenon DEF StackRight
        <5>2. i \in n + 1 .. Len(stack') /\ stack'[i] = stack[i]  BY <3>1, <3>2
        <5> QED BY <5>1, <5>2, Zenon
      <4> QED BY <4>1, <4>2
    <3>8. \A i \in n + 1 .. Len(list) : list[i] \in visited \cup Current  BY <2>3, Zenon DEF StackRight
    <3> QED BY <1>1, <1>4, <2>6, <2>7, <3>3, <3>4, <3>6, <3>7, <3>8, Zenon DEF StackRight
  <2>9. ClassInv'
    <3>1. visited \subseteq Marked' /\ Marked' \subseteq Range(list)
      BY <1>3, <1>6, <2>7, Zenon DEF ClassInv
    <3>2. CASE mark[o] = current
      <4>1. mark' = mark  BY <1>2, <1>6, <2>1, <3>2
      <4> QED BY <1>1, <1>3, <1>4, <4>1, Zenon DEF ClassInv, Members, Marked
    <3>3. CASE mark[o] = NoMark
      <4>1. \A a \in visited : a # o /\ mark'[a] = mark[a] /\ mark[a] # NoMark
        BY <1>2, <1>3, <2>1, <3>3, Zenon DEF ClassInv, Marked
      <4>2. \A a \in visited, b \in Ops : <<a, b>> \in Adjacency => mark'[b] = mark'[a]
        BY <1>2, <1>3, <2>1, <3>3, <4>1, Zenon DEF ClassInv
      <4>3. ASSUME NEW m \in 1 .. current PROVE Linked(Members(m)', Adjacency)
        <5>1. Linked(Members(m), Adjacency)  BY <1>3, Zenon DEF ClassInv
        <5>2. CASE m = current
          <6>1. Members(m)' = Members(m) \cup {o} /\ cur \in Members(m)
            BY <1>2, <1>6, <2>1, <2>6, <5>2, Zenon DEF Members
          <6> QED BY <2>1, <2>4, <5>1, <6>1, LinkedGrows, Zenon
        <5>3. CASE m # current
          <6>1. m # NoMark  BY DEF NoMark
          <6>2. Members(m)' = Members(m)
            BY <1>2, <1>6, <2>1, <3>3, <5>3, <6>1, Zenon DEF Members
          <6> QED BY <5>1, <6>2
        <5> QED BY <5>2, <5>3
      <4> QED BY <1>1, <1>4, <3>1, <4>2, <4>3, Zenon DEF ClassInv
    <3> QED BY <2>5, <3>2, <3>3
  <2> QED BY <1>4, <2>2, <2>8, <2>9 DEF MarkInv
<1> QED BY <1>10, <1>11, Zenon

\* The end of an iteration: every edge of cur has been asked about.
LEMMA VisitedStep ==
  ASSUME MarkBase, MarkInv, ~user, MarkVisited
  PROVE  MarkInv'
<1>0. GraphType /\ ListType /\ MarkType /\ DagInv /\ StateType
  BY DEF MarkBase, StateType
<1>1. pc = "edges" /\ pc' = "mark" /\ visited' = visited \cup {cur} /\ UNCHANGED <<stack, mark, current>>
      /\ visited' \cup Current' = visited \cup Current
  BY Zenon DEF MarkVisited, Visit, Current
<1>2. cur \in Ops /\ edge \in Nat /\ edge > Len(Neighbours(cur)) /\ Len(Neighbours(cur)) \in Nat
  BY <1>0, <1>1, NeighbourFacts, Zenon DEF MarkType, MarkVisited
<1>3. ClassInv /\ EdgeInv /\ \E n \in 0 .. Len(list) : StackRight(n)  BY <1>1 DEF MarkInv
<1>4. UNCHANGED <<list, user, Adjacency>> /\ GraphDone  BY WalkFrame
<1>5. cur \in Marked /\ cur \in Range(list)  BY <1>2, <1>3, Zenon DEF ClassInv, EdgeInv, Marked
<1>6. ASSUME NEW b \in Ops, <<cur, b>> \in Adjacency PROVE mark[b] = mark[cur]
  <2>1. PICK k \in 1 .. Len(Neighbours(cur)) :
          ~DefaultPolicy(Neighbours(cur)[k][1], Neighbours(cur)[k][2]) /\ b = Other(Neighbours(cur)[k])
    BY <1>0, <1>4, <1>5, <1>6, EdgesWalked, Zenon DEF Other
  <2>2. k < edge  BY <1>2
  <2> QED BY <1>3, <2>1, <2>2, Zenon DEF EdgeInv
<1>7. ClassInv'
  BY <1>1, <1>3, <1>4, <1>5, <1>6, Zenon DEF ClassInv, Marked, Members
<1>8. \A n : StackRight(n)' <=> StackRight(n)
  BY <1>1, <1>4, Zenon DEF StackRight, Marked
<1> QED BY <1>1, <1>3, <1>4, <1>7, <1>8 DEF MarkInv

\* Popping a visited operation loses nothing: it is visited, with its mark.
LEMMA SkipStep ==
  ASSUME MarkBase, MarkInv, ~user, MarkSkip
  PROVE  MarkInv'
<1> DEFINE x == Top(stack)
<1>0. ListType /\ MarkType  BY DEF MarkBase, StateType
<1>1. pc = "mark" /\ pc' = "mark" /\ stack # <<>> /\ x \in visited /\ stack' = Pop(stack)
      /\ UNCHANGED <<visited, mark, current>>
  BY Zenon DEF MarkSkip
<1>2. stack \in Seq(Ops) /\ Current = {} /\ Current' = {} /\ Marked' = Marked
  BY <1>0, <1>1 DEF MarkType, Current, Marked
<1>3. Len(stack') = Len(stack) - 1 /\ Len(stack) \in Nat \ {0}
      /\ \A i \in 1 .. Len(stack) - 1 : stack'[i] = stack[i]
  BY <1>1, <1>2, PushPop, Zenon
<1>4. x = stack[Len(stack)]  BY DEF Top
<1> HIDE DEF x
<1>5. ClassInv /\ \E n \in 0 .. Len(list) : StackRight(n)  BY <1>1 DEF MarkInv
<1>6. PICK n \in 0 .. Len(list) : StackRight(n)  BY <1>5
<1>7. UNCHANGED <<list, user, Adjacency>>  BY WalkFrame
<1>8. ClassInv'  BY <1>1, <1>2, <1>5, <1>7, Zenon DEF ClassInv, Members
<1>9. n \in Nat /\ n <= Len(stack) /\ Len(list) \in Nat  BY <1>0, <1>6 DEF StackRight, ListType
<1>10. \E j \in 0 .. Len(list) : StackRight(j)'
  <2>1. CASE n = Len(stack)
    <3> DEFINE j == n - 1
    <3>1. j \in 0 .. Len(list) /\ j <= Len(stack')  BY <1>3, <1>6, <1>9, <2>1
    <3>2. \A i \in 1 .. j : i \in 1 .. n /\ i \in 1 .. Len(stack) - 1  BY <1>9, <2>1
    <3>3. \A i \in j + 1 .. Len(list) : i = n \/ i \in n + 1 .. Len(list)  BY <1>9
    <3>4. j + 1 .. Len(stack') = {}  BY <1>3, <1>9, <2>1
    <3>5. n \in 1 .. n  BY <1>3, <2>1
    <3>6. Marked \ visited = {}
      <4>1. n + 1 .. Len(stack) = {}  BY <1>9, <2>1
      <4> QED BY <1>2, <1>6, <4>1, Zenon DEF StackRight
    <3> HIDE DEF j
    <3>7. \A i \in 1 .. j : stack'[i] = list[i]  BY <1>3, <1>6, <3>2, Zenon DEF StackRight
    <3>8. list[n] \in visited  BY <1>1, <1>4, <1>6, <2>1, <3>5, Zenon DEF StackRight
    <3>9. \A i \in j + 1 .. Len(list) : list[i] \in visited  BY <1>2, <1>6, <3>3, <3>8, Zenon DEF StackRight
    <3>10. StackRight(j)'
      BY <1>1, <1>2, <1>7, <3>1, <3>4, <3>6, <3>7, <3>9, Zenon DEF StackRight
    <3> QED BY <3>1, <3>10
  <2>2. CASE n # Len(stack)
    <3>1. n <= Len(stack') /\ \A i \in 1 .. n : i \in 1 .. Len(stack) - 1  BY <1>3, <1>9, <2>2
    <3>2. \A i \in n + 1 .. Len(stack') : i \in n + 1 .. Len(stack) /\ stack'[i] = stack[i]
      BY <1>3, <1>9
    <3>3. \A i \in 1 .. n : stack'[i] = list[i]  BY <1>3, <1>6, <3>1, Zenon DEF StackRight
    <3>4. \A op \in Marked \ visited : \E i \in n + 1 .. Len(stack') : stack'[i] = op
      <4> SUFFICES ASSUME NEW op \in Marked \ visited
                   PROVE  \E i \in n + 1 .. Len(stack') : stack'[i] = op
        OBVIOUS
      <4>1. PICK i \in n + 1 .. Len(stack) : stack[i] = op  BY <1>2, <1>6, Zenon DEF StackRight
      <4>2. i # Len(stack)  BY <1>1, <1>4, <4>1
      <4>3. i \in n + 1 .. Len(stack')  BY <1>3, <4>2
      <4> QED BY <3>2, <4>1, <4>3, Zenon
    <3>5. \A i \in n + 1 .. Len(stack') : mark[stack'[i]] = current /\ current # NoMark
      BY <1>6, <3>2 DEF StackRight
    <3>6. \A i \in n + 1 .. Len(list) : list[i] \in visited  BY <1>2, <1>6, Zenon DEF StackRight
    <3>7. StackRight(n)'
      BY <1>1, <1>2, <1>7, <3>1, <3>3, <3>4, <3>5, <3>6, Zenon DEF StackRight
    <3> QED BY <3>7
  <2> QED BY <2>1, <2>2
<1> QED BY <1>1, <1>7, <1>8, <1>10 DEF MarkInv

\* After mark_graph nothing changes its result.
LEMMA AfterMark ==
  ASSUME [Next]_vars, MarkedAll'
  PROVE  MarkDone \/ (MarkedAll /\ UNCHANGED <<graph, lists, marking>>)
<1>1. CASE Serialise
  BY <1>1, Zenon DEF Serialise, SerialiseRoot, SerialiseInput, SerialiseReturn, GraphSerialised,
     SubgraphSerialised, MarkedAll, serialising
<1>2. CASE Mark  BY <1>2, Zenon DEF Mark, MarkVisit, MarkEdge, MarkVisited, MarkSkip, MarkedAll
<1>3. CASE Validate
  BY <1>3, Zenon DEF Validate, HelperEnter, HelperDescend, HelperLeave, ValidateDone, MarkedAll
<1>4. CASE AddTask  BY <1>4, Zenon DEF AddTask, BuildSubgraph, SplitDone, Call, OrderDone, MarkedAll
<1>5. CASE UNCHANGED vars  BY <1>5 DEF vars, MarkedAll, serialising
<1> QED BY <1>1, <1>2, <1>3, <1>4, <1>5 DEF Next, Returned

\* Every step of add_task keeps MarkInv.
LEMMA MarkStep ==
  ASSUME MarkBase, MarkInv, [Next]_vars
  PROVE  MarkInv'
<1> SUFFICES ASSUME ~user', pc' \in {"mark", "edges"} PROVE MarkInv'
  BY DEF MarkInv
<1>1. ~user  BY GraphFixed DEF graph
<1>2. CASE GraphSerialised  BY <1>2, MarkStart
<1>3. CASE MarkVisit  BY <1>1, <1>3, VisitNew, VisitMarked
<1>4. CASE MarkEdge  BY <1>1, <1>4, EdgeStep
<1>5. CASE MarkVisited  BY <1>1, <1>5, VisitedStep
<1>6. CASE MarkSkip  BY <1>1, <1>6, SkipStep
<1>7. CASE UNCHANGED vars
  <2>1. UNCHANGED <<graph, lists, marking, pc, Adjacency>> /\ (\A op : Neighbours(op)' = Neighbours(op))
        /\ \A t, op : DefaultPolicy(t, op)' <=> DefaultPolicy(t, op)
    BY <1>7, EdgesFixed, Zenon DEF vars
  <2>2. UNCHANGED <<user, list, stack, visited, mark, current, cur, edge, Current, Marked>>
    BY <2>1, Zenon DEF graph, lists, marking, Current, Marked
  <2>3. ClassInv' <=> ClassInv  BY <2>1, <2>2, Zenon DEF ClassInv, Members
  <2>4. \A n : StackRight(n)' <=> StackRight(n)  BY <2>2, Zenon DEF StackRight
  <2>5. EdgeInv' <=> EdgeInv
    <3>1. \A e : Other(e)' = Other(e)  BY <2>2 DEF Other
    <3>2. Neighbours(cur)' = Neighbours(cur)  BY <2>1, <2>2, Zenon DEF Neighbours
    <3> QED BY <2>1, <2>2, <3>1, <3>2, Zenon DEF EdgeInv
  <2> QED BY <2>1, <2>2, <2>3, <2>4, <2>5, Zenon DEF MarkInv
<1>8. CASE SerialiseRoot \/ SerialiseInput \/ SerialiseReturn \/ SubgraphSerialised \/ MarkDone
           \/ Validate \/ AddTask
  BY <1>8, Zenon DEF SerialiseRoot, SerialiseInput, SerialiseReturn, SubgraphSerialised, MarkDone,
     Validate, HelperEnter, HelperDescend, HelperLeave, ValidateDone, AddTask, BuildSubgraph,
     SplitDone, Call, OrderDone
<1> QED BY <1>2, <1>3, <1>4, <1>5, <1>6, <1>7, <1>8 DEF Next, Serialise, Mark, Returned

\* Every step of add_task keeps ComponentInv.
LEMMA ComponentStep ==
  ASSUME MarkBase, MarkInv, ComponentInv, [Next]_vars
  PROVE  ComponentInv'
<1> SUFFICES ASSUME ~user', MarkedAll' PROVE ComponentInv'
  BY Zenon DEF ComponentInv
<1>1. ~user /\ UNCHANGED graph BY GraphFixed DEF graph
<1>2. UNCHANGED <<list, visited, mark, Marked, marks, Adjacency>> /\ \A m : Members(m)' = Members(m)
  <2>1. UNCHANGED <<lists, marking>>  BY AfterMark DEF MarkDone
  <2> QED BY <1>1, <2>1, EdgesFixed, Zenon DEF lists, marking, Marked, marks, Members
<1>3. CASE MarkedAll  BY <1>1, <1>2, <1>3, Zenon DEF ComponentInv
<1>4. CASE MarkDone
  <2>0. ListType /\ MarkType  BY DEF MarkBase, StateType
  <2>1. pc = "mark" /\ stack = <<>> /\ Current = {}  BY <1>4 DEF MarkDone, Current
  <2>2. ClassInv /\ \E n \in 0 .. Len(list) : StackRight(n)  BY <1>1, <2>1 DEF MarkInv
  <2>3. PICK n \in 0 .. Len(list) : StackRight(n)  BY <2>2
  <2>4. n = 0 /\ n + 1 .. Len(stack) = {}  BY <2>1, <2>3 DEF StackRight
  <2>5. Marked \subseteq visited  BY <2>1, <2>3, <2>4, Zenon DEF StackRight
  <2>6. Range(list) \subseteq visited
    <3>1. \A i \in 1 .. Len(list) : list[i] \in visited  BY <2>1, <2>3, <2>4 DEF StackRight
    <3>2. list \in Seq(Ops)  BY <2>0 DEF ListType
    <3> QED BY <3>1, <3>2, RangeType
  <2>7. visited = Marked /\ Marked = Range(list)  BY <2>2, <2>5, <2>6, Zenon DEF ClassInv
  <2>8. \A m \in marks : m \in 1 .. current
    BY <2>0 DEF marks, Marked, MarkType, NoMark
  <2> QED BY <1>2, <2>2, <2>7, <2>8, Zenon DEF ComponentInv, ClassInv
<1> QED BY <1>3, <1>4, AfterMark

\* The marks that mark_graph leaves are the fusible components.
LEMMA ComponentsMarked == StateType /\ ComponentInv => MarksAreComponents
<1> SUFFICES ASSUME StateType, ComponentInv, ~user, MarkedAll
             PROVE  /\ Marked = Range(list)
                    /\ \A t, op \in Ops : Fused(t, op) => mark[t] = mark[op]
                    /\ \A m \in marks : \A S \in (SUBSET Members(m)) \ {{}, Members(m)} :
                          \E a \in S, b \in Members(m) \ S : Fused(a, b) \/ Fused(b, a)
  BY Zenon DEF MarksAreComponents
<1>1. Marked = Range(list)  BY DEF ComponentInv
<1>2. ASSUME NEW t \in Ops, NEW op \in Ops, Fused(t, op) PROVE mark[t] = mark[op]
  <2>1. op \in Marked /\ <<op, t>> \in Adjacency  BY <1>1, <1>2, Zenon DEF Fused, Adjacency
  <2> QED BY <2>1 DEF ComponentInv
<1>3. ASSUME NEW m \in marks, NEW S \in (SUBSET Members(m)) \ {{}, Members(m)}
      PROVE  \E a \in S, b \in Members(m) \ S : Fused(a, b) \/ Fused(b, a)
  <2>1. PICK a \in S, b \in Members(m) \ S : <<a, b>> \in Adjacency
    BY Zenon DEF ComponentInv, Linked
  <2> QED BY <2>1 DEF Adjacency
<1> QED BY <1>1, <1>2, <1>3, Zenon

-----------------------------------------------------------------------------
(* validate_subgraph_dependency                                              *)

\* Which subgraph reads tensors of which.
Waits == {e \in marks \X marks : Depends(e[1], e[2])}

\* Every part of M has a member that waits for none of that part.
CycleFree(M, R) == \A S \in SUBSET M : S # {} => \E m \in S : \A n \in S : <<m, n>> \notin R

\* validate_subgraph_dependency at work: the calls of helper follow the
\* dependences without meeting a subgraph twice, and what is checked waits for
\* checked subgraphs only and has no circle.
PathInv ==
  /\ path \in Seq(marks) /\ checked \subseteq marks
  /\ \A i \in 1 .. Len(path) : path[i] \notin checked
  /\ \A i, j \in 1 .. Len(path) : path[i] = path[j] => i = j
  /\ \A i \in 1 .. Len(path) : i < Len(path) => <<path[i], path[i + 1]>> \in Waits
  /\ \A m \in checked, n \in marks : <<m, n>> \in Waits => n \in checked
  /\ CycleFree(checked, Waits)

\* The check is right while it runs, and its answer afterwards.
ValidateInv ==
  /\ ~MarkedAll => path = <<>> /\ checked = {}
  /\ pc = "validate" => PathInv
  /\ pc = "fatal" => ~CycleFree(marks, Waits)
  /\ MarkedAll /\ pc \notin {"validate", "fatal"} => CycleFree(marks, Waits)

\* The predecessors of a subgraph are what it waits for.
LEMMA WaitsPredecessor ==
  /\ \A m, n \in marks : <<m, n>> \in Waits <=> n \in predecessor(m)
  /\ \A m \in marks : predecessor(m) \subseteq marks /\ <<m, m>> \notin Waits
  BY DEF Waits, predecessor, Depends

\* A circular dependency is a set each of whose members waits for another.
LEMMA CircularIs == Circular <=> ~CycleFree(marks, Waits)
<1>1. ASSUME NEW S \in SUBSET marks
      PROVE  (\A m \in S : predecessor(m) \cap S # {}) <=> \A m \in S : \E n \in S : <<m, n>> \in Waits
  BY WaitsPredecessor, Zenon
<1> QED BY <1>1, Zenon DEF Circular, CycleFree

\* The dependences between subgraphs depend on the graph and the marks only.
LEMMA MarkingFixed ==
  UNCHANGED <<graph, marking>> =>
    /\ UNCHANGED <<Marked, marks, Waits>>
    /\ \A m, n : Depends(m, n)' <=> Depends(m, n)
    /\ \A m : predecessor(m)' = predecessor(m) /\ successors(m)' = successors(m) /\ Members(m)' = Members(m)
<1> SUFFICES ASSUME UNCHANGED <<graph, marking>>
             PROVE  /\ UNCHANGED <<Marked, marks, Waits>>
                    /\ \A m, n : Depends(m, n)' <=> Depends(m, n)
                    /\ \A m : predecessor(m)' = predecessor(m) /\ successors(m)' = successors(m) /\ Members(m)' = Members(m)
  OBVIOUS
<1>1. UNCHANGED <<inputs, mark>>  BY DEF graph, marking
<1>2. UNCHANGED <<Marked, marks>> /\ \A m : Members(m)' = Members(m)  BY <1>1 DEF Marked, marks, Members
<1>3. \A m, n : Depends(m, n)' <=> Depends(m, n)  BY <1>1, <1>2 DEF Depends
<1> QED BY <1>2, <1>3 DEF Waits, predecessor, successors

\* A subgraph that no checked one waits for closes no circle with them.
LEMMA CycleFreeGrows ==
  ASSUME NEW M, NEW R, CycleFree(M, R), NEW x, x \notin M, <<x, x>> \notin R,
         \A m \in M : <<m, x>> \notin R
  PROVE  CycleFree(M \cup {x}, R)
<1> SUFFICES ASSUME NEW S \in SUBSET (M \cup {x}), S # {}
             PROVE  \E m \in S : \A n \in S : <<m, n>> \notin R
  BY DEF CycleFree
<1>1. CASE S \cap M = {}
  <2>1. S = {x}  BY <1>1
  <2> QED BY <2>1
<1>2. CASE S \cap M # {}
  <2>1. PICK m \in S \cap M : \A n \in S \cap M : <<m, n>> \notin R  BY <1>2, Zenon DEF CycleFree
  <2> QED BY <2>1
<1> QED BY <1>1, <1>2

\* The loop enters helper on a subgraph that is not checked.
LEMMA EnterStep ==
  ASSUME PathInv, HelperEnter
  PROVE  PathInv'
<1>1. PICK m \in marks \ checked : path' = <<m>>  BY DEF HelperEnter
<1>2. UNCHANGED <<checked, marks, Waits>>  BY MarkingFixed DEF HelperEnter
<1>3. path' \in Seq(marks) /\ Len(path') = 1 /\ path'[1] = m  BY <1>1
<1> QED BY <1>2, <1>3 DEF PathInv

\* helper goes to a predecessor: on the path it closes a circle, else it joins the path.
LEMMA DescendStep ==
  ASSUME PathInv, HelperDescend
  PROVE  IF pc' = "fatal" THEN ~CycleFree(marks, Waits) ELSE PathInv'
<1> DEFINE x == Top(path)
<1>0. path # <<>> /\ path \in Seq(marks) /\ UNCHANGED <<checked, marks, Waits>> /\ pc = "validate"
  BY MarkingFixed DEF HelperDescend, PathInv
<1>1. PICK n \in predecessor(x) \ checked :
        IF n \in Range(path) THEN pc' = "fatal" /\ path' = path ELSE path' = Append(path, n) /\ pc' = pc
  BY DEF HelperDescend
<1>2. x = path[Len(path)] /\ Len(path) \in Nat \ {0} /\ x \in marks  BY <1>0, PushPop DEF Top
<1> HIDE DEF x
<1>3. n \in marks /\ <<x, n>> \in Waits  BY <1>2, WaitsPredecessor, Zenon
<1>4. CASE n \in Range(path)
  <2>1. PICK i \in 1 .. Len(path) : path[i] = n  BY <1>0, <1>4, RangeType
  <2> DEFINE S == {path[j] : j \in i .. Len(path)}
  <2>2. S \subseteq marks
    <3>1. \A j \in i .. Len(path) : j \in 1 .. Len(path)  BY <1>2
    <3> QED BY <1>0, <3>1
  <2>3. n \in S
    <3>1. i \in i .. Len(path)  BY <1>2
    <3> QED BY <2>1, <3>1
  <2>4. ASSUME NEW m \in S PROVE \E k \in S : <<m, k>> \in Waits
    <3>1. PICK j \in i .. Len(path) : m = path[j]  OBVIOUS
    <3>2. CASE j = Len(path)  BY <1>2, <1>3, <2>3, <3>1, <3>2, Zenon
    <3>3. CASE j # Len(path)
      <4>1. j + 1 \in i .. Len(path) /\ j \in 1 .. Len(path) /\ j < Len(path)  BY <1>2, <3>3
      <4>2. <<path[j], path[j + 1]>> \in Waits  BY <4>1, Zenon DEF PathInv
      <4> QED BY <3>1, <4>1, <4>2, Zenon
    <3> QED BY <3>2, <3>3, Zenon
  <2> HIDE DEF S
  <2>5. ~CycleFree(marks, Waits)  BY <2>2, <2>3, <2>4, Zenon DEF CycleFree
  <2> QED BY <1>1, <1>4, <2>5
<1>5. CASE n \notin Range(path)
  <2>1. path' = Append(path, n) /\ pc' # "fatal"  BY <1>0, <1>1, <1>5
  <2>2. path' \in Seq(marks) /\ Len(path') = Len(path) + 1 /\ path'[Len(path) + 1] = n
        /\ \A i \in 1 .. Len(path) : path'[i] = path[i]
    BY <1>0, <1>3, <2>1, AppendRange
  <2>3. \A i \in 1 .. Len(path) : path[i] # n  BY <1>0, <1>5, RangeType
  <2>4. \A i \in 1 .. Len(path') : i \in 1 .. Len(path) \/ i = Len(path) + 1  BY <1>2, <2>2
  <2>5. \A i \in 1 .. Len(path') : path'[i] \notin checked  BY <2>2, <2>4, Zenon DEF PathInv
  <2>6. \A i, j \in 1 .. Len(path') : path'[i] = path'[j] => i = j
    BY <2>2, <2>3, <2>4, Zenon DEF PathInv
  <2>7. ASSUME NEW i \in 1 .. Len(path'), i < Len(path') PROVE <<path'[i], path'[i + 1]>> \in Waits
    <3>1. i \in 1 .. Len(path) /\ path'[i] = path[i]  BY <1>2, <2>2, <2>4, <2>7
    <3>2. CASE i = Len(path)  BY <1>2, <1>3, <2>2, <3>1, <3>2
    <3>3. CASE i # Len(path)
      <4>1. i < Len(path) /\ i + 1 \in 1 .. Len(path)  BY <1>2, <3>1, <3>3
      <4>2. <<path[i], path[i + 1]>> \in Waits  BY <3>1, <4>1 DEF PathInv
      <4>3. path'[i + 1] = path[i + 1]  BY <2>2, <4>1
      <4> QED BY <3>1, <4>2, <4>3, Zenon
    <3> QED BY <3>2, <3>3
  <2>8. PathInv'  BY <1>0, <2>2, <2>5, <2>6, <2>7, Zenon DEF PathInv
  <2> QED BY <2>1, <2>8
<1> QED BY <1>4, <1>5

\* helper leaves a subgraph whose predecessors are all checked.
LEMMA LeaveStep ==
  ASSUME PathInv, HelperLeave
  PROVE  PathInv'
<1> DEFINE x == Top(path)
<1>0. path # <<>> /\ path \in Seq(marks) /\ UNCHANGED <<marks, Waits>>
      /\ checked' = checked \cup {x} /\ path' = Pop(path) /\ predecessor(x) \subseteq checked
  BY MarkingFixed DEF HelperLeave, PathInv
<1>1. x = path[Len(path)] /\ Len(path) \in Nat \ {0} /\ x \in marks  BY <1>0, PushPop DEF Top
<1>2. path' \in Seq(marks) /\ Len(path') = Len(path) - 1
      /\ \A i \in 1 .. Len(path) - 1 : path'[i] = path[i]
  BY <1>0, PushPop
<1> HIDE DEF x
<1>3. Len(path) \in 1 .. Len(path) /\ \A i \in 1 .. Len(path') : i \in 1 .. Len(path) /\ i # Len(path) /\ path'[i] = path[i]
  BY <1>1, <1>2
<1>4. x \notin checked  BY <1>1, <1>3, Zenon DEF PathInv
<1>5. \A i \in 1 .. Len(path') : path'[i] \notin checked'  BY <1>0, <1>1, <1>3 DEF PathInv
<1>6. \A i, j \in 1 .. Len(path') : path'[i] = path'[j] => i = j  BY <1>3 DEF PathInv
<1>7. ASSUME NEW i \in 1 .. Len(path'), i < Len(path') PROVE <<path'[i], path'[i + 1]>> \in Waits
  <2>1. i + 1 \in 1 .. Len(path') /\ i < Len(path)  BY <1>1, <1>2, <1>7
  <2> QED BY <1>3, <2>1, Zenon DEF PathInv
<1>8. \A m \in checked', n \in marks : <<m, n>> \in Waits => n \in checked'
  BY <1>0, <1>1, WaitsPredecessor DEF PathInv
<1>9. CycleFree(checked', Waits)
  <2>1. \A m \in checked : <<m, x>> \notin Waits  BY <1>1, <1>4 DEF PathInv
  <2>2. <<x, x>> \notin Waits  BY <1>1, WaitsPredecessor
  <2>3. CycleFree(checked, Waits)  BY DEF PathInv
  <2> QED BY <1>0, <1>4, <2>1, <2>2, <2>3, CycleFreeGrows
<1>10. checked' \subseteq marks  BY <1>0, <1>1 DEF PathInv
<1> QED BY <1>0, <1>2, <1>5, <1>6, <1>7, <1>8, <1>9, <1>10, Zenon DEF PathInv

\* Every step of add_task keeps ValidateInv.
LEMMA ValidateStep ==
  ASSUME ValidateInv, [Next]_vars
  PROVE  ValidateInv'
<1>1. CASE HelperEnter \/ HelperDescend \/ HelperLeave
  <2>1. UNCHANGED <<marks, Waits>> /\ pc = "validate" /\ PathInv /\ pc' \in {"validate", "fatal"}
    BY <1>1, MarkingFixed, Zenon DEF HelperEnter, HelperDescend, HelperLeave, ValidateInv
  <2>2. MarkedAll'  BY <2>1 DEF MarkedAll
  <2>3. CASE pc' = "fatal"
    <3>1. HelperDescend  BY <1>1, <2>1, <2>3 DEF HelperEnter, HelperLeave
    <3> QED BY <2>1, <2>2, <2>3, <3>1, DescendStep DEF ValidateInv
  <2>4. CASE pc' # "fatal"
    <3>1. PathInv'  BY <1>1, <2>1, <2>4, EnterStep, DescendStep, LeaveStep
    <3> QED BY <2>1, <2>2, <2>4, <3>1, Zenon DEF ValidateInv
  <2> QED BY <2>3, <2>4
<1>2. CASE ValidateDone
  <2>1. UNCHANGED <<marks, Waits>> /\ pc' = "split" /\ PathInv /\ marks \subseteq checked
    BY <1>2, MarkingFixed DEF ValidateDone, ValidateInv
  <2>2. checked = marks /\ CycleFree(checked, Waits)  BY <2>1, Zenon DEF PathInv
  <2>3. MarkedAll'  BY <2>1 DEF MarkedAll
  <2> QED BY <2>1, <2>2, <2>3 DEF ValidateInv
<1>3. CASE ~Validate
  <2>1. UNCHANGED <<validating, graph>>
    BY <1>3, GraphFixed, Zenon DEF Next, vars, Serialise, Mark, AddTask, SerialiseRoot, SerialiseInput,
     SerialiseReturn, GraphSerialised, SubgraphSerialised, MarkVisit, MarkEdge, MarkVisited,
     MarkSkip, MarkDone, BuildSubgraph, SplitDone, Call, OrderDone, Returned
  <2>2. UNCHANGED <<path, checked>>  BY <2>1 DEF validating
  <2>3. CASE MarkDone
    <3>1. path' = <<>> /\ checked' = {} /\ pc' = "validate"
      BY <2>2, <2>3 DEF ValidateInv, MarkDone, MarkedAll
    <3>2. PathInv'  BY <3>1 DEF PathInv, CycleFree
    <3>3. MarkedAll'  BY <3>1 DEF MarkedAll
    <3> QED BY <3>1, <3>2, <3>3 DEF ValidateInv
  <2>4. CASE ~MarkDone /\ MarkedAll'
    <3>1. MarkedAll /\ UNCHANGED <<marks, Waits>>  BY <2>1, <2>4, AfterMark, MarkingFixed
    <3>2. (pc' = "validate" => pc = "validate") /\ (pc' = "fatal" => pc = "fatal")
          /\ (pc' \notin {"validate", "fatal"} => pc \notin {"validate", "fatal"})
      BY <1>3, <2>4, Zenon DEF Next, vars, Serialise, Mark, AddTask, SerialiseRoot, SerialiseInput,
       SerialiseReturn, GraphSerialised, SubgraphSerialised, MarkVisit, MarkEdge, MarkVisited,
       MarkSkip, BuildSubgraph, SplitDone, Call, OrderDone, Returned
    <3>3. PathInv' <=> PathInv  BY <2>2, <3>1, Zenon DEF PathInv, CycleFree
    <3> QED BY <2>4, <3>1, <3>2, <3>3 DEF ValidateInv
  <2>5. CASE ~MarkedAll'
    <3>1. ~MarkedAll
      BY <1>3, <2>5, MarksReal, Zenon DEF Next, vars, Serialise, Mark, AddTask, SerialiseRoot, SerialiseInput,
       SerialiseReturn, GraphSerialised, SubgraphSerialised, MarkVisit, MarkEdge, MarkVisited,
       MarkSkip, MarkDone, BuildSubgraph, SplitDone, Call, OrderDone, Returned, MarkedAll, serialising
    <3>2. pc' \notin {"validate", "fatal"}  BY <2>5 DEF MarkedAll
    <3> QED BY <2>2, <2>5, <3>1, <3>2 DEF ValidateInv
  <2> QED BY <2>3, <2>4, <2>5
<1> QED BY <1>1, <1>2, <1>3 DEF Validate

\* The answer of validate_subgraph_dependency is exact.
LEMMA Validated == ValidateInv => ValidationExact
  BY CircularIs DEF ValidateInv, ValidationExact

-----------------------------------------------------------------------------
(* Subgraphs of the default policy                                           *)

\* A set of naturals has a least element.
LEMMA LeastNumber ==
  ASSUME NEW T, T \subseteq Nat, T # {}
  PROVE  \E x \in T : \A y \in T : x <= y
<1> DEFINE R == {ss \in Nat \X Nat : ss[1] < ss[2]}
<1>1. IsWellFoundedOn(R, Nat)
  BY NatLessThanWellFounded, Zenon DEF OpToRel
<1> HIDE DEF R
<1>2. PICK x \in T : \A y \in T : ~(<<y, x>> \in R)
  BY <1>1, WFMin, Zenon
<1>3. ASSUME NEW y \in T PROVE x <= y
  <2>1. x \in Nat /\ y \in Nat  OBVIOUS
  <2>2. ~(y < x)  BY <1>2, <2>1, Zenon DEF R
  <2> QED BY <2>1, <2>2
<1> QED BY <1>3

\* A set of operations has a last one.
LEMMA LargestOp ==
  ASSUME NEW T, T \subseteq Ops, T # {}
  PROVE  \E x \in T : \A y \in T : y <= x
<1> DEFINE U == {NOps - x : x \in T}
<1>0. NOps \in Nat  BY PartitionAssumption
<1>1. U \subseteq Nat /\ U # {}
  <2>1. ASSUME NEW x \in T PROVE NOps - x \in Nat  BY <1>0 DEF Ops
  <2> QED BY <2>1
<1> HIDE DEF U
<1>2. PICK u \in U : \A v \in U : u <= v  BY <1>1, LeastNumber, Zenon
<1>3. PICK x \in T : u = NOps - x  BY DEF U
<1>4. ASSUME NEW y \in T PROVE y <= x
  <2>1. NOps - y \in U  BY DEF U
  <2>2. NOps - x <= NOps - y  BY <1>2, <1>3, <2>1, Zenon
  <2> QED BY <1>0, <2>2 DEF Ops
<1> QED BY <1>4

\* The operation of a subgraph that no other one of it consumes.
IsTop(m, r) == r \in Members(m) /\ \A a \in Members(m) : a <= r

\* What the walk has established when mark_graph returns, with the default policy.
Fusion == StateType /\ DagInv /\ ComponentInv /\ ~user /\ MarkedAll

\* A fused operation has one consumer, in its own subgraph.
LEMMA OneConsumer ==
  ASSUME Fusion, NEW a \in Ops, NEW c, Fused(a, c)
  PROVE  /\ c \in Ops /\ mark[c] = mark[a] /\ a < c
         /\ role[a] = "none"
         /\ \A d \in Range(list) : a \in Range(inputs[d]) => d = c
<1>0. GraphType /\ ListType /\ DagInv /\ GraphDone /\ Range(list) \subseteq Ops
  BY RangeType DEF Fusion, StateType, ListType, GraphDone, MarkedAll
<1>1. c \in Range(list) /\ c \in Ops /\ a \in Range(inputs[c]) /\ role[a] = "none" /\ ~(Len(down[a]) > 1)
  BY <1>0 DEF Fused, DefaultPolicy
<1>2. mark[c] = mark[a]
  <2>1. MarksAreComponents  BY ComponentsMarked DEF Fusion
  <2> QED BY <1>1, <2>1, Zenon DEF MarksAreComponents, Fusion
<1>3. a < c  BY <1>0, <1>1 DEF GraphType
<1>4. ASSUME NEW d \in Range(list), a \in Range(inputs[d]) PROVE d = c
  <2>1. c \in Range(down[a]) /\ d \in Range(down[a])  BY <1>0, <1>1, <1>4, Zenon DEF DagInv
  <2>2. down[a] \in Seq(Ops) /\ Len(down[a]) \in Nat  BY <1>0 DEF ListType
  <2>3. PICK i \in 1 .. Len(down[a]) : down[a][i] = c  BY <2>1, <2>2, RangeType, Zenon
  <2>4. PICK j \in 1 .. Len(down[a]) : down[a][j] = d  BY <2>1, <2>2, RangeType, Zenon
  <2>5. i = j  BY <1>1, <2>2
  <2> QED BY <2>3, <2>4, <2>5
<1> QED BY <1>1, <1>2, <1>3, <1>4

\* Every operation of a subgraph but one is fused to its consumer there: the walk
\* reaches it from the top through consumers only.
LEMMA RestIsFused ==
  ASSUME Fusion, NEW m \in marks, NEW r, IsTop(m, r), NEW a \in Members(m), a # r
  PROVE  \E c \in Members(m) : Fused(a, c)
<1> DEFINE M == Members(m)
           Closed(C) == r \in C /\ \A x, c \in M : Fused(x, c) /\ c \in C => x \in C
           D == {x \in M : \A C \in SUBSET M : Closed(C) => x \in C}
<1>0. M \subseteq Ops /\ r \in M /\ \A x \in M : x <= r  BY DEF Members, IsTop
<1>1. ASSUME NEW x \in M, NEW c, Fused(x, c) PROVE c \in M /\ x < c
  BY <1>0, <1>1, OneConsumer DEF Members
<1>2. \A c : ~Fused(r, c)
  <2> SUFFICES ASSUME NEW c, Fused(r, c) PROVE FALSE
    OBVIOUS
  <2>1. c \in M /\ r < c  BY <1>0, <1>1
  <2>2. c <= r /\ c \in Ops /\ r \in Ops  BY <1>0, <2>1
  <2> QED BY <2>1, <2>2, PartitionAssumption DEF Ops
<1> HIDE DEF M
<1>3. D \subseteq M /\ Closed(D)  BY <1>0
<1>4. \A C \in SUBSET M : Closed(C) => D \subseteq C  OBVIOUS
<1> HIDE DEF D
<1>5. D = M
  <2> SUFFICES ASSUME D # M PROVE FALSE
    OBVIOUS
  <2>1. Linked(M, Adjacency)  BY DEF Fusion, ComponentInv, M
  <2>2. PICK x \in D, b \in M \ D : <<x, b>> \in Adjacency
    BY <1>3, <2>1, Zenon DEF Linked
  <2>3. x \in M /\ ~Fused(b, x)  BY <1>3, <2>2
  <2>4. Fused(x, b)  BY <2>2, <2>3 DEF Adjacency
  <2>5. x # r  BY <1>2, <2>4
  <2>6. ASSUME NEW y \in M, NEW c \in D \ {x}, Fused(y, c) PROVE y \in D \ {x}
    <3>1. y \in D  BY <1>3, <2>6
    <3>2. y # x
      <4> SUFFICES ASSUME y = x PROVE FALSE
        OBVIOUS
      <4>1. b \in Range(list) /\ x \in Range(inputs[b])  BY <2>4 DEF Fused
      <4>2. b = c  BY <1>0, <2>3, <2>6, <4>1, OneConsumer
      <4> QED BY <4>2
    <3> QED BY <3>1, <3>2
  <2>7. Closed(D \ {x})  BY <1>3, <2>5, <2>6
  <2> QED BY <1>3, <1>4, <2>7, Zenon
<1>6. \E c : Fused(a, c)
  <2> SUFFICES ASSUME \A c : ~Fused(a, c) PROVE FALSE
    OBVIOUS
  <2>1. Closed(D \ {a})  BY <1>3
  <2>2. D \subseteq D \ {a}  BY <1>3, <1>4, <2>1, Zenon
  <2> QED BY <1>5, <2>2 DEF M
<1> QED BY <1>1, <1>6 DEF M

\* A subgraph has a top.
LEMMA HasTop ==
  ASSUME Fusion, NEW m \in marks
  PROVE  \E r \in Ops : IsTop(m, r)
<1>1. Members(m) # {} /\ Members(m) \subseteq Ops  BY Zenon DEF marks, Members, Marked
<1> QED BY <1>1, LargestOp DEF IsTop

\* A subgraph that reads another one reads its top, which is below its own top.
LEMMA TopsDescend ==
  ASSUME Fusion, NEW m \in marks, NEW n \in marks, Depends(m, n),
         NEW r \in Ops, IsTop(m, r), NEW s \in Ops, IsTop(n, s)
  PROVE  s < r
<1>0. PICK op \in Members(m) : m # n /\ \E t \in Range(inputs[op]) : mark[t] = n  BY DEF Depends
<1>1. PICK t \in Range(inputs[op]) : mark[t] = n /\ m # n  BY <1>0
<1>2. GraphType /\ op \in Ops /\ mark[op] = m  BY Zenon DEF Fusion, StateType, Members
<1>3. t \in Ops /\ t < op
  <2>1. inputs[op] \in Seq(Ops) /\ t < op  BY <1>2, Zenon DEF GraphType
  <2> QED BY <2>1, RangeType, Zenon
<1>4. t \in Members(n)  BY <1>1, <1>3 DEF Members
<1>5. op \in Range(list)
  <2>1. Marked = Range(list)  BY DEF Fusion, ComponentInv
  <2> QED BY <1>2, <2>1, MarksReal DEF Marked, Whole
<1>6. t = s
  <2> SUFFICES ASSUME t # s PROVE FALSE
    OBVIOUS
  <2>1. PICK c \in Members(n) : Fused(t, c)  BY <1>4, RestIsFused
  <2>2. op = c  BY <1>1, <1>3, <1>5, <2>1, OneConsumer
  <2> QED BY <1>1, <1>2, <2>1, <2>2, Zenon DEF Members
<1>7. op <= r  BY DEF IsTop
<1> QED BY <1>2, <1>3, <1>6, <1>7, PartitionAssumption DEF Ops

\* Subgraphs of the default policy never wait for each other: of a set of them the
\* one with the lowest top waits for no other.
LEMMA FusionIsCycleFree ==
  ASSUME Fusion
  PROVE  CycleFree(marks, Waits)
<1> SUFFICES ASSUME NEW S \in SUBSET marks, S # {}
             PROVE  \E m \in S : \A n \in S : <<m, n>> \notin Waits
  BY DEF CycleFree
<1> DEFINE T == {r \in Ops : \E m \in S : IsTop(m, r)}
<1>1. T \subseteq Nat  BY PartitionAssumption DEF Ops
<1>2. T # {}  BY HasTop
<1> HIDE DEF T
<1>3. PICK r \in T : \A s \in T : r <= s  BY <1>1, <1>2, LeastNumber, Zenon
<1>4. PICK m \in S : IsTop(m, r) /\ r \in Ops  BY DEF T
<1>5. ASSUME NEW n \in S, <<m, n>> \in Waits PROVE FALSE
  <2>1. Depends(m, n)  BY <1>5 DEF Waits
  <2>2. PICK s \in Ops : IsTop(n, s)  BY HasTop
  <2>3. s < r  BY <1>4, <2>1, <2>2, TopsDescend
  <2>4. r <= s  BY <1>3, <2>2 DEF T
  <2> QED BY <1>1, <1>3, <2>3, <2>4, <2>2, PartitionAssumption DEF Ops
<1> QED BY <1>5

-----------------------------------------------------------------------------
(* The split                                                                 *)

\* The subgraphs built so far have all their operations.
SplitInv ==
  /\ ~MarkedAll => subgraphs = <<>>
  /\ MarkedAll /\ pc = "serialise" => at \in marks
  /\ pc \in {"order", "ready"} => marks \subseteq DOMAIN subgraphs
  /\ ~user /\ MarkedAll => \A m \in DOMAIN subgraphs : subgraphs[m] = Members(m)

\* The last category of a graph with a single root has that root.
LEMMA LoneRoot ==
  ASSUME NEW roles, NEW r \in Ops, \E x \in Range(RoleOrder) : x \in roles[r],
         \A op \in Ops : op # r => \A x \in Range(RoleOrder) : x \notin roles[op]
  PROVE  r \in Finalized(roles)
<1>1. DOMAIN RoleOrder = 1 .. 4 /\ Len(RoleOrder) = 4  BY DEF RoleOrder
<1> DEFINE Last(i) == RoleOrder[i] \in roles[r] /\ \A j \in i + 1 .. 4 : RoleOrder[j] \notin roles[r]
<1>2. \E i \in 1 .. 4 : Last(i)
  <2>1. \E i \in 1 .. 4 : RoleOrder[i] \in roles[r]  BY <1>1 DEF Range
  <2>0. \A i \in 1 .. 4 : i = 1 \/ i = 2 \/ i = 3 \/ i = 4  OBVIOUS
  <2>2. CASE RoleOrder[4] \in roles[r]  BY <2>2
  <2>3. CASE RoleOrder[4] \notin roles[r] /\ RoleOrder[3] \in roles[r]  BY <2>3
  <2>4. CASE RoleOrder[4] \notin roles[r] /\ RoleOrder[3] \notin roles[r] /\ RoleOrder[2] \in roles[r]
    BY <2>4
  <2>5. CASE RoleOrder[4] \notin roles[r] /\ RoleOrder[3] \notin roles[r] /\ RoleOrder[2] \notin roles[r]
             /\ RoleOrder[1] \in roles[r]
    BY <2>5
  <2> HIDE DEF Last
  <2> QED BY <2>0, <2>1, <2>2, <2>3, <2>4, <2>5, Zenon
<1>3. PICK i \in 1 .. 4 : Last(i)  BY <1>2, Zenon
<1>4. \A j \in i + 1 .. 4 : RoleOrder[j] \in Range(RoleOrder)
  BY <1>1 DEF Range
<1>5. \A j \in i + 1 .. Len(RoleOrder), o \in Ops : RoleOrder[j] \notin roles[o]
  BY <1>1, <1>3, <1>4, Zenon
<1> QED BY <1>1, <1>3, <1>5, Zenon DEF Finalized

\* The top of a subgraph is the one root of its TIRGraph.
LEMMA TopIsRoot ==
  ASSUME Fusion, NEW m \in marks, NEW r \in Ops, IsTop(m, r)
  PROVE  r \in FinalOf(m)
<1> DEFINE roles == SubgraphRole(m)
<1>0. GraphType /\ DagInv /\ GraphDone /\ Marked = Range(list) /\ r \in Members(m) /\ m # Whole
  BY MarksReal DEF Fusion, StateType, ComponentInv, GraphDone, MarkedAll, IsTop
<1>1. "output" \in Range(RoleOrder) /\ "none" \notin Range(RoleOrder)  BY DEF Range, RoleOrder
<1>2. \E x \in Range(RoleOrder) : x \in roles[r]
  <2>1. CASE role[r] # "none"
    <3>1. role[r] \in Range(RoleOrder)  BY <1>0, <2>1, Zenon DEF GraphType
    <3> QED BY <1>0, <3>1 DEF SubgraphRole
  <2>2. CASE role[r] = "none"
    <3>1. r \in Range(list)  BY <1>0 DEF Marked, Members, Whole
    <3>2. PICK c \in Range(list) : r \in Range(inputs[c])  BY <1>0, <2>2, <3>1, Zenon DEF DagInv
    <3>3. c \in Marked /\ c \in Ops  BY <1>0 DEF Marked
    <3>4. r < c  BY <1>0, <3>2, <3>3, Zenon DEF GraphType
    <3>5. c \notin Members(m)
      <4> SUFFICES ASSUME c \in Members(m) PROVE FALSE
        OBVIOUS
      <4>1. c <= r  BY DEF IsTop
      <4> QED BY <3>3, <3>4, <4>1, PartitionAssumption DEF Ops
    <3>6. "output" \in roles[r]  BY <1>0, <3>2, <3>3, <3>5, Zenon DEF SubgraphRole
    <3> QED BY <1>1, <3>6, Zenon
  <2> QED BY <2>1, <2>2
<1>3. ASSUME NEW op \in Ops, op # r, NEW x \in Range(RoleOrder) PROVE x \notin roles[op]
  <2>1. CASE op \notin Members(m)  BY <2>1 DEF SubgraphRole
  <2>2. CASE op \in Members(m)
    <3>1. PICK c \in Members(m) : Fused(op, c)  BY <1>3, <2>2, RestIsFused
    <3>2. role[op] = "none" /\ \A d \in Range(list) : op \in Range(inputs[d]) => d = c
      BY <3>1, OneConsumer
    <3>3. ~\E d \in Marked \ Members(m) : op \in Range(inputs[d])  BY <1>0, <3>2, Zenon
    <3>4. roles[op] = {"none"}  BY <2>2, <3>2, <3>3, Zenon DEF SubgraphRole
    <3> QED BY <1>1, <3>4, Zenon
  <2> QED BY <2>1, <2>2, Zenon
<1> HIDE DEF roles
<1>4. r \in Finalized(roles)  BY <1>2, <1>3, LoneRoot, Zenon
<1> QED BY <1>0, <1>4 DEF FinalOf, roles

\* A list that is closed under the inputs of the subgraph and holds its top holds
\* all of it.
LEMMA NothingLost ==
  ASSUME Fusion, at \in marks, Serialised, frames = <<>>, roots = {}
  PROVE  Range(ret) = Members(at)
<1>0. at # Whole /\ Seen = Range(ret)  BY MarksReal, EmptyRange DEF Seen
<1>1. Range(ret) \subseteq Members(at)  BY <1>0, Zenon DEF Serialised
<1>2. PICK r \in Ops : IsTop(at, r)  BY HasTop
<1>3. r \in Range(ret)  BY <1>0, <1>2, TopIsRoot, Zenon DEF Serialised
<1>4. ASSUME Members(at) \ Range(ret) # {} PROVE FALSE
  <2>1. Members(at) \ Range(ret) \subseteq Ops  BY DEF Members
  <2>2. PICK a \in Members(at) \ Range(ret) : \A y \in Members(at) \ Range(ret) : y <= a
    BY <1>4, <2>1, LargestOp, Zenon
  <2>3. PICK c \in Members(at) : Fused(a, c)  BY <1>2, <1>3, <2>2, RestIsFused
  <2>4. a < c /\ a \in Ops /\ c \in Ops  BY <2>1, <2>3, OneConsumer, Zenon
  <2>5. c \in Range(ret)
    <3> SUFFICES ASSUME c \notin Range(ret) PROVE FALSE
      OBVIOUS
    <3>1. c <= a  BY <2>2
    <3> QED BY <2>4, <3>1, PartitionAssumption DEF Ops
  <2>6. a \in Range(inputs[c]) /\ InGraph(a)  BY <2>3, Zenon DEF Fused, InGraph, Members
  <2> QED BY <2>2, <2>5, <2>6, Zenon DEF Serialised
<1> QED BY <1>1, <1>4, Zenon

\* mark_graph is run once.
LEMMA MarkedStays == MarkedAll /\ [Next]_vars => MarkedAll'
<1> SUFFICES ASSUME MarkedAll, [Next]_vars PROVE MarkedAll'
  OBVIOUS
<1>1. CASE BuildSubgraph  BY <1>1, MarksReal, Zenon DEF BuildSubgraph, MarkedAll
<1>2. CASE ~BuildSubgraph
  BY <1>2, Zenon DEF MarkedAll, Next, vars, Serialise, Mark, Validate, AddTask, SerialiseRoot, SerialiseInput,
     SerialiseReturn, GraphSerialised, SubgraphSerialised, MarkVisit, MarkEdge, MarkVisited,
     MarkSkip, MarkDone, HelperEnter, HelperDescend, HelperLeave, ValidateDone,
     SplitDone, Call, OrderDone, Returned, serialising
<1> QED BY <1>1, <1>2

\* Every step of add_task keeps SplitInv.
LEMMA SplitStep ==
  ASSUME MarkBase, ComponentInv, SplitInv, [Next]_vars
  PROVE  SplitInv'
<1>1. CASE ~MarkedAll'
  <2>1. ~MarkedAll /\ pc' \notin {"order", "ready"}  BY <1>1, MarkedStays DEF MarkedAll
  <2>2. UNCHANGED subgraphs
    <3>1. ~SubgraphSerialised  BY <2>1 DEF SubgraphSerialised, MarkedAll
    <3> QED
      BY <3>1, Zenon DEF Next, vars, Serialise, Mark, Validate, AddTask, SerialiseRoot, SerialiseInput,
       SerialiseReturn, GraphSerialised, MarkVisit, MarkEdge, MarkVisited,
       MarkSkip, MarkDone, HelperEnter, HelperDescend, HelperLeave, ValidateDone, BuildSubgraph,
       SplitDone, Call, OrderDone, Returned
  <2> QED BY <1>1, <2>1, <2>2 DEF SplitInv
<1>2. CASE MarkedAll' /\ MarkDone
  <2>1. subgraphs' = <<>> /\ pc' = "validate"  BY <1>2 DEF MarkDone, SplitInv, MarkedAll
  <2> QED BY <1>2, <2>1 DEF SplitInv
<1>3. CASE MarkedAll' /\ ~MarkDone
  <2>1. MarkedAll /\ UNCHANGED <<graph, marks>> /\ \A m : Members(m)' = Members(m)
    BY <1>3, AfterMark, MarkingFixed
  <2>2. UNCHANGED user  BY <2>1 DEF graph
  <2>3. CASE SubgraphSerialised
    <3>1. pc = "serialise" /\ pc' = "split" /\ frames = <<>> /\ roots = {} /\ at \in marks
          /\ subgraphs' = [m \in DOMAIN subgraphs \cup {at} |-> IF m = at THEN Range(ret) ELSE subgraphs[m]]
      BY <2>1, <2>3, Zenon DEF SubgraphSerialised, SplitInv
    <3>2. ~user => Range(ret) = Members(at)
      BY <2>1, <3>1, NothingLost, Zenon DEF Fusion, MarkBase, SerialiseInv
    <3> QED BY <1>3, <2>1, <2>2, <3>1, <3>2, Zenon DEF SplitInv
  <2>4. CASE BuildSubgraph
    <3>1. pc' = "serialise" /\ at' \in marks /\ UNCHANGED subgraphs  BY <2>4 DEF BuildSubgraph
    <3> QED BY <1>3, <2>1, <2>2, <3>1 DEF SplitInv
  <2>5. CASE SplitDone
    <3>1. pc' = "order" /\ marks \subseteq DOMAIN subgraphs /\ UNCHANGED subgraphs  BY <2>5 DEF SplitDone
    <3> QED BY <1>3, <2>1, <2>2, <3>1 DEF SplitInv
  <2>6. CASE ~SubgraphSerialised /\ ~BuildSubgraph /\ ~SplitDone
    <3>1. /\ UNCHANGED subgraphs
          /\ pc' = "serialise" => pc = "serialise" /\ UNCHANGED at
          /\ pc' \in {"order", "ready"} => pc \in {"order", "ready"}
      BY <1>3, <2>6, Zenon DEF Next, vars, Serialise, Mark, Validate, AddTask, SerialiseRoot,
         SerialiseInput, SerialiseReturn, GraphSerialised, MarkVisit, MarkEdge, MarkVisited,
         MarkSkip, HelperEnter, HelperDescend, HelperLeave, ValidateDone, Call, OrderDone, Returned,
         serialising
    <3> QED BY <1>3, <2>1, <2>2, <3>1 DEF SplitInv
  <2> QED BY <2>3, <2>4, <2>5, <2>6
<1> QED BY <1>1, <1>2, <1>3

\* A split that has ended has lost no operation.
LEMMA SplitComplete == SplitInv => SubgraphsComplete
  BY DEF SplitInv, SubgraphsComplete, MarkedAll

-----------------------------------------------------------------------------
(* What bounds the loops                                                     *)

\* No element comes twice in s.
Distinct(s) == \A i, j \in 1 .. Len(s) : s[i] = s[j] => i = j

\* helper of serialize_compute_dag appends an operation once, and the calls that
\* are not done are of operations it has not appended, none of them twice.
CallsOnce ==
  /\ Distinct(ret) /\ \A i \in 1 .. Len(frames) : frames[i] \notin Range(ret)
  /\ \A i, j \in 1 .. Len(frames) : i < j => frames[j] < frames[i]

\* A producer has each of its consumers once, and they come after it.
EdgesOnce(f) == \A t \in Ops : Distinct(f[t]) /\ \A c \in Range(f[t]) : t < c

\* Why the loops of add_task are bounded: the lists hold nothing twice, mark_graph
\* asks about the edges of an operation that it has not visited, and a subgraph
\* is serialised that has not been.
BoundInv ==
  /\ \A op \in Ops : Distinct(inputs[op])
  /\ CallsOnce /\ EdgesOnce(feeds) /\ EdgesOnce(down)
  /\ pc = "serialise" /\ at # Whole => at \notin DOMAIN subgraphs
  /\ pc = "edges" => cur \notin visited /\ edge <= Len(Neighbours(cur)) + 1

\* One more element that is not in s yet.
LEMMA DistinctGrows ==
  ASSUME NEW S, NEW s \in Seq(S), Distinct(s), NEW x \in S, x \notin Range(s)
  PROVE  Distinct(Append(s, x))
<1>1. /\ Len(Append(s, x)) = Len(s) + 1 /\ Len(s) \in Nat
      /\ \A i \in 1 .. Len(s) : Append(s, x)[i] = s[i] /\ s[i] # x
      /\ Append(s, x)[Len(s) + 1] = x
  <2>1. \A i \in 1 .. Len(s) : s[i] # x  BY RangeType, Zenon
  <2>2. /\ Len(Append(s, x)) = Len(s) + 1 /\ Len(s) \in Nat /\ Append(s, x)[Len(s) + 1] = x
        /\ \A i \in 1 .. Len(s) : Append(s, x)[i] = s[i]
    OBVIOUS
  <2> QED BY <2>1, <2>2, Zenon
<1>2. \A i \in 1 .. Len(s) + 1 : i \in 1 .. Len(s) \/ i = Len(s) + 1  BY <1>1
<1> QED BY <1>1, <1>2, Zenon DEF Distinct

\* Nothing has been walked.
LEMMA NothingTwice == Distinct(<<>>) /\ EdgesOnce([op \in Ops |-> <<>>])
<1>1. Distinct(<<>>)  BY DEF Distinct
<1> QED BY <1>1, EmptyRange DEF EdgesOnce

\* add_task starts in BoundInv.
LEMMA BoundInit == Init => BoundInv
<1> SUFFICES ASSUME Init PROVE BoundInv  OBVIOUS
<1>1. ASSUME NEW op \in Ops PROVE Distinct(inputs[op])
  <2>1. inputs[op] \in InputLists  BY Zenon DEF Init
  <2>2. PICK n \in 0 .. NOps : inputs[op] \in [1 .. n -> Ops]  BY <2>1 DEF InputLists
  <2>3. \A i, j \in 1 .. n : i < j => inputs[op][i] < inputs[op][j]  BY <2>1, <2>2 DEF InputLists
  <2>4. Len(inputs[op]) = n /\ n \in Nat  BY <2>2, PartitionAssumption
  <2>5. \A i \in 1 .. n : inputs[op][i] \in Int  BY <2>2, PartitionAssumption DEF Ops
  <2> QED BY <2>3, <2>4, <2>5 DEF Distinct
<1>2. /\ frames = <<>> /\ ret = <<>> /\ feeds = [op \in Ops |-> <<>>] /\ down = feeds
      /\ pc = "serialise" /\ at = Whole
  BY Zenon DEF Init
<1>3. CallsOnce  BY <1>2, NothingTwice DEF CallsOnce
<1> QED BY <1>1, <1>2, <1>3, NothingTwice, Zenon DEF BoundInv

\* The steps of serialize_compute_dag.
LEMMA CallsStep ==
  ASSUME StateType, CallsOnce, SerialiseRoot \/ SerialiseInput \/ SerialiseReturn
  PROVE  CallsOnce'
<1>0. /\ frames \in Seq(Ops) /\ ret \in Seq(Ops) /\ Len(frames) \in Nat
      /\ inputs \in [Ops -> Seq(Ops)] /\ \A op \in Ops : \A t \in Range(inputs[op]) : t < op
  BY RangeType, Zenon DEF StateType, SerialiseType, GraphType
<1>1. CASE SerialiseRoot
  <2>1. PICK r \in roots : frames' = IF r \in Range(ret) THEN <<>> ELSE <<r>>
    BY <1>1, Zenon DEF SerialiseRoot
  <2>2. ret' = ret  BY <1>1, Zenon DEF SerialiseRoot
  <2>3. Len(<<>>) = 0 /\ Len(<<r>>) = 1 /\ <<r>>[1] = r  OBVIOUS
  <2>4. CASE r \in Range(ret)
    <3>1. Len(frames') = 0  BY <2>1, <2>3, <2>4, Zenon
    <3>2. 1 .. Len(frames') = {}  BY <3>1
    <3> QED BY <2>2, <3>2, Zenon DEF CallsOnce
  <2>5. CASE r \notin Range(ret)
    <3>1. Len(frames') = 1 /\ frames'[1] = r  BY <2>1, <2>3, <2>5, Zenon
    <3>2. 1 .. Len(frames') = {1} /\ ~(1 < 1)  BY <3>1
    <3> QED BY <2>2, <2>5, <3>1, <3>2, Zenon DEF CallsOnce
  <2> QED BY <2>4, <2>5, Zenon
<1>2. CASE SerialiseInput
  <2> DEFINE op == Top(frames)
  <2>0. frames # <<>>  BY <1>2, Zenon DEF SerialiseInput
  <2>1. PICK i \in Left(op) :
          \/ UNCHANGED frames
          \/ inputs[op][i] \notin Range(ret) /\ frames' = Append(frames, inputs[op][i])
    BY <1>2, Zenon DEF SerialiseInput
  <2>2. ret' = ret  BY <1>2, Zenon DEF SerialiseInput
  <2>3. CASE UNCHANGED frames  BY <2>2, <2>3, Zenon DEF CallsOnce
  <2> DEFINE t == inputs[op][i]
  <2>4. CASE t \notin Range(ret) /\ frames' = Append(frames, t)
    <3>1. op \in Ops /\ op = frames[Len(frames)] /\ Len(frames) \in Nat \ {0}
      BY <1>0, <2>0, PushPop, Zenon DEF Top
    <3>2. i \in DOMAIN inputs[op]  BY <2>1, Zenon DEF Left
    <3>3. t \in Range(inputs[op]) /\ t \in Ops
      <4>1. inputs[op] \in Seq(Ops)  BY <1>0, <3>1, Zenon
      <4>2. t \in Range(inputs[op])  BY <3>2, Zenon DEF Range
      <4> QED BY <4>1, <4>2, RangeType, Zenon
    <3>4. t < op  BY <1>0, <3>1, <3>3, Zenon
    <3> HIDE DEF op, t
    <3>5. /\ Len(frames') = Len(frames) + 1
          /\ \A k \in 1 .. Len(frames) : frames'[k] = frames[k]
          /\ frames'[Len(frames) + 1] = t
      BY <1>0, <2>4, <3>3, AppendRange
    <3>6. \A k \in 1 .. Len(frames') : k \in 1 .. Len(frames) \/ k = Len(frames) + 1
      BY <1>0, <3>5
    <3>7. \A k \in 1 .. Len(frames') : frames'[k] \notin Range(ret)
      BY <2>4, <3>5, <3>6, Zenon DEF CallsOnce
    <3>8. \A k \in 1 .. Len(frames) : t < frames[k]
      <4> TAKE k \in 1 .. Len(frames)
      <4>1. k = Len(frames) \/ k < Len(frames)  BY <1>0
      <4>2. Len(frames) \in 1 .. Len(frames)  BY <3>1
      <4>3. frames[k] \in Ops  BY <1>0
      <4>4. CASE k < Len(frames)
        <5>1. op < frames[k]  BY <3>1, <4>2, <4>4, Zenon DEF CallsOnce
        <5> QED BY <3>1, <3>3, <3>4, <4>3, <5>1, PartitionAssumption DEF Ops
      <4> QED BY <3>1, <3>4, <4>1, <4>4, Zenon
    <3>9. ASSUME NEW k \in 1 .. Len(frames'), NEW l \in 1 .. Len(frames'), k < l
          PROVE  frames'[l] < frames'[k]
      <4>1. k \in 1 .. Len(frames)  BY <1>0, <3>5, <3>9
      <4>2. CASE l = Len(frames) + 1  BY <3>5, <3>8, <4>1, <4>2, Zenon
      <4>3. CASE l \in 1 .. Len(frames)  BY <3>5, <3>9, <4>1, <4>3, Zenon DEF CallsOnce
      <4> QED BY <3>6, <4>2, <4>3, Zenon
    <3> QED BY <2>2, <3>7, <3>9, Zenon DEF CallsOnce
  <2> QED BY <2>1, <2>3, <2>4, Zenon
<1>3. CASE SerialiseReturn
  <2> DEFINE op == Top(frames)
  <2>1. frames # <<>> /\ ret' = Append(ret, op) /\ frames' = Pop(frames)
    BY <1>3, Zenon DEF SerialiseReturn
  <2>2. /\ op \in Ops /\ op = frames[Len(frames)] /\ Len(frames) \in Nat \ {0}
        /\ Len(frames') = Len(frames) - 1 /\ \A i \in 1 .. Len(frames) - 1 : frames'[i] = frames[i]
    <3>1. op \in Ops /\ op = frames[Len(frames)]  BY <1>0, <2>1, PushPop, Zenon DEF Top
    <3>2. /\ Len(frames) \in Nat \ {0} /\ Len(Pop(frames)) = Len(frames) - 1
          /\ \A i \in 1 .. Len(frames) - 1 : Pop(frames)[i] = frames[i]
      BY <1>0, <2>1, PushPop, Zenon
    <3> QED BY <2>1, <3>1, <3>2, Zenon
  <2> HIDE DEF op
  <2>3. Len(frames) \in 1 .. Len(frames)  BY <2>2
  <2>4. op \notin Range(ret)  BY <2>2, <2>3, Zenon DEF CallsOnce
  <2>5. Distinct(ret')  BY <1>0, <2>1, <2>2, <2>4, DistinctGrows, Zenon DEF CallsOnce
  <2>6. Range(ret') = Range(ret) \cup {op}
    <3>1. ret \in Seq(Ops) /\ op \in Ops /\ ret' = Append(ret, op)  BY <1>0, <2>1, <2>2, Zenon
    <3> QED BY <3>1, Appended, Zenon
  <2>7. \A i \in 1 .. Len(frames') : i \in 1 .. Len(frames) /\ i < Len(frames) /\ i \in 1 .. Len(frames) - 1
    BY <2>2
  <2>8. \A i \in 1 .. Len(frames) : frames[i] \in Int  BY <1>0, PartitionAssumption DEF Ops
  <2>9. \A x \in Int : ~(x < x)  OBVIOUS
  <2>10. \A i \in 1 .. Len(frames') : frames'[i] # op
    BY <2>2, <2>3, <2>7, <2>8, <2>9, Zenon DEF CallsOnce
  <2>11. \A i \in 1 .. Len(frames') : frames'[i] \notin Range(ret')
    BY <2>2, <2>6, <2>7, <2>10, Zenon DEF CallsOnce
  <2>12. \A i, j \in 1 .. Len(frames') : i < j => frames'[j] < frames'[i]
    BY <2>2, <2>7, Zenon DEF CallsOnce
  <2> QED BY <2>5, <2>11, <2>12, Zenon DEF CallsOnce
<1> QED BY <1>1, <1>2, <1>3, Zenon

\* helper passes over an input that has the consumer already, so that it gets
\* that consumer once.
LEMMA EdgesStep ==
  ASSUME StateType, EdgesOnce(feeds), SerialiseInput
  PROVE  EdgesOnce(feeds)'
<1>0. /\ frames \in Seq(Ops) /\ feeds \in [Ops -> Seq(Ops)]
      /\ inputs \in [Ops -> Seq(Ops)] /\ \A o \in Ops : \A t \in Range(inputs[o]) : t < o
  BY Zenon DEF StateType, SerialiseType, GraphType
<1> DEFINE op == Top(frames)
<1>1. PICK i \in Left(op) :
        UNCHANGED feeds \/ feeds' = [feeds EXCEPT ![inputs[op][i]] = Append(@, op)]
  BY Zenon DEF SerialiseInput
<1>2. op \in Ops
  <2>1. frames # <<>>  BY Zenon DEF SerialiseInput
  <2> QED BY <1>0, <2>1, PushPop, Zenon
<1> HIDE DEF op
<1> DEFINE t == inputs[op][i]
<1>3. i \in DOMAIN inputs[op] /\ op \notin Range(feeds[t])  BY <1>1, Zenon DEF Left
<1>4. t \in Range(inputs[op]) /\ t \in Ops /\ t < op
  <2>1. inputs[op] \in Seq(Ops)  BY <1>0, <1>2, Zenon
  <2>2. t \in Range(inputs[op]) /\ t \in Ops  BY <1>3, <2>1, RangeType, Zenon
  <2> QED BY <1>0, <1>2, <2>2, Zenon
<1> HIDE DEF t
<1>5. CASE UNCHANGED feeds  BY <1>5, Zenon DEF EdgesOnce
<1>6. CASE feeds' = [feeds EXCEPT ![t] = Append(@, op)]
  <2>1. feeds'[t] = Append(feeds[t], op) /\ \A x \in Ops \ {t} : feeds'[x] = feeds[x]  BY <1>0, <1>4, <1>6
  <2>2. feeds[t] \in Seq(Ops) /\ Distinct(feeds[t])  BY <1>0, <1>4, Zenon DEF EdgesOnce
  <2>3. Distinct(feeds'[t])  BY <1>2, <1>3, <2>1, <2>2, DistinctGrows, Zenon
  <2>4. Range(feeds'[t]) = Range(feeds[t]) \cup {op}  BY <1>2, <2>1, <2>2, Appended, Zenon
  <2>5. \A c \in Range(feeds'[t]) : t < c  BY <1>4, <2>1, <2>4, Zenon DEF EdgesOnce
  <2> QED BY <2>1, <2>3, <2>5, Zenon DEF EdgesOnce
<1> QED BY <1>1, <1>5, <1>6, Zenon DEF t

\* Every step of add_task keeps BoundInv.
LEMMA BoundStep ==
  ASSUME StateType, BoundInv, [Next]_vars
  PROVE  BoundInv'
<1>0. GraphType /\ ListType /\ MarkType /\ SerialiseType  BY Zenon DEF StateType
<1>1. UNCHANGED inputs  BY GraphFixed, Zenon DEF graph
<1>2. CallsOnce'
  <2>1. CASE SerialiseRoot \/ SerialiseInput \/ SerialiseReturn  BY <2>1, CallsStep, Zenon DEF BoundInv
  <2>2. CASE BuildSubgraph
    <3>1. frames' = <<>> /\ ret' = <<>>  BY <2>2, Zenon DEF BuildSubgraph
    <3>2. 1 .. Len(<<>>) = {}  OBVIOUS
    <3> QED BY <3>1, <3>2, NothingTwice, Zenon DEF CallsOnce
  <2>3. CASE UNCHANGED <<frames, ret>>  BY <2>3, Zenon DEF CallsOnce, BoundInv
  <2> QED BY <2>1, <2>2, <2>3, Zenon DEF Next, Serialise, Mark, Validate, AddTask, Returned, vars, serialising,
     GraphSerialised, SubgraphSerialised, MarkVisit, MarkEdge, MarkVisited, MarkSkip, MarkDone,
     HelperEnter, HelperDescend, HelperLeave, ValidateDone, SplitDone, Call, OrderDone
<1>3. EdgesOnce(feeds)'
  <2>1. CASE SerialiseInput  BY <2>1, EdgesStep, Zenon DEF BoundInv
  <2>2. CASE BuildSubgraph
    <3>1. feeds' = [op \in Ops |-> <<>>]  BY <2>2, Zenon DEF BuildSubgraph
    <3> QED BY <3>1, NothingTwice, Zenon DEF EdgesOnce
  <2>3. CASE UNCHANGED feeds  BY <2>3, Zenon DEF EdgesOnce, BoundInv
  <2> QED BY <2>1, <2>2, <2>3, Zenon DEF Next, Serialise, Mark, Validate, AddTask, Returned, vars, serialising,
     SerialiseRoot, SerialiseReturn,
     GraphSerialised, SubgraphSerialised, MarkVisit, MarkEdge, MarkVisited, MarkSkip, MarkDone,
     HelperEnter, HelperDescend, HelperLeave, ValidateDone, SplitDone, Call, OrderDone
<1>4. EdgesOnce(down)'
  <2>1. CASE GraphSerialised
    <3>1. down' = feeds  BY <2>1, Zenon DEF GraphSerialised
    <3> QED BY <3>1, Zenon DEF EdgesOnce, BoundInv
  <2>2. CASE UNCHANGED down  BY <2>2, Zenon DEF EdgesOnce, BoundInv
  <2> QED BY <2>1, <2>2, Zenon DEF Next, Serialise, Mark, Validate, AddTask, Returned, vars, lists,
     SerialiseRoot, SerialiseInput, SerialiseReturn,
     SubgraphSerialised, MarkVisit, MarkEdge, MarkVisited, MarkSkip, MarkDone,
     HelperEnter, HelperDescend, HelperLeave, ValidateDone, BuildSubgraph, SplitDone, Call, OrderDone
<1>5. ASSUME pc' = "serialise", at' # Whole PROVE at' \notin DOMAIN subgraphs'
  <2>1. CASE BuildSubgraph  BY <2>1, Zenon DEF BuildSubgraph
  <2>2. CASE pc = "serialise" /\ UNCHANGED <<at, subgraphs>>  BY <1>5, <2>2, Zenon DEF BoundInv
  <2> QED BY <1>5, <2>1, <2>2, Zenon DEF Next, Serialise, Mark, Validate, AddTask, Returned, vars, serialising,
     SerialiseRoot, SerialiseInput, SerialiseReturn,
     GraphSerialised, SubgraphSerialised, MarkVisit, MarkEdge, MarkVisited, MarkSkip, MarkDone,
     HelperEnter, HelperDescend, HelperLeave, ValidateDone, SplitDone, Call, OrderDone
<1>6. ASSUME pc' = "edges" PROVE cur' \notin visited' /\ edge' <= Len(Neighbours(cur))' + 1
  <2>1. CASE MarkVisit
    <3> DEFINE x == Top(stack)
    <3>1. cur' = x /\ x \notin visited /\ visited' = visited /\ edge' = 1 /\ stack # <<>> /\ UNCHANGED down
      BY <2>1, Zenon DEF MarkVisit, lists
    <3>2. x \in Ops
      <4>1. stack \in Seq(Ops)  BY <1>0, Zenon DEF MarkType
      <4> QED BY <3>1, <4>1, PushPop, Zenon
    <3> HIDE DEF x
    <3>3. Neighbours(cur)' = Neighbours(x)  BY <1>1, <3>1, Zenon DEF Neighbours
    <3>4. Len(Neighbours(x)) \in Nat  BY <1>0, <3>2, NeighbourFacts, Zenon
    <3>5. 1 <= Len(Neighbours(x)) + 1  BY <3>4
    <3> QED BY <3>1, <3>3, <3>5, Zenon
  <2>2. CASE MarkEdge
    <3>1. pc = "edges" /\ edge <= Len(Neighbours(cur)) /\ edge' = edge + 1 /\ UNCHANGED <<cur, visited, down>>
      BY <2>2, Zenon DEF MarkEdge, lists
    <3>2. cur \in Ops /\ edge \in Nat /\ cur \notin visited  BY <1>0, <3>1, Zenon DEF MarkType, BoundInv
    <3>3. Neighbours(cur)' = Neighbours(cur)  BY <1>1, <3>1, Zenon DEF Neighbours
    <3>4. Len(Neighbours(cur)) \in Nat  BY <1>0, <3>2, NeighbourFacts, Zenon
    <3>5. edge + 1 <= Len(Neighbours(cur)) + 1  BY <3>1, <3>2, <3>4
    <3> QED BY <3>1, <3>2, <3>3, <3>5, Zenon
  <2>3. CASE UNCHANGED vars
    <3>1. pc = "edges" /\ UNCHANGED <<cur, visited, edge>> /\ Neighbours(cur)' = Neighbours(cur)
      BY <1>6, <2>3, Zenon DEF vars, marking, graph, lists, Neighbours
    <3> QED BY <3>1, Zenon DEF BoundInv
  <2> QED BY <1>6, <2>1, <2>2, <2>3, Zenon DEF Next, Serialise, Mark, Validate, AddTask, Returned,
     SerialiseRoot, SerialiseInput, SerialiseReturn,
     GraphSerialised, SubgraphSerialised, MarkVisited, MarkSkip, MarkDone,
     HelperEnter, HelperDescend, HelperLeave, ValidateDone, BuildSubgraph, SplitDone, Call, OrderDone
<1> QED BY <1>1, <1>2, <1>3, <1>4, <1>5, <1>6, Zenon DEF BoundInv

\* The edges <<pre, post>> that serialize_compute_dag has still to read.
Unread == {e \in Ops \X Ops : \E i \in Left(e[2]) : inputs[e[2]][i] = e[1]}

\* Giving an input its consumer takes one edge from what is to be read.
LEMMA UnreadStep ==
  ASSUME StateType, NEW op \in Ops, NEW i \in Left(op), UNCHANGED <<inputs, at, mark>>,
         feeds' = [feeds EXCEPT ![inputs[op][i]] = Append(@, op)]
  PROVE  <<inputs[op][i], op>> \in Unread /\ Unread' = Unread \ {<<inputs[op][i], op>>}
<1> DEFINE t == inputs[op][i]
<1>0. feeds \in [Ops -> Seq(Ops)] /\ inputs \in [Ops -> Seq(Ops)]
  BY Zenon DEF StateType, SerialiseType, GraphType
<1>1. \A o \in Ops : \A k \in DOMAIN inputs[o] : inputs[o][k] \in Ops  BY <1>0
<1>2. i \in DOMAIN inputs[op] /\ t \in Ops  BY <1>1, Zenon DEF Left
<1> HIDE DEF t
<1>3. feeds'[t] = Append(feeds[t], op) /\ feeds[t] \in Seq(Ops) /\ \A x \in Ops \ {t} : feeds'[x] = feeds[x]
  BY <1>0, <1>2 DEF t
<1>4. Range(feeds'[t]) = Range(feeds[t]) \cup {op}
  <2>1. feeds[t] \in Seq(Ops) /\ op \in Ops /\ feeds'[t] = Append(feeds[t], op)  BY <1>3, Zenon
  <2> QED BY <2>1, Appended, Zenon
<1>5. \A x \in Ops : \A o : o \in Range(feeds'[x]) <=> o \in Range(feeds[x]) \/ (x = t /\ o = op)
  BY <1>3, <1>4, Zenon
<1>6. \A x : InGraph(x)' <=> InGraph(x)  BY Zenon DEF InGraph
<1>7. \A o \in Ops : \A k : k \in Left(o)' <=> k \in Left(o) /\ ~(inputs[o][k] = t /\ o = op)
  BY <1>1, <1>5, <1>6, Zenon DEF Left
<1>8. ASSUME NEW x \in Ops, NEW o \in Ops
      PROVE  /\ <<x, o>> \in Unread' <=> \E k \in Left(o)' : inputs[o][k] = x
             /\ <<x, o>> \in Unread <=> \E k \in Left(o) : inputs[o][k] = x
  <2> DEFINE y == <<x, o>>
  <2>1. y \in Ops \X Ops /\ y[1] = x /\ y[2] = o  OBVIOUS
  <2> HIDE DEF y
  <2>2. /\ y \in Unread' <=> \E k \in Left(o)' : inputs[o][k] = x
        /\ y \in Unread <=> \E k \in Left(o) : inputs[o][k] = x
    BY <2>1, Zenon DEF Unread
  <2> QED BY <2>2, Zenon DEF y
<1>9. \A x, o \in Ops : <<x, o>> = <<t, op>> <=> x = t /\ o = op  OBVIOUS
<1>10. ASSUME NEW x \in Ops, NEW o \in Ops
       PROVE  <<x, o>> \in Unread' <=> <<x, o>> \in Unread \ {<<t, op>>}
  <2>1. <<x, o>> \in Unread' <=> \E k \in Left(o) : inputs[o][k] = x /\ ~(x = t /\ o = op)
    BY <1>7, <1>8, Zenon
  <2> QED BY <1>8, <1>9, <2>1, Zenon
<1>11. Unread \subseteq Ops \X Ops /\ Unread' \subseteq Ops \X Ops  BY Zenon DEF Unread
<1>12. \A e \in Ops \X Ops : \E x, o \in Ops : e = <<x, o>>  OBVIOUS
<1>13. Unread' = Unread \ {<<t, op>>}
  <2>1. ASSUME NEW e \in Ops \X Ops PROVE e \in Unread' <=> e \in Unread \ {<<t, op>>}
    <3>1. PICK x \in Ops, o \in Ops : e = <<x, o>>  BY <1>12, Zenon
    <3>2. <<x, o>> \in Unread' <=> <<x, o>> \in Unread \ {<<t, op>>}  BY <1>10, Zenon
    <3> QED BY <3>1, <3>2, Zenon
  <2> QED BY <1>11, <2>1, Zenon
<1>14. <<t, op>> \in Unread  BY <1>2, <1>8, Zenon DEF t
<1> QED BY <1>13, <1>14, Zenon DEF t
==============================================================================
