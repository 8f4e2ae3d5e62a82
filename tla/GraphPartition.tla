--------------------------- MODULE GraphPartition ---------------------------
(* How a session turns an operation graph into a task: TIRGraph serialises   *)
(* the compute operations, SubGraphPartitionEngine marks each with the       *)
(* subgraph it belongs to, checks the subgraphs for circular dependency and  *)
(* splits them, and Session::add_task fixes the order in which the subgraphs *)
(* are called at every iteration.                                            *)
(* Sources: src/tg/graph/{utils,concrete_graph,subgraph}.cc,                 *)
(*          src/tg/runtime/driver.cc, tensor_graph/core/con_graph.py.        *)
(* Placeholders, expressions and buffers are left out: an operation is its   *)
(* inputs, its role and whether it reduces.  Sets of operations and marks    *)
(* that the code goes through without changing the outcome are taken in the  *)
(* order of their numbers.                                                   *)
EXTENDS Integers, Sequences, FiniteSets, Functions

CONSTANTS NOps,        \* compute operations, numbered in a topological order
          RolesUsed,   \* the roles, besides "none", that tensors of the graph play
          MaxSplit     \* the size above which a size-limited policy splits an edge

Ops == 1 .. NOps

\* The order of the finalize_position cases: the last category wins.
RoleOrder == <<"output", "loss", "gradient", "update">>

ASSUME PartitionAssumption ==
    /\ NOps \in Nat \ {0}
    /\ RolesUsed \subseteq Range(RoleOrder) /\ RolesUsed # {}
    /\ MaxSplit \in Nat

VARIABLES
    inputs,      \* op -> the compute operations its input tensors come from
    role,        \* op -> its role among the graph's tensors
    reductive,   \* the operations with reduce axes
    user,        \* a policy was installed with set_partition_policy
    split,       \* <<pre, post>> -> size above which that policy splits
    pc,          \* "serialise", "mark", "edges", "validate", "split", "order",
                 \* "ready", "fatal"
    at,          \* the TIRGraph under construction: Whole, or a mark
    roots, frames, ret, feeds,   \* serialize_compute_dag: the roots to come, the
                                 \* calls of helper, ret, down_graph
    list, down,  \* operation_list and down_graph of the whole graph
    stack, visited, mark, current, counts, cur, edge,   \* locals of mark_graph
    path, checked,               \* locals of validate_subgraph_dependency
    subgraphs,   \* mark -> operations of the TIRGraph built for that subgraph
    pending, free, update, order                        \* locals of add_task

graph == <<inputs, role, reductive, user, split>>
serialising == <<at, roots, frames, ret, feeds>>
lists == <<list, down>>
marking == <<stack, visited, mark, current, counts, cur, edge>>
validating == <<path, checked>>
ordering == <<pending, free, update, order>>
vars == <<graph, pc, serialising, lists, marking, validating, subgraphs, ordering>>

NoMark == 0
Whole == NoMark

Least(x, S) == x \in S /\ \A y \in S : x <= y

Top(s) == s[Len(s)]
Pop(s) == SubSeq(s, 1, Len(s) - 1)

-----------------------------------------------------------------------------
(* TIRGraph                                                                  *)

\* finalize_position: only the last category present is serialised.
Finalized(roles) ==
    {op \in Ops : \E i \in DOMAIN RoleOrder :
        /\ RoleOrder[i] \in roles[op]
        /\ \A j \in i + 1 .. Len(RoleOrder), o \in Ops : RoleOrder[j] \notin roles[o]}

root_ops == {op \in Ops : role[op] # "none"}

\* The input lists a graph may have.
InputLists ==
    {s \in UNION {[1 .. n -> Ops] : n \in 0 .. NOps} :
        \A i, j \in DOMAIN s : i < j => s[i] < s[j]}

\* add_task is given any graph: its inputs in any shape, some tensor with a role.
\* A user policy keeps an edge apart always or above a size, and sees neither
\* roles nor reductions; reductions matter to the default policy only where the
\* role of the operation does not decide.
Init ==
    /\ user \in BOOLEAN
    /\ inputs \in [Ops -> InputLists]
    /\ \A op \in Ops : \A t \in Range(inputs[op]) : t < op
    /\ split \in [IF user THEN {e \in Ops \X Ops : e[1] \in Range(inputs[e[2]])} ELSE {}
                    -> {0, MaxSplit}]
    /\ role \in [Ops -> (IF user THEN {"output"} ELSE RolesUsed) \cup {"none"}]
    /\ root_ops # {}
    /\ \A a, b \in Ops : role[a] = "loss" /\ role[b] = "loss" => a = b
    /\ reductive \in (IF user THEN {{}} ELSE SUBSET (Ops \ root_ops))
    /\ pc = "serialise"
    /\ at = Whole
    /\ roots = Finalized([op \in Ops |-> {role[op]}])
    /\ frames = <<>> /\ ret = <<>> /\ feeds = [op \in Ops |-> <<>>]
    /\ list = <<>> /\ down = feeds
    /\ stack = <<>> /\ visited = {} /\ mark = [op \in Ops |-> NoMark]
    /\ current = 0 /\ counts = 0 /\ cur = 0 /\ edge = 0
    /\ path = <<>> /\ checked = {}
    /\ subgraphs = <<>>
    /\ pending = <<>> /\ free = {} /\ update = {} /\ order = <<>>

-----------------------------------------------------------------------------
(* serialize_compute_dag: helper walks the inputs depth first.  The inputs   *)
(* that are in another subgraph are placeholders of this one.                *)

InGraph(t) == at = Whole \/ mark[t] = at

\* The inputs of op that its call of helper has not come to the end of.
Left(op) ==
    {i \in DOMAIN inputs[op] :
        InGraph(inputs[op][i]) /\ op \notin Range(feeds[inputs[op][i]])}

SerialiseRoot ==
    /\ pc = "serialise" /\ frames = <<>>
    /\ \E r \in roots :
        /\ Least(r, roots)
        /\ roots' = roots \ {r}
        /\ frames' = IF r \in Range(ret) THEN <<>> ELSE <<r>>
    /\ UNCHANGED <<graph, pc, at, ret, feeds, lists, marking, validating, subgraphs, ordering>>

SerialiseInput ==
    /\ pc = "serialise" /\ frames # <<>>
    /\ \E i \in Left(Top(frames)) :
        LET op == Top(frames)
            t == inputs[op][i]
        IN  /\ Least(i, Left(op))
            /\ IF t \in Range(ret)
               THEN feeds' = [feeds EXCEPT ![t] = Append(@, op)] /\ UNCHANGED frames
               ELSE frames' = Append(frames, t) /\ UNCHANGED feeds
    /\ UNCHANGED <<graph, pc, at, roots, ret, lists, marking, validating, subgraphs, ordering>>

SerialiseReturn ==
    /\ pc = "serialise" /\ frames # <<>> /\ Left(Top(frames)) = {}
    /\ ret' = Append(ret, Top(frames))
    /\ frames' = Pop(frames)
    /\ UNCHANGED <<graph, pc, at, roots, feeds, lists, marking, validating, subgraphs, ordering>>

\* mark_graph starts with the operation list on its stack.
GraphSerialised ==
    /\ pc = "serialise" /\ at = Whole /\ frames = <<>> /\ roots = {}
    /\ list' = ret /\ down' = feeds
    /\ stack' = ret
    /\ pc' = "mark"
    /\ UNCHANGED <<graph, serialising, visited, mark, current, counts, cur, edge, validating,
                   subgraphs, ordering>>

SubgraphSerialised ==
    /\ pc = "serialise" /\ at # Whole /\ frames = <<>> /\ roots = {}
    /\ subgraphs' = [m \in DOMAIN subgraphs \cup {at} |->
                        IF m = at THEN Range(ret) ELSE subgraphs[m]]
    /\ pc' = "split"
    /\ UNCHANGED <<graph, serialising, lists, marking, validating, ordering>>

-----------------------------------------------------------------------------
(* mark_graph                                                                *)

\* partition_policy of con_graph.py: TRUE keeps pre and post apart.
DefaultPolicy_FusesShared(pre, post) ==
    role[pre] # "none" \/ pre \in reductive

DefaultPolicy(pre, post) ==
    \/ role[pre] # "none"
    \/ Len(down[pre]) > 1
    \/ pre \in reductive

Policy(pre, post, number) ==
    IF user THEN number > split[<<pre, post>>] ELSE DefaultPolicy(pre, post)

Neighbours_ConsumersOnly(op) == [k \in DOMAIN down[op] |-> <<op, down[op][k]>>]

\* The edges to the consumers and then from the inputs of op, as <<pre, post>>.
Neighbours(op) ==
    [k \in 1 .. Len(down[op]) + Len(inputs[op]) |->
        IF k <= Len(down[op]) THEN <<op, down[op][k]>>
        ELSE <<inputs[op][k - Len(down[op])], op>>]

\* The end of an edge of cur that is not cur.
Other(e) == IF e[1] = cur THEN e[2] ELSE e[1]

\* An iteration of the loop up to its two inner loops. counts is
\* counts_mark[current]: an older mark's count is never read again.
MarkVisit ==
    /\ pc = "mark" /\ stack # <<>> /\ Top(stack) \notin visited
    /\ cur' = Top(stack)
    /\ stack' = Pop(stack)
    /\ current' = IF mark[cur'] = NoMark THEN current + 1 ELSE current
    /\ mark' = [mark EXCEPT ![cur'] = current']
    /\ counts' = (IF current' = current THEN counts ELSE 0) + 1
    /\ edge' = 1
    /\ pc' = "edges"
    /\ UNCHANGED <<graph, serialising, lists, visited, validating, subgraphs, ordering>>

\* The inner loops ask the policy about one edge after the other.
MarkEdge ==
    /\ pc = "edges" /\ edge <= Len(Neighbours(cur))
    /\ LET e == Neighbours(cur)[edge]
       IN  IF Policy(e[1], e[2], counts) THEN UNCHANGED <<mark, counts, stack>>
           ELSE /\ mark' = [mark EXCEPT ![Other(e)] = current]
                /\ counts' = counts + 1
                /\ stack' = Append(stack, Other(e))
    /\ edge' = edge + 1
    /\ UNCHANGED <<graph, pc, serialising, lists, visited, current, cur, validating, subgraphs,
                   ordering>>

Visit_Forgets(op) == visited

\* visited.insert(cur), the end of an iteration.
Visit(op) == visited \cup {op}

MarkVisited ==
    /\ pc = "edges" /\ edge > Len(Neighbours(cur))
    /\ visited' = Visit(cur)
    /\ pc' = "mark"
    /\ UNCHANGED <<graph, serialising, lists, stack, mark, current, counts, cur, edge, validating,
                   subgraphs, ordering>>

MarkSkip ==
    /\ pc = "mark" /\ stack # <<>> /\ Top(stack) \in visited
    /\ stack' = Pop(stack)
    /\ UNCHANGED <<graph, pc, serialising, lists, visited, mark, current, counts, cur, edge,
                   validating, subgraphs, ordering>>

MarkDone ==
    /\ pc = "mark" /\ stack = <<>>
    /\ pc' = "validate"
    /\ UNCHANGED <<graph, serialising, lists, marking, validating, subgraphs, ordering>>

-----------------------------------------------------------------------------
(* validate_subgraph_dependency                                              *)

Marked == {op \in Ops : mark[op] # NoMark}
marks == {mark[op] : op \in Marked}
Members(m) == {op \in Ops : mark[op] = m}

Depends(m, n) ==
    m # n /\ \E op \in Members(m) : \E t \in Range(inputs[op]) : mark[t] = n

predecessor(m) == {n \in marks : Depends(m, n)}
successors(m) == {n \in marks : Depends(n, m)}

\* The for loop calls helper on a mark it has not visited yet.
HelperEnter ==
    /\ pc = "validate" /\ path = <<>>
    /\ \E m \in marks \ checked : path' = <<m>>
    /\ UNCHANGED <<graph, pc, serialising, lists, marking, checked, subgraphs, ordering>>

\* helper(pre): a predecessor on the path is a circle, LOG(FATAL).
HelperDescend ==
    /\ pc = "validate" /\ path # <<>>
    /\ \E n \in predecessor(Top(path)) \ checked :
        IF n \in Range(path) THEN pc' = "fatal" /\ path' = path
        ELSE path' = Append(path, n) /\ pc' = pc
    /\ UNCHANGED <<graph, serialising, lists, marking, checked, subgraphs, ordering>>

HelperLeave_IgnoresPath ==
    /\ pc = "validate" /\ path # <<>>
    /\ predecessor(Top(path)) \subseteq checked \cup Range(path)
    /\ checked' = checked \cup {Top(path)}
    /\ path' = Pop(path)
    /\ UNCHANGED <<graph, pc, serialising, lists, marking, subgraphs, ordering>>

HelperLeave ==
    /\ pc = "validate" /\ path # <<>>
    /\ predecessor(Top(path)) \subseteq checked
    /\ checked' = checked \cup {Top(path)}
    /\ path' = Pop(path)
    /\ UNCHANGED <<graph, pc, serialising, lists, marking, subgraphs, ordering>>

ValidateDone ==
    /\ pc = "validate" /\ path = <<>> /\ marks \subseteq checked
    /\ pc' = "split"
    /\ UNCHANGED <<graph, serialising, lists, marking, validating, subgraphs, ordering>>

-----------------------------------------------------------------------------
(* SubGraphPartitionEngine::operator(): the split. An operation is an output *)
(* of its subgraph when it was an output of the graph or when another        *)
(* subgraph reads it through a new placeholder; every subgraph becomes a     *)
(* TIRGraph, which serialises itself from its own last category.             *)

SubgraphRole(m) ==
    [op \in Ops |->
        IF op \notin Members(m) THEN {}
        ELSE {role[op]} \cup {r \in {"output"} :
                 \E c \in Marked \ Members(m) : op \in Range(inputs[c])}]

BuildSubgraph ==
    /\ pc = "split"
    /\ \E m \in marks \ DOMAIN subgraphs :
        /\ Least(m, marks \ DOMAIN subgraphs)
        /\ at' = m
        /\ roots' = Finalized(SubgraphRole(m))
    /\ frames' = <<>> /\ ret' = <<>> /\ feeds' = [op \in Ops |-> <<>>]
    /\ pc' = "serialise"
    /\ UNCHANGED <<graph, lists, marking, validating, subgraphs, ordering>>

\* add_task starts with the subgraphs that wait for no other one.
SplitDone ==
    /\ pc = "split" /\ marks \subseteq DOMAIN subgraphs
    /\ pending' = [m \in marks |-> Cardinality(predecessor(m))]
    /\ free' = {m \in marks : predecessor(m) = {}}
    /\ update' = {} /\ order' = <<>>
    /\ pc' = "order"
    /\ UNCHANGED <<graph, serialising, lists, marking, validating, subgraphs>>

-----------------------------------------------------------------------------
(* Session::add_task                                                         *)

Released_OnTouch(m) == {n \in successors(m) : pending[n] > 0}

\* The successors whose call_order the call of m brings to zero.
Released(m) == {n \in successors(m) : pending[n] = 1}

\* The next free subgraph is called and releases its successors; after the last
\* one of a layer the update_set becomes the next layer.
Call ==
    /\ pc = "order"
    /\ \E m \in free :
        /\ Least(m, free)
        /\ order' = Append(order, m)
        /\ pending' = [n \in marks |-> IF n \in successors(m) THEN pending[n] - 1 ELSE pending[n]]
        /\ IF free = {m}
           THEN free' = update \cup Released(m) /\ update' = {}
           ELSE free' = free \ {m} /\ update' = update \cup Released(m)
    /\ UNCHANGED <<graph, pc, serialising, lists, marking, validating, subgraphs>>

OrderDone ==
    /\ pc = "order" /\ free = {}
    /\ pc' = "ready"
    /\ UNCHANGED <<graph, serialising, lists, marking, validating, subgraphs, ordering>>

\* The task is ready, or the process aborted.
Returned ==
    /\ pc \in {"ready", "fatal"}
    /\ UNCHANGED vars

Serialise == SerialiseRoot \/ SerialiseInput \/ SerialiseReturn \/ GraphSerialised
             \/ SubgraphSerialised
Mark == MarkVisit \/ MarkEdge \/ MarkVisited \/ MarkSkip \/ MarkDone
Validate == HelperEnter \/ HelperDescend \/ HelperLeave \/ ValidateDone
AddTask == BuildSubgraph \/ SplitDone \/ Call \/ OrderDone

Next == Serialise \/ Mark \/ Validate \/ AddTask \/ Returned

Spec == Init /\ [][Next]_vars

-----------------------------------------------------------------------------
(* Properties                                                                *)

\* mark_graph has returned.
MarkedAll == pc \notin {"mark", "edges"} /\ (pc = "serialise" => at # Whole)

\* The default policy keeps the producer t and its consumer op together.
Fused(t, op) == op \in Range(list) /\ t \in Range(inputs[op]) /\ ~DefaultPolicy(t, op)

\* A reference for circular dependency: a set of subgraphs each of which waits
\* for another one of the set.
Circular ==
    \E S \in SUBSET marks : S # {} /\ \A m \in S : predecessor(m) \cap S # {}

\* mark_graph with the default policy: although the walk may write an operation's
\* mark several times, two operations end in one subgraph exactly when fusible
\* edges connect them, and every serialised operation is in one.
MarksAreComponents ==
    ~user /\ MarkedAll =>
        /\ Marked = Range(list)
        /\ \A t, op \in Ops : Fused(t, op) => mark[t] = mark[op]
        /\ \A m \in marks : \A S \in (SUBSET Members(m)) \ {{}, Members(m)} :
              \E a \in S, b \in Members(m) \ S : Fused(a, b) \/ Fused(b, a)

\* With the default policy validate_subgraph_dependency never aborts: fusing
\* only single-consumer operations cannot close a circle over any graph.
NeverCircular == ~user => pc # "fatal"

\* Splitting with the default policy loses no operation: the TIRGraph of a
\* subgraph serialises only its last category of roots, and those still reach
\* every operation the subgraph was given.
SubgraphsComplete ==
    ~user /\ pc \in {"order", "ready"} =>
        \A m \in marks : subgraphs[m] = Members(m)

\* Whatever the policy answers, the depth-first check of
\* validate_subgraph_dependency accepts a partition exactly when it has no circle.
ValidationExact ==
    /\ pc = "fatal" => Circular
    /\ MarkedAll /\ pc \notin {"validate", "fatal"} => ~Circular

\* static_call_order calls each subgraph exactly once, and after every subgraph
\* whose tensors it reads, whatever the policy answers.
CallOrderSound ==
    pc = "ready" =>
        /\ Len(order) = Cardinality(marks) /\ Range(order) = marks
        /\ \A i, j \in DOMAIN order : Depends(order[i], order[j]) => j < i

\* How many steps add_task can still take at most.  helper of serialize_compute_dag
\* is called once from each root and each input, and appends each operation once;
\* the walk of mark_graph asks about the edges of each operation once, and pushes
\* at most one operation for each; helper of validate_subgraph_dependency enters
\* and leaves each subgraph once; each subgraph is built and called once.
SerialiseMax == 3 * NOps + NOps * NOps + 1
SerialiseLeft ==
    1 + Cardinality(roots) + 2 * Cardinality(Ops \ Range(ret)) - Len(frames)
      + Cardinality({e \in Ops \X Ops : \E i \in Left(e[2]) : inputs[e[2]][i] = e[1]})
OrderMax == NOps + 2
SplitLeft == OrderMax + (SerialiseMax + 1) * Cardinality(marks \ DOMAIN subgraphs)
SplitMax == OrderMax + (SerialiseMax + 1) * NOps + 1
ValidateMax == SplitMax + 2 * NOps + 1
MarkLeft == ValidateMax + 2 * NOps * Cardinality(Ops \ visited) + Len(stack)
MarkMax == ValidateMax + 2 * NOps * NOps + NOps

StepsLeft ==
    CASE pc = "serialise" /\ at = Whole -> MarkMax + SerialiseLeft
      [] pc = "mark" -> MarkLeft
      [] pc = "edges" -> MarkLeft - 2 * NOps + 2 * (Len(Neighbours(cur)) - edge) + 3
      [] pc = "validate" -> SplitMax + 2 * Cardinality(marks \ checked) - Len(path)
      [] pc = "split" -> SplitLeft
      [] pc = "serialise" /\ at # Whole -> SplitLeft - SerialiseMax - 1 + SerialiseLeft
      [] pc = "order" -> NOps + 1 - Len(order)
      [] OTHER -> 0

\* add_task returns or aborts: although the marking walk pushes operations it has
\* already visited, no step leaves as many steps to take as there were before
\* (and none is stuck: TLC checks for deadlock).
AddTaskReturns == [][StepsLeft' < StepsLeft /\ StepsLeft' >= 0]_vars
=============================================================================
