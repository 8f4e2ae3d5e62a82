-------------------------- MODULE ThreadPoolProofs --------------------------
(***************************************************************************)
(* Proofs about ThreadPool, for any number of workers and clients and any  *)
(* programs of the clients.                                                *)
(***************************************************************************)
EXTENDS ThreadPool, TLAPS, SequenceTheorems

\* What a client has still to push was never accepted.
Fresh ==
  \A c \in Clients : \A i \in DOMAIN Program[c] :
    i > pushed[c] => future[Program[c][i]] = "none"

\* Where the destructor is tells whether the pool is stopped.
OwnerStop ==
  owner \in {"notify1", "join1", "init", "notify2", "join2", "gone"} => stop

\* A worker leaves a stopped pool whose deque is empty, and stopped it stays
\* empty.
ExitedDone == (\E w \in Workers : worker[w] = "exited") => stop /\ tasks = <<>>

\* Tasks of one client that wait together wait in the order of the pushes.
QueuedInOrder ==
  \A c \in Clients : \A i, j \in 1 .. pushed[c] : \A k, l \in DOMAIN tasks :
    /\ i < j /\ Program[c][i] \notin Urgent /\ Program[c][j] \notin Urgent
    /\ tasks[k] = Program[c][i] /\ tasks[l] = Program[c][j]
    => k < l

\* No client runs past its program.
PushedBounded == \A c \in Clients : pushed[c] <= Len(Program[c])

\* Between the two lives of the workers, and after the second, all have left.
AllExited == owner \in {"init", "gone"} => \A w \in Workers : worker[w] = "exited"

Pool == TypeOK /\ TasksConserved /\ Fresh /\ PushedBounded /\ AllExited

-----------------------------------------------------------------------------
(* What the deque operations do. *)

LEMMA FrontFacts ==
  ASSUME NEW q \in Seq(Tasks), NEW t \in Tasks
  PROVE  /\ <<t>> \o q \in Seq(Tasks) /\ Len(<<t>> \o q) = Len(q) + 1
         /\ (<<t>> \o q)[1] = t
         /\ \A i \in 1 .. Len(q) : (<<t>> \o q)[i + 1] = q[i]
         /\ \A i \in 2 .. Len(q) + 1 : (<<t>> \o q)[i] = q[i - 1]
         /\ Range(<<t>> \o q) = {t} \union Range(q)
<1>1. <<t>> \in Seq(Tasks) /\ Len(<<t>>) = 1 /\ <<t>>[1] = t
  OBVIOUS
<1>2. /\ <<t>> \o q \in Seq(Tasks) /\ Len(<<t>> \o q) = Len(q) + 1
      /\ \A i \in 1 .. Len(q) + 1 :
           (<<t>> \o q)[i] = IF i <= 1 THEN <<t>>[i] ELSE q[i - 1]
  BY <1>1, ConcatProperties
<1>3. /\ (<<t>> \o q)[1] = t
      /\ \A i \in 1 .. Len(q) : (<<t>> \o q)[i + 1] = q[i]
      /\ \A i \in 2 .. Len(q) + 1 : (<<t>> \o q)[i] = q[i - 1]
  BY <1>1, <1>2
<1>4. Range(<<t>> \o q) \subseteq {t} \union Range(q)
  BY <1>2, <1>3 DEF Range
<1>5. {t} \union Range(q) \subseteq Range(<<t>> \o q)
  <2>1. t \in Range(<<t>> \o q)
    BY <1>2, <1>3 DEF Range
  <2>2. ASSUME NEW i \in 1 .. Len(q) PROVE q[i] \in Range(<<t>> \o q)
    <3>1. i + 1 \in DOMAIN (<<t>> \o q)
      BY <1>2
    <3> QED
      BY <1>3, <3>1 DEF Range
  <2>3. ASSUME NEW x \in Range(q) PROVE x \in Range(<<t>> \o q)
    <3>1. PICK i \in 1 .. Len(q) : q[i] = x
      BY <1>1 DEF Range
    <3> QED
      BY <2>2, <3>1, Zenon
  <2> QED
    BY <2>1, <2>3, Zenon
<1> QED
  BY <1>2, <1>3, <1>4, <1>5

LEMMA BackFacts ==
  ASSUME NEW q \in Seq(Tasks), NEW t \in Tasks
  PROVE  /\ Append(q, t) \in Seq(Tasks) /\ Len(Append(q, t)) = Len(q) + 1
         /\ Append(q, t)[Len(q) + 1] = t
         /\ \A i \in 1 .. Len(q) : Append(q, t)[i] = q[i]
         /\ Range(Append(q, t)) = {t} \union Range(q)
<1>1. /\ Append(q, t) \in Seq(Tasks) /\ Len(Append(q, t)) = Len(q) + 1
      /\ Append(q, t)[Len(q) + 1] = t
      /\ \A i \in 1 .. Len(q) : Append(q, t)[i] = q[i]
  OBVIOUS
<1>2. Range(Append(q, t)) \subseteq {t} \union Range(q)
  BY <1>1 DEF Range
<1>3. {t} \union Range(q) \subseteq Range(Append(q, t))
  BY <1>1 DEF Range
<1> QED
  BY <1>1, <1>2, <1>3

LEMMA PopFacts ==
  ASSUME NEW q \in Seq(Tasks), q # <<>>
  PROVE  /\ Tail(q) \in Seq(Tasks) /\ Len(Tail(q)) = Len(q) - 1 /\ Len(q) \in Nat \ {0}
         /\ Head(q) = q[1] /\ Head(q) \in Tasks
         /\ \A i \in 1 .. Len(q) - 1 : Tail(q)[i] = q[i + 1]
         /\ Range(q) = {Head(q)} \union Range(Tail(q))
<1>1. /\ Tail(q) \in Seq(Tasks) /\ Len(Tail(q)) = Len(q) - 1 /\ Len(q) \in Nat \ {0}
      /\ Head(q) = q[1] /\ Head(q) \in Tasks
      /\ \A i \in 1 .. Len(q) - 1 : Tail(q)[i] = q[i + 1]
  OBVIOUS
<1>2. Range(q) \subseteq {Head(q)} \union Range(Tail(q))
  <2> SUFFICES ASSUME NEW i \in 1 .. Len(q), i # 1
               PROVE  q[i] \in Range(Tail(q))
    BY <1>1 DEF Range
  <2>1. i - 1 \in DOMAIN Tail(q) /\ Tail(q)[i - 1] = q[i]
    BY <1>1
  <2> QED
    BY <2>1, Zenon DEF Range
<1>3. {Head(q)} \union Range(Tail(q)) \subseteq Range(q)
  <2> SUFFICES ASSUME NEW i \in 1 .. Len(q) - 1
               PROVE  Tail(q)[i] \in Range(q)
    BY <1>1 DEF Range
  <2>1. i + 1 \in DOMAIN q /\ Tail(q)[i] = q[i + 1]
    BY <1>1
  <2> QED
    BY <2>1 DEF Range
<1> QED
  BY <1>1, <1>2, <1>3
-----------------------------------------------------------------------------
(* Types and the conservation of tasks. *)

LEMMA PoolInit == Init => Pool
<1> SUFFICES ASSUME Init PROVE Pool
  OBVIOUS
<1>0. stop \in BOOLEAN
  BY Zenon DEF Init
<1>1. TypeOK
  BY <1>0 DEF Init, TypeOK
<1>2. TasksConserved
  BY PoolAssumption DEF Init, TasksConserved, Range
<1>3. Fresh
  BY PoolAssumption DEF Init, Fresh
<1>4. PushedBounded
  BY PoolAssumption DEF Init, PushedBounded
<1>5. AllExited
  BY DEF Init, AllExited
<1> QED
  BY <1>1, <1>2, <1>3, <1>4, <1>5 DEF Pool

\* The task a client is about to push is nowhere yet.
LEMMA NextTask ==
  ASSUME Pool, NEW c \in Clients, pushed[c] < Len(Program[c])
  PROVE  LET t == Program[c][pushed[c] + 1] IN
           /\ t \in Tasks /\ future[t] = "none" /\ t \notin Range(tasks)
           /\ \A w \in Workers : worker[w] # t
<1> DEFINE t == Program[c][pushed[c] + 1]
<1>1. pushed[c] + 1 \in DOMAIN Program[c] /\ pushed[c] + 1 > pushed[c]
  BY PoolAssumption DEF Pool, TypeOK
<1>2. t \in Tasks
  BY <1>1, PoolAssumption
<1>3. future[t] = "none"
  BY <1>1 DEF Pool, Fresh
<1>4. future[t] # "pending"
  BY <1>3
<1> HIDE DEF t
<1>5. t \notin Range(tasks) /\ \A w \in Workers : worker[w] # t
  BY <1>2, <1>4 DEF Pool, TasksConserved
<1> QED
  BY <1>2, <1>3, <1>5 DEF t

LEMMA PoolPush ==
  ASSUME Pool, NEW c \in Clients, Push(c)
  PROVE  Pool'
<1> DEFINE t == Program[c][pushed[c] + 1]
<1>1. /\ t \in Tasks /\ future[t] = "none" /\ t \notin Range(tasks)
      /\ \A w \in Workers : worker[w] # t
  BY NextTask DEF Push
<1>2. /\ pushed' = [pushed EXCEPT ![c] = @ + 1] /\ pushed[c] < Len(Program[c])
      /\ UNCHANGED <<stop, worker, owner>>
  BY DEF Push
<1>3. pushed \in [Clients -> Nat] /\ pushed[c] \in Nat /\ Len(Program[c]) \in Nat
  BY PoolAssumption DEF Pool, TypeOK
<1>4. /\ future' \in [Tasks -> {"none", "pending", "ready", "broken", "rejected"}]
      /\ \A u \in Tasks : u # t => future'[u] = future[u]
      /\ tasks' \in Seq(Tasks) /\ notifying' \subseteq Clients
  <2>1. CASE stop
    BY <1>1, <2>1, Zenon DEF Push, Pool, TypeOK
  <2>2. CASE ~stop
    <3>1. /\ future' = [future EXCEPT ![t] = "pending"] /\ notifying' = notifying \union {c}
          /\ tasks' = <<t>> \o tasks \/ tasks' = Append(tasks, t)
      BY <2>2 DEF Push
    <3> HIDE DEF t
    <3>2. <<t>> \o tasks \in Seq(Tasks) /\ Append(tasks, t) \in Seq(Tasks)
      BY <1>1, FrontFacts, BackFacts DEF Pool, TypeOK
    <3> QED
      BY <1>1, <3>1, <3>2, Zenon DEF Pool, TypeOK
  <2> QED
    BY <2>1, <2>2
<1>5. TypeOK'
  BY <1>2, <1>3, <1>4 DEF Pool, TypeOK
<1>6. PushedBounded'
  BY <1>2, <1>3, PoolAssumption DEF Pool, PushedBounded, TypeOK
<1>7. Fresh'
  <2> SUFFICES ASSUME NEW d \in Clients, NEW i \in DOMAIN Program[d], i > pushed'[d]
               PROVE  future'[Program[d][i]] = "none"
    BY DEF Fresh
  <2>1. i > pushed[d]
    BY <1>2, <1>3, PoolAssumption DEF Pool, TypeOK
  <2>2. Program[d][i] # t
    <3>1. pushed[c] + 1 \in DOMAIN Program[c]
      BY <1>2, <1>3, PoolAssumption
    <3>2. ~(d = c /\ i = pushed[c] + 1)
      BY <1>2, <1>3, PoolAssumption
    <3> QED
      BY <3>1, <3>2, PoolAssumption
  <2>3. Program[d][i] \in Tasks
    BY PoolAssumption
  <2> QED
    BY <1>4, <2>1, <2>2, <2>3 DEF Pool, Fresh
<1>8. TasksConserved'
  <2>1. CASE stop
    <3>1. tasks' = tasks /\ worker' = worker /\ future' = [future EXCEPT ![t] = "rejected"]
      BY <2>1 DEF Push
    <3> HIDE DEF t
    <3> QED
      BY <1>1, <3>1 DEF Pool, TasksConserved, TypeOK, Range
  <2>2. CASE ~stop
    <3>1. /\ future' = [future EXCEPT ![t] = "pending"] /\ worker' = worker
          /\ tasks' = <<t>> \o tasks \/ tasks' = Append(tasks, t)
      BY <2>2 DEF Push
    <3> HIDE DEF t
    <3>2. Range(tasks') = {t} \union Range(tasks)
      <4>1. tasks \in Seq(Tasks)
        BY DEF Pool, TypeOK
      <4>2. Range(<<t>> \o tasks) = {t} \union Range(tasks)
        BY <1>1, <4>1, FrontFacts, Zenon
      <4>3. Range(Append(tasks, t)) = {t} \union Range(tasks)
        BY <1>1, <4>1, BackFacts, Zenon
      <4> QED
        BY <3>1, <4>2, <4>3, Zenon
    <3>3. \A i, j \in DOMAIN tasks' : tasks'[i] = tasks'[j] => i = j
      <4>0. tasks \in Seq(Tasks) /\ \A i, j \in 1 .. Len(tasks) : tasks[i] = tasks[j] => i = j
        BY DEF Pool, TypeOK, TasksConserved
      <4>1. \A i \in 1 .. Len(tasks) : tasks[i] # t
        BY <1>1, <4>0 DEF Range
      <4>2. CASE tasks' = Append(tasks, t)
        BY <4>0, <4>1, <4>2, <1>1, BackFacts
      <4>3. CASE tasks' = <<t>> \o tasks
        <5>1. /\ Len(tasks') = Len(tasks) + 1 /\ tasks'[1] = t /\ tasks' \in Seq(Tasks)
              /\ \A i \in 2 .. Len(tasks) + 1 : tasks'[i] = tasks[i - 1]
          BY <4>0, <4>3, <1>1, FrontFacts
        <5> SUFFICES ASSUME NEW i \in 1 .. Len(tasks) + 1, NEW j \in 1 .. Len(tasks) + 1,
                            tasks'[i] = tasks'[j]
                     PROVE  i = j
          BY <5>1
        <5>2. i # 1 => tasks'[i] = tasks[i - 1] /\ i - 1 \in 1 .. Len(tasks)
          BY <4>0, <5>1
        <5>3. j # 1 => tasks'[j] = tasks[j - 1] /\ j - 1 \in 1 .. Len(tasks)
          BY <4>0, <5>1
        <5> QED
          BY <4>0, <4>1, <5>1, <5>2, <5>3
      <4> QED
        BY <3>1, <4>2, <4>3
    <3>4. \A u \in Tasks : future'[u] = "pending" <=> u = t \/ future[u] = "pending"
      BY <1>1, <3>1 DEF Pool, TypeOK
    <3> QED
      BY <1>1, <3>1, <3>2, <3>3, <3>4 DEF Pool, TasksConserved
  <2> QED
    BY <2>1, <2>2
<1>9. AllExited'
  BY <1>2 DEF Pool, AllExited
<1> QED
  BY <1>5, <1>6, <1>7, <1>8, <1>9 DEF Pool
\* A step that only moves workers between checking, waiting and leaving.
LEMMA PoolIdle ==
  ASSUME Pool, UNCHANGED <<tasks, future, pushed>>, TypeOK', AllExited',
         \A w \in Workers : worker'[w] \in Tasks \/ worker[w] \in Tasks => worker'[w] = worker[w]
  PROVE  Pool'
<1>1. Fresh' /\ PushedBounded'
  BY DEF Pool, Fresh, PushedBounded
<1>2. TasksConserved'
  <2>1. \A t \in Tasks : (\E w \in Workers : worker'[w] = t) <=> \E w \in Workers : worker[w] = t
    OBVIOUS
  <2>2. \A w \in Workers : worker'[w] \notin Range(tasks)
    BY DEF Pool, TasksConserved, TypeOK, Range
  <2> QED
    BY <2>1, <2>2 DEF Pool, TasksConserved, Range
<1> QED
  BY <1>1, <1>2 DEF Pool

LEMMA PoolTake ==
  ASSUME Pool, NEW w \in Workers, Take(w)
  PROVE  Pool'
<1>1. /\ worker[w] = "check" /\ tasks # <<>> /\ tasks' = Tail(tasks)
      /\ worker' = [worker EXCEPT ![w] = Head(tasks)]
      /\ UNCHANGED <<stop, future, pushed, notifying, owner>>
  BY DEF Take
<1>2. /\ tasks \in Seq(Tasks) /\ worker \in [Workers -> {"check", "waiting", "exited"} \union Tasks]
      /\ \A i, j \in 1 .. Len(tasks) : tasks[i] = tasks[j] => i = j
      /\ "check" \notin Tasks /\ "exited" \notin Tasks
  BY PoolAssumption DEF Pool, TypeOK, TasksConserved
<1>3. /\ tasks' \in Seq(Tasks) /\ Len(tasks') = Len(tasks) - 1 /\ Len(tasks) \in Nat \ {0}
      /\ Head(tasks) = tasks[1] /\ Head(tasks) \in Tasks
      /\ \A i \in 1 .. Len(tasks) - 1 : tasks'[i] = tasks[i + 1]
      /\ Range(tasks) = {Head(tasks)} \union Range(tasks')
  BY <1>1, <1>2, PopFacts
<1>4. TypeOK'
  BY <1>1, <1>2, <1>3 DEF Pool, TypeOK
<1>5. Fresh' /\ PushedBounded'
  BY <1>1 DEF Pool, Fresh, PushedBounded
<1>6. AllExited'
  BY <1>1, <1>2 DEF Pool, AllExited
<1>7. TasksConserved'
  <2>1. \A i, j \in DOMAIN tasks' : tasks'[i] = tasks'[j] => i = j
    BY <1>2, <1>3
  <2>2. Head(tasks) \notin Range(tasks')
    <3> SUFFICES ASSUME NEW i \in 1 .. Len(tasks) - 1, tasks'[i] = tasks[1]
                 PROVE  FALSE
      BY <1>3 DEF Range
    <3>1. tasks[i + 1] = tasks[1] /\ i + 1 \in 1 .. Len(tasks) /\ 1 \in 1 .. Len(tasks)
      BY <1>3
    <3> QED
      BY <1>2, <3>1
  <2>3. Head(tasks) \in Range(tasks) /\ \A x \in Workers : worker[x] # Head(tasks)
    BY <1>3 DEF Pool, TasksConserved
  <2>4. \A x \in Workers : worker'[x] = IF x = w THEN Head(tasks) ELSE worker[x]
    BY <1>1, <1>2
  <2>5. \A x, y \in Workers : worker'[x] \in Tasks /\ worker'[x] = worker'[y] => x = y
    BY <2>3, <2>4 DEF Pool, TasksConserved
  <2>6. \A x \in Workers : worker'[x] \notin Range(tasks')
    BY <1>3, <2>2, <2>4 DEF Pool, TasksConserved
  <2>7. \A t \in Tasks : t \in Range(tasks') \/ (\E x \in Workers : worker'[x] = t) <=>
                         t \in Range(tasks) \/ \E x \in Workers : worker[x] = t
    BY <1>1, <1>2, <1>3, <2>4
  <2>8. \A t \in Tasks : future[t] = "pending" <=>
                         t \in Range(tasks') \/ \E x \in Workers : worker'[x] = t
    BY <2>7 DEF Pool, TasksConserved
  <2> QED
    BY <1>1, <2>1, <2>5, <2>6, <2>8 DEF TasksConserved, Range
<1> QED
  BY <1>4, <1>5, <1>6, <1>7 DEF Pool

LEMMA PoolRunTask ==
  ASSUME Pool, NEW w \in Workers, RunTask(w)
  PROVE  Pool'
<1>1. /\ worker[w] \in Tasks /\ future' = [future EXCEPT ![worker[w]] = "ready"]
      /\ worker' = [worker EXCEPT ![w] = "check"]
      /\ UNCHANGED <<tasks, stop, pushed, notifying, owner>>
  BY DEF RunTask
<1>2. /\ worker \in [Workers -> {"check", "waiting", "exited"} \union Tasks]
      /\ future \in [Tasks -> {"none", "pending", "ready", "broken", "rejected"}]
      /\ tasks \in Seq(Tasks)
      /\ "check" \notin Tasks /\ "exited" \notin Tasks
  BY PoolAssumption DEF Pool, TypeOK
<1>3. TypeOK'
  BY <1>1, <1>2 DEF Pool, TypeOK
<1>4. future[worker[w]] = "pending"
  BY <1>1 DEF Pool, TasksConserved
<1>5. Fresh'
  BY <1>1, <1>2, <1>4, PoolAssumption DEF Pool, Fresh
<1>6. PushedBounded' /\ AllExited'
  BY <1>1, <1>2 DEF Pool, PushedBounded, AllExited
<1>7. TasksConserved'
  <2>1. \A x \in Workers : worker'[x] = IF x = w THEN "check" ELSE worker[x]
    BY <1>1, <1>2
  <2>2. \A t \in Tasks : future'[t] = IF t = worker[w] THEN "ready" ELSE future[t]
    BY <1>1, <1>2
  <2>3. \A x, y \in Workers : worker'[x] \in Tasks /\ worker'[x] = worker'[y] => x = y
    BY <1>2, <2>1 DEF Pool, TasksConserved
  <2>4. \A x \in Workers : worker'[x] \notin Range(tasks)
    BY <1>2, <2>1 DEF Pool, TasksConserved, Range
  <2>5. \A x \in Workers : x # w => worker[x] # worker[w]
    BY <1>1 DEF Pool, TasksConserved
  <2>6. \A t \in Tasks : future'[t] = "pending" <=>
                         t \in Range(tasks) \/ \E x \in Workers : worker'[x] = t
    <3> TAKE t \in Tasks
    <3>1. CASE t = worker[w]
      BY <1>1, <1>2, <2>1, <2>2, <2>5, <3>1 DEF Pool, TasksConserved
    <3>2. CASE t # worker[w]
      BY <1>2, <2>1, <2>2, <3>2 DEF Pool, TasksConserved
    <3> QED
      BY <3>1, <3>2
  <2> QED
    BY <1>1, <2>3, <2>4, <2>6 DEF Pool, TasksConserved, Range
<1> QED
  BY <1>3, <1>5, <1>6, <1>7 DEF Pool
LEMMA PoolCancel ==
  ASSUME Pool, NEW from, NEW to \in {"stop1", "stop2"}, Cancel(from, to)
  PROVE  Pool'
<1>1. /\ owner' = to /\ tasks' = <<>>
      /\ future' = [t \in Tasks |-> IF t \in Range(tasks) THEN "broken" ELSE future[t]]
      /\ UNCHANGED <<stop, worker, pushed, notifying>>
  BY DEF Cancel
<1>2. TypeOK'
  BY <1>1 DEF Pool, TypeOK
<1>3. Fresh'
  <2> SUFFICES ASSUME NEW c \in Clients, NEW i \in DOMAIN Program[c], i > pushed[c]
               PROVE  future'[Program[c][i]] = "none"
    BY <1>1 DEF Fresh
  <2>1. Program[c][i] \in Tasks /\ future[Program[c][i]] = "none"
    BY PoolAssumption DEF Pool, Fresh
  <2>2. Program[c][i] \notin Range(tasks)
    BY <2>1 DEF Pool, TasksConserved
  <2> QED
    BY <1>1, <2>1, <2>2
<1>4. PushedBounded' /\ AllExited'
  BY <1>1 DEF Pool, PushedBounded, AllExited
<1>5. TasksConserved'
  <2>1. Range(tasks') = {}
    BY <1>1 DEF Range
  <2>2. \A t \in Tasks : future'[t] = "pending" <=> \E w \in Workers : worker[w] = t
    BY <1>1 DEF Pool, TasksConserved
  <2> QED
    BY <1>1, <2>1, <2>2 DEF Pool, TasksConserved
<1> QED
  BY <1>2, <1>3, <1>4, <1>5 DEF Pool

LEMMA PoolDestroy ==
  ASSUME Pool, Destroy
  PROVE  Pool'
<1>0. /\ "check" \notin Tasks /\ "waiting" \notin Tasks /\ "exited" \notin Tasks
      /\ worker \in [Workers -> {"check", "waiting", "exited"} \union Tasks]
  BY PoolAssumption DEF Pool, TypeOK
<1>1. CASE Cancel("alive", "stop1") \/ Cancel("cancel2", "stop2")
  BY <1>1, PoolCancel
<1>2. CASE Stop("stop1", "notify1") \/ Stop("stop2", "notify2")
  <2>1. stop' \in BOOLEAN
    BY <1>2, Zenon DEF Stop
  <2>2. TypeOK' /\ AllExited'
    BY <1>2, <2>1 DEF Stop, Pool, TypeOK, AllExited
  <2> QED
    BY <1>2, <2>2, PoolIdle DEF Stop
<1>3. CASE NotifyAll("notify1", "join1") \/ NotifyAll("notify2", "join2")
  <2>1. TypeOK' /\ AllExited'
    BY <1>0, <1>3 DEF NotifyAll, Pool, TypeOK, AllExited
  <2>2. \A w \in Workers : worker'[w] \in Tasks \/ worker[w] \in Tasks => worker'[w] = worker[w]
    BY <1>0, <1>3 DEF NotifyAll, Waiting
  <2> QED
    BY <1>3, <2>1, <2>2, PoolIdle DEF NotifyAll
<1>4. CASE Joined("join1", "init") \/ Joined("join2", "gone")
  <2>1. TypeOK' /\ AllExited'
    BY <1>4 DEF Joined, Pool, TypeOK, AllExited
  <2> QED
    BY <1>4, <2>1, PoolIdle DEF Joined
<1>5. CASE InitWorkers("init", "cancel2")
  <2>1. stop' \in BOOLEAN
    BY <1>5, Zenon DEF InitWorkers
  <2>2. TypeOK' /\ AllExited'
    BY <1>5, <2>1 DEF InitWorkers, Pool, TypeOK, AllExited
  <2>3. \A w \in Workers : worker[w] = "exited" /\ worker'[w] = "check"
    BY <1>5 DEF InitWorkers, Pool, AllExited
  <2> QED
    BY <1>0, <1>5, <2>2, <2>3, PoolIdle DEF InitWorkers
<1> QED
  BY <1>1, <1>2, <1>3, <1>4, <1>5 DEF Destroy

LEMMA PoolNext == Pool /\ [Next]_vars => Pool'
<1> SUFFICES ASSUME Pool, [Next]_vars PROVE Pool'
  OBVIOUS
<1>0. /\ "check" \notin Tasks /\ "waiting" \notin Tasks /\ "exited" \notin Tasks
      /\ worker \in [Workers -> {"check", "waiting", "exited"} \union Tasks]
  BY PoolAssumption DEF Pool, TypeOK
<1>1. CASE \E c \in Clients : Push(c)
  BY <1>1, PoolPush
<1>2. CASE \E c \in Clients : NotifyOne(c)
  <2>1. TypeOK' /\ AllExited'
    BY <1>0, <1>2 DEF NotifyOne, Waiting, Pool, TypeOK, AllExited
  <2>2. \A w \in Workers : worker'[w] \in Tasks \/ worker[w] \in Tasks => worker'[w] = worker[w]
    BY <1>0, <1>2 DEF NotifyOne, Waiting
  <2> QED
    BY <1>2, <2>1, <2>2, PoolIdle DEF NotifyOne
<1>3. CASE \E w \in Workers : Wait(w) \/ Wake(w) \/ Exit(w)
  <2>1. TypeOK' /\ AllExited'
    BY <1>0, <1>3 DEF Wait, Wake, Exit, Pool, TypeOK, AllExited
  <2>2. \A w \in Workers : worker'[w] \in Tasks \/ worker[w] \in Tasks => worker'[w] = worker[w]
    BY <1>0, <1>3 DEF Wait, Wake, Exit
  <2> QED
    BY <1>3, <2>1, <2>2, PoolIdle DEF Wait, Wake, Exit
<1>4. CASE \E w \in Workers : Take(w) \/ RunTask(w)
  BY <1>4, PoolTake, PoolRunTask
<1>5. CASE Destroy
  BY <1>5, PoolDestroy
<1>6. CASE UNCHANGED vars
  <2>1. TypeOK' /\ AllExited'
    BY <1>6 DEF vars, Pool, TypeOK, AllExited
  <2> QED
    BY <1>6, <2>1, PoolIdle DEF vars
<1> QED
  BY <1>1, <1>2, <1>3, <1>4, <1>5, <1>6 DEF Next

\* No step of any client, worker or of the destructor loses a task, runs one
\* twice, or leaves one both queued and running, for any number of threads.
THEOREM PoolConserves == Spec => []TasksConserved
<1>1. Spec => []Pool
  BY PoolInit, PoolNext, PTL DEF Spec
<1>2. Pool => TasksConserved
  BY DEF Pool
<1> QED
  BY <1>1, <1>2, PTL

-----------------------------------------------------------------------------
(* Wakeups. *)

LEMMA LifeNext ==
  ASSUME Pool, OwnerStop, ExitedDone, [Next]_vars
  PROVE  OwnerStop' /\ ExitedDone'
<1>0. /\ "check" \notin Tasks /\ "waiting" \notin Tasks /\ "exited" \notin Tasks
      /\ worker \in [Workers -> {"check", "waiting", "exited"} \union Tasks]
      /\ tasks \in Seq(Tasks)
  BY PoolAssumption DEF Pool, TypeOK
<1>1. CASE \E c \in Clients : Push(c) \/ NotifyOne(c)
  <2>0. UNCHANGED <<stop, owner>>
    BY <1>1, Zenon DEF Push, NotifyOne
  <2>1. OwnerStop'
    BY <2>0, Zenon DEF OwnerStop
  <2>2. ASSUME NEW c \in Clients, Push(c) PROVE ExitedDone'
    <3>1. UNCHANGED <<stop, worker>> /\ (stop => tasks' = tasks)
      BY <2>2, Zenon DEF Push
    <3> QED
      BY <3>1, Zenon DEF ExitedDone
  <2>3. ASSUME NEW c \in Clients, NotifyOne(c) PROVE ExitedDone'
    <3>1. UNCHANGED <<stop, tasks>>
      BY <2>3 DEF NotifyOne
    <3>2. \A w \in Workers : worker'[w] = "exited" => worker[w] = "exited"
      BY <1>0, <2>3 DEF NotifyOne, Waiting
    <3> QED
      BY <3>1, <3>2, Zenon DEF ExitedDone
  <2> QED
    BY <1>1, <2>1, <2>2, <2>3
<1>2. CASE \E w \in Workers : Wait(w) \/ Wake(w) \/ Take(w) \/ RunTask(w)
  <2>1. UNCHANGED <<stop, owner>>
    BY <1>2 DEF Wait, Wake, Take, RunTask
  <2>2. \A w \in Workers : worker'[w] = "exited" => worker[w] = "exited"
    BY <1>0, <1>2, PopFacts DEF Wait, Wake, Take, RunTask
  <2>3. tasks = <<>> => tasks' = tasks
    BY <1>2 DEF Wait, Wake, Take, RunTask
  <2> QED
    BY <2>1, <2>2, <2>3, Zenon DEF OwnerStop, ExitedDone
<1>3. CASE \E w \in Workers : Exit(w)
  <2>1. stop /\ tasks = <<>> /\ UNCHANGED <<stop, owner, tasks>>
    BY <1>3 DEF Exit
  <2> QED
    BY <2>1, Zenon DEF OwnerStop, ExitedDone
<1>4. CASE Destroy
  <2>1. CASE Cancel("alive", "stop1") \/ Cancel("cancel2", "stop2")
    BY <2>1, Zenon DEF Cancel, OwnerStop, ExitedDone
  <2>2. CASE Stop("stop1", "notify1") \/ Stop("stop2", "notify2")
    BY <2>2, Zenon DEF Stop, OwnerStop, ExitedDone
  <2>3. CASE NotifyAll("notify1", "join1") \/ NotifyAll("notify2", "join2")
    <3>1. \A w \in Workers : worker'[w] = "exited" => worker[w] = "exited"
      BY <1>0, <2>3 DEF NotifyAll
    <3>2. UNCHANGED <<stop, tasks>> /\ OwnerStop'
      BY <2>3, Zenon DEF NotifyAll, OwnerStop
    <3> QED
      BY <3>1, <3>2, Zenon DEF ExitedDone
  <2>4. CASE Joined("join1", "init") \/ Joined("join2", "gone")
    BY <2>4, Zenon DEF Joined, OwnerStop, ExitedDone
  <2>5. CASE InitWorkers("init", "cancel2")
    <3>1. \A w \in Workers : worker'[w] # "exited"
      BY <2>5 DEF InitWorkers
    <3>2. OwnerStop'
      BY <2>5 DEF InitWorkers, OwnerStop
    <3> QED
      BY <3>1, <3>2, Zenon DEF ExitedDone
  <2> QED
    BY <1>4, <2>1, <2>2, <2>3, <2>4, <2>5 DEF Destroy
<1>5. CASE UNCHANGED vars
  BY <1>5, Zenon DEF vars, OwnerStop, ExitedDone
<1> QED
  BY <1>1, <1>2, <1>3, <1>4, <1>5 DEF Next
LEMMA WakeupNext ==
  ASSUME Pool, OwnerStop, NoLostWakeup, [Next]_vars
  PROVE  NoLostWakeup'
<1> DEFINE Awake == \E w \in Workers : worker[w] \in {"check"} \union Tasks
<1>0. /\ "check" \notin Tasks /\ "waiting" \notin Tasks /\ "exited" \notin Tasks
      /\ worker \in [Workers -> {"check", "waiting", "exited"} \union Tasks]
      /\ tasks \in Seq(Tasks)
  BY PoolAssumption DEF Pool, TypeOK
<1>1. ASSUME NEW c \in Clients, Push(c) PROVE NoLostWakeup'
  <2>1. UNCHANGED <<worker, owner>> /\ notifying \subseteq notifying'
    BY <1>1 DEF Push
  <2>2. UNCHANGED tasks \/ notifying' # {}
    BY <1>1 DEF Push
  <2> QED
    BY <2>1, <2>2 DEF NoLostWakeup, Waiting
<1>2. ASSUME NEW c \in Clients, NotifyOne(c) PROVE NoLostWakeup'
  <2>1. UNCHANGED <<tasks, owner>>
    BY <1>2 DEF NotifyOne
  <2>2. CASE Waiting = {} /\ UNCHANGED worker
    BY <2>1, <2>2 DEF NoLostWakeup, Waiting
  <2>3. ASSUME NEW w \in Waiting, worker' = [worker EXCEPT ![w] = "check"]
        PROVE  NoLostWakeup'
    <3>1. Awake' /\ Waiting' \subseteq Waiting
      BY <1>0, <2>3 DEF Waiting
    <3> QED
      BY <2>1, <3>1 DEF NoLostWakeup
  <2> QED
    BY <1>2, <2>2, <2>3 DEF NotifyOne
<1>3. ASSUME NEW w \in Workers, Wait(w) PROVE NoLostWakeup'
  <2>1. tasks' = <<>> /\ owner' = owner /\ ~stop
    BY <1>3 DEF Wait
  <2>2. owner \notin {"join1", "join2"}
    BY <2>1 DEF OwnerStop
  <2> QED
    BY <2>1, <2>2 DEF NoLostWakeup
<1>4. ASSUME NEW w \in Workers, Wake(w) \/ Take(w) \/ RunTask(w) PROVE NoLostWakeup'
  <2>1. worker'[w] \in {"check"} \union Tasks /\ owner' = owner
    BY <1>0, <1>4, PopFacts DEF Wake, Take, RunTask
  <2>2. Waiting' \subseteq Waiting
    BY <1>0, <1>4, PopFacts DEF Wake, Take, RunTask, Waiting
  <2> QED
    BY <2>1, <2>2 DEF NoLostWakeup
<1>5. ASSUME NEW w \in Workers, Exit(w) PROVE NoLostWakeup'
  <2>1. Waiting' \subseteq Waiting /\ tasks' = <<>> /\ owner' = owner
    BY <1>0, <1>5 DEF Exit, Waiting
  <2> QED
    BY <2>1 DEF NoLostWakeup
<1>6. CASE Destroy
  <2>1. CASE Cancel("alive", "stop1") \/ Cancel("cancel2", "stop2")
    BY <2>1 DEF Cancel, NoLostWakeup
  <2>2. CASE Stop("stop1", "notify1") \/ Stop("stop2", "notify2")
    BY <2>2 DEF Stop, NoLostWakeup, Waiting
  <2>3. CASE NotifyAll("notify1", "join1") \/ NotifyAll("notify2", "join2")
    <3>1. Waiting' = {}
      BY <1>0, <2>3 DEF NotifyAll, Waiting
    <3> QED
      BY <3>1 DEF NoLostWakeup
  <2>4. CASE Joined("join1", "init") \/ Joined("join2", "gone")
    BY <2>4 DEF Joined, NoLostWakeup, Waiting
  <2>5. CASE InitWorkers("init", "cancel2")
    <3>1. Waiting' = {}
      BY <2>5 DEF InitWorkers, Waiting
    <3> QED
      BY <3>1 DEF NoLostWakeup
  <2> QED
    BY <1>6, <2>1, <2>2, <2>3, <2>4, <2>5 DEF Destroy
<1>7. CASE UNCHANGED vars
  BY <1>7 DEF vars, NoLostWakeup, Waiting
<1> QED
  BY <1>1, <1>2, <1>3, <1>4, <1>5, <1>6, <1>7 DEF Next

Life == Pool /\ OwnerStop /\ ExitedDone /\ NoLostWakeup

LEMMA LifeInvariant == Spec => []Life
<1>1. Init => Life
  <2> SUFFICES ASSUME Init PROVE Life
    OBVIOUS
  <2>1. OwnerStop /\ ExitedDone
    BY DEF Init, OwnerStop, ExitedDone
  <2>2. NoLostWakeup
    BY DEF Init, NoLostWakeup
  <2> QED
    BY <2>1, <2>2, PoolInit DEF Life
<1>2. Life /\ [Next]_vars => Life'
  BY PoolNext, LifeNext, WakeupNext, Zenon DEF Life
<1> QED
  BY <1>1, <1>2, PTL DEF Spec

\* push and notify_one are two steps, and still no worker sleeps over a queued
\* task that nobody is about to announce, nor through the shutdown.
THEOREM PoolLosesNoWakeup == Spec => []NoLostWakeup
<1>1. Life => NoLostWakeup
  BY DEF Life
<1> QED
  BY <1>1, LifeInvariant, PTL

-----------------------------------------------------------------------------
(* The pool keeps the promises of Futures. *)

LEMMA PromisesInit == Init => Promises!Init
  BY DEF Init, Promises!Init, Answer, Phase

LEMMA PromisesNext ==
  ASSUME Life, [Next]_vars
  PROVE  Promises!Next \/ UNCHANGED <<Answer, Phase>>
<1>0. /\ future \in [Tasks -> {"none", "pending", "ready", "broken", "rejected"}]
      /\ tasks \in Seq(Tasks)
      /\ worker \in [Workers -> {"check", "waiting", "exited"} \union Tasks]
  BY DEF Life, Pool, TypeOK
<1>1. ASSUME NEW c \in Clients, Push(c) PROVE Promises!Next \/ UNCHANGED <<Answer, Phase>>
  <2> DEFINE t == Program[c][pushed[c] + 1]
  <2>1. t \in Tasks /\ future[t] = "none" /\ owner # "gone" /\ owner' = owner
    BY <1>1, NextTask, Zenon DEF Push, Life
  <2>2. future' = [future EXCEPT ![t] = "rejected"] \/ future' = [future EXCEPT ![t] = "pending"]
    BY <1>1, Zenon DEF Push
  <2> HIDE DEF t
  <2>3. CASE future' = [future EXCEPT ![t] = "rejected"]
    BY <1>0, <2>1, <2>3 DEF Answer, Phase
  <2>4. CASE future' = [future EXCEPT ![t] = "pending"]
    <3>1. Answer[t] = "none" /\ Phase # "gone" /\ Phase' = Phase
      BY <2>1 DEF Answer, Phase
    <3>2. Answer' = [Answer EXCEPT ![t] = "pending"]
      BY <1>0, <2>1, <2>4, Zenon DEF Answer
    <3> QED
      BY <2>1, <3>1, <3>2, Zenon DEF Promises!Next, Promises!Accept
  <2> QED
    BY <2>2, <2>3, <2>4
<1>2. ASSUME NEW w \in Workers, RunTask(w) PROVE Promises!Next
  <2>1. /\ worker[w] \in Tasks /\ future' = [future EXCEPT ![worker[w]] = "ready"]
        /\ owner' = owner
    BY <1>2 DEF RunTask
  <2>2. future[worker[w]] = "pending"
    BY <2>1 DEF Life, Pool, TasksConserved
  <2>3. Answer[worker[w]] = "pending" /\ Answer' = [Answer EXCEPT ![worker[w]] = "ready"]
    BY <1>0, <2>1, <2>2, Zenon DEF Answer
  <2> QED
    BY <2>1, <2>3, Zenon DEF Promises!Next, Promises!Complete, Phase
<1>3. CASE Cancel("alive", "stop1") \/ Cancel("cancel2", "stop2")
  <2>1. /\ future' = [t \in Tasks |-> IF t \in Range(tasks) THEN "broken" ELSE future[t]]
        /\ Phase # "gone" /\ Phase' = "closing"
    BY <1>3 DEF Cancel, Phase
  <2>2. Range(tasks) \subseteq Tasks /\ \A t \in Range(tasks) : future[t] = "pending"
    BY <1>0 DEF Life, Pool, TasksConserved, Range
  <2>3. /\ \A t \in Range(tasks) : Answer[t] = "pending"
        /\ Answer' = [t \in Tasks |-> IF t \in Range(tasks) THEN "broken" ELSE Answer[t]]
    BY <1>0, <2>1, <2>2 DEF Answer
  <2> QED
    BY <2>1, <2>2, <2>3 DEF Promises!Next, Promises!Close
<1>4. CASE Joined("join2", "gone")
  <2>1. /\ owner = "join2" /\ owner' = "gone" /\ future' = future
        /\ \A w \in Workers : worker[w] = "exited"
    BY <1>4 DEF Joined
  <2>2. tasks = <<>>
    BY <2>1, PoolAssumption DEF Life, ExitedDone
  <2>3. \A t \in Tasks : future[t] # "pending"
    BY <2>1, <2>2, PoolAssumption DEF Life, Pool, TasksConserved, Range
  <2>4. \A t \in Tasks : Answer[t] # "pending"
    BY <2>3 DEF Answer
  <2>5. Phase = "closing" /\ Phase' = "gone" /\ Answer' = Answer
    BY <2>1 DEF Answer, Phase
  <2> QED
    BY <2>4, <2>5 DEF Promises!Next, Promises!Destroy
<1>5. CASE \/ \E c \in Clients : NotifyOne(c)
           \/ \E w \in Workers : Wait(w) \/ Wake(w) \/ Exit(w) \/ Take(w)
           \/ UNCHANGED vars
  <2>1. UNCHANGED <<future, owner>>
    BY <1>5 DEF NotifyOne, Wait, Wake, Exit, Take, vars
  <2> QED
    BY <2>1 DEF Answer, Phase
<1>6. CASE \/ Stop("stop1", "notify1") \/ Stop("stop2", "notify2")
           \/ NotifyAll("notify1", "join1") \/ NotifyAll("notify2", "join2")
           \/ Joined("join1", "init") \/ InitWorkers("init", "cancel2")
  <2>1. Phase = "closing" /\ Phase' = "closing" /\ future' = future
    BY <1>6 DEF Stop, NotifyAll, Joined, InitWorkers, Phase
  <2> QED
    BY <2>1 DEF Answer
<1> QED
  BY <1>1, <1>2, <1>3, <1>4, <1>5, <1>6 DEF Next, Destroy

\* The pool implements Futures: a future resolves once, is broken only by the
\* destructor, and none is pending when the destructor has returned, whatever
\* clients push while it runs and however its two shutdowns interleave.
THEOREM PoolKeepsPromises == Spec => KeepsPromises
<1>1. Life /\ [Next]_vars => [Promises!Next]_<<Answer, Phase>>
  BY PromisesNext
<1> QED
  BY <1>1, LifeInvariant, PromisesInit, PTL DEF Spec, KeepsPromises, Promises!Spec
-----------------------------------------------------------------------------
(* Tasks start in the order of the pushes. *)

Ordered == StartedInOrder /\ QueuedInOrder

\* The positions an order property speaks of are positions of the program.
LEMMA PushedTask ==
  ASSUME Pool, NEW c \in Clients, NEW i \in 1 .. pushed[c]
  PROVE  i \in DOMAIN Program[c] /\ Program[c][i] \in Tasks
<1>1. Program[c] \in Seq(Tasks) /\ pushed[c] \in Nat /\ pushed[c] <= Len(Program[c])
  BY PoolAssumption DEF Pool, TypeOK, PushedBounded
<1> QED
  BY <1>1

LEMMA OrderedPush ==
  ASSUME Pool, Pool', Ordered, NEW c \in Clients, Push(c)
  PROVE  Ordered'
<1> DEFINE n == pushed[c] + 1
           t == Program[c][n]
<1>1. /\ t \in Tasks /\ t \notin Range(tasks)
      /\ \A w \in Workers : worker[w] # t
  BY NextTask, Zenon DEF Push
<1>2. /\ pushed' = [pushed EXCEPT ![c] = @ + 1] /\ worker' = worker
      /\ pushed \in [Clients -> Nat] /\ tasks \in Seq(Tasks)
      /\ future \in [Tasks -> {"none", "pending", "ready", "broken", "rejected"}]
  BY Zenon DEF Push, Pool, TypeOK
<1>3. /\ \A u \in Tasks : u # t => future'[u] = future[u]
      /\ future'[t] # "ready"
  <2>1. future' = [future EXCEPT ![t] = "rejected"] \/ future' = [future EXCEPT ![t] = "pending"]
    BY Zenon DEF Push
  <2> HIDE DEF t
  <2> QED
    BY <1>1, <1>2, <2>1
<1>4. \/ tasks' = tasks
      \/ t \in Urgent /\ tasks' = <<t>> \o tasks
      \/ t \notin Urgent /\ tasks' = Append(tasks, t)
  BY Zenon DEF Push
<1>5. ASSUME NEW d \in Clients, NEW i \in 1 .. pushed'[d], Program[d][i] = t
      PROVE  d = c /\ i = n
  <2>1. i \in DOMAIN Program[d]
    BY PoolAssumption DEF Pool, TypeOK, PushedBounded
  <2>2. n \in DOMAIN Program[c]
    BY <1>2, PoolAssumption DEF Push
  <2> QED
    BY <1>5, <2>1, <2>2, PoolAssumption
<1>6. ASSUME NEW d \in Clients, NEW i \in 1 .. pushed'[d], Program[d][i] # t
      PROVE  i \in 1 .. pushed[d] /\ Program[d][i] \in Tasks
  <2>1. i \in 1 .. pushed[d]
    BY <1>2, <1>6
  <2> QED
    BY <2>1, PushedTask
<1>7. Range(tasks') \subseteq {t} \union Range(tasks)
  <2> HIDE DEF t
  <2>1. Range(<<t>> \o tasks) = {t} \union Range(tasks)
    BY <1>1, <1>2, FrontFacts, Zenon
  <2>2. Range(Append(tasks, t)) = {t} \union Range(tasks)
    BY <1>1, <1>2, BackFacts, Zenon
  <2> QED
    BY <1>4, <2>1, <2>2, Zenon
<1>8. ASSUME NEW d \in Clients, NEW i \in 1 .. pushed'[d], NEW j \in 1 .. pushed'[d], i < j
      PROVE  Program[d][i] # t
  BY <1>2, <1>5, <1>8
<1> HIDE DEF t, n
<1>9. StartedInOrder'
  <2> SUFFICES ASSUME NEW d \in Clients, NEW i \in 1 .. pushed'[d], NEW j \in 1 .. pushed'[d],
                      i < j, Program[d][i] \notin Urgent, Program[d][j] \notin Urgent,
                      Program[d][i] \in Range(tasks')
               PROVE  /\ \A w \in Workers : worker'[w] # Program[d][j]
                      /\ future'[Program[d][j]] # "ready"
    BY DEF StartedInOrder
  <2>1. Program[d][i] # t /\ Program[d][i] \in Range(tasks) /\ i \in 1 .. pushed[d]
    BY <1>6, <1>7, <1>8
  <2>2. CASE Program[d][j] = t
    BY <1>1, <1>2, <1>3, <2>2
  <2>3. CASE Program[d][j] # t
    <3>1. j \in 1 .. pushed[d] /\ Program[d][j] \in Tasks
      BY <1>6, <2>3, Zenon
    <3> QED
      BY <1>2, <1>3, <2>1, <2>3, <3>1 DEF Ordered, StartedInOrder
  <2> QED
    BY <2>2, <2>3
<1>10. QueuedInOrder'
  <2> SUFFICES ASSUME NEW d \in Clients, NEW i \in 1 .. pushed'[d], NEW j \in 1 .. pushed'[d],
                      NEW k \in DOMAIN tasks', NEW l \in DOMAIN tasks',
                      i < j, Program[d][i] \notin Urgent, Program[d][j] \notin Urgent,
                      tasks'[k] = Program[d][i], tasks'[l] = Program[d][j]
               PROVE  k < l
    BY DEF QueuedInOrder
  <2>1. Program[d][i] # t /\ i \in 1 .. pushed[d]
    BY <1>6, <1>8
  <2>2. CASE tasks' = tasks
    <3>1. l \in DOMAIN tasks /\ Program[d][j] # t
      BY <1>1, <2>2, Zenon DEF Range
    <3> QED
      BY <1>6, <2>1, <2>2, <3>1, Zenon DEF Ordered, QueuedInOrder
  <2>3. CASE t \in Urgent /\ tasks' = <<t>> \o tasks
    <3>1. /\ Len(tasks') = Len(tasks) + 1 /\ tasks'[1] = t /\ tasks' \in Seq(Tasks)
          /\ \A m \in 2 .. Len(tasks) + 1 : tasks'[m] = tasks[m - 1]
      BY <1>1, <1>2, <2>3, FrontFacts
    <3>2. Program[d][j] # t /\ j \in 1 .. pushed[d]
      BY <1>6, <2>3, Zenon
    <3>6. ASSUME NEW m \in DOMAIN tasks', tasks'[m] # t
          PROVE  m - 1 \in DOMAIN tasks /\ tasks[m - 1] = tasks'[m]
      <4>1. m # 1
        BY <3>1, <3>6, Zenon
      <4>2. m \in 1 .. Len(tasks) + 1 /\ Len(tasks) \in Nat /\ DOMAIN tasks = 1 .. Len(tasks)
        BY <1>2, <3>1
      <4>3. m \in 2 .. Len(tasks) + 1 /\ m - 1 \in 1 .. Len(tasks)
        BY <4>1, <4>2
      <4> QED
        BY <3>1, <4>2, <4>3, Zenon
    <3>3. k - 1 \in DOMAIN tasks /\ tasks[k - 1] = Program[d][i]
      BY <2>1, <3>6, Zenon
    <3>4. l - 1 \in DOMAIN tasks /\ tasks[l - 1] = Program[d][j]
      BY <3>2, <3>6, Zenon
    <3>5. k - 1 < l - 1
      BY <2>1, <3>2, <3>3, <3>4, Zenon DEF Ordered, QueuedInOrder
    <3> QED
      BY <1>2, <3>1, <3>5
  <2>4. CASE t \notin Urgent /\ tasks' = Append(tasks, t)
    <3>1. /\ Len(tasks') = Len(tasks) + 1 /\ tasks'[Len(tasks) + 1] = t /\ tasks' \in Seq(Tasks)
          /\ \A m \in 1 .. Len(tasks) : tasks'[m] = tasks[m]
      BY <1>1, <1>2, <2>4, BackFacts
    <3>2. k \in DOMAIN tasks /\ tasks[k] = Program[d][i]
      <4>1. k \in 1 .. Len(tasks) + 1 /\ Len(tasks) \in Nat /\ DOMAIN tasks = 1 .. Len(tasks)
        BY <1>2, <3>1
      <4>2. k # Len(tasks) + 1
        BY <2>1, <3>1, Zenon
      <4>3. k \in 1 .. Len(tasks)
        BY <4>1, <4>2
      <4> QED
        BY <3>1, <4>1, <4>3, Zenon
    <3>3. CASE l = Len(tasks) + 1
      BY <1>2, <3>2, <3>3
    <3>4. CASE l # Len(tasks) + 1
      <4>1. l \in DOMAIN tasks /\ tasks[l] = Program[d][j]
        <5>1. l \in 1 .. Len(tasks) + 1 /\ Len(tasks) \in Nat /\ DOMAIN tasks = 1 .. Len(tasks)
          BY <1>2, <3>1
        <5>2. l \in 1 .. Len(tasks)
          BY <3>4, <5>1
        <5> QED
          BY <3>1, <5>1, <5>2, Zenon
      <4>2. Program[d][j] # t
        BY <1>1, <4>1 DEF Range
      <4>3. j \in 1 .. pushed[d]
        BY <1>6, <4>2
      <4> QED
        BY <2>1, <3>2, <4>1, <4>3, Zenon DEF Ordered, QueuedInOrder
    <3> QED
      BY <3>3, <3>4
  <2> QED
    BY <1>4, <2>2, <2>3, <2>4, Zenon
<1> QED
  BY <1>9, <1>10 DEF Ordered

LEMMA OrderedTake ==
  ASSUME Pool, Ordered, NEW w \in Workers, Take(w)
  PROVE  Ordered'
<1>1. /\ tasks # <<>> /\ tasks' = Tail(tasks)
      /\ worker' = [worker EXCEPT ![w] = Head(tasks)]
      /\ UNCHANGED <<future, pushed>>
      /\ tasks \in Seq(Tasks) /\ worker \in [Workers -> {"check", "waiting", "exited"} \union Tasks]
  BY DEF Take, Pool, TypeOK
<1>2. /\ tasks' \in Seq(Tasks) /\ Len(tasks') = Len(tasks) - 1 /\ Len(tasks) \in Nat \ {0}
      /\ Head(tasks) = tasks[1]
      /\ \A i \in 1 .. Len(tasks) - 1 : tasks'[i] = tasks[i + 1]
      /\ Range(tasks) = {Head(tasks)} \union Range(tasks')
  BY <1>1, PopFacts
<1>3. StartedInOrder'
  <2> SUFFICES ASSUME NEW c \in Clients, NEW i \in 1 .. pushed[c], NEW j \in 1 .. pushed[c],
                      i < j, Program[c][i] \notin Urgent, Program[c][j] \notin Urgent,
                      Program[c][i] \in Range(tasks')
               PROVE  /\ \A x \in Workers : worker'[x] # Program[c][j]
                      /\ future[Program[c][j]] # "ready"
    BY <1>1 DEF StartedInOrder
  <2>1. /\ \A x \in Workers : worker[x] # Program[c][j]
        /\ future[Program[c][j]] # "ready"
    BY <1>2, Zenon DEF Ordered, StartedInOrder
  <2>2. Head(tasks) # Program[c][j]
    <3> SUFFICES ASSUME tasks[1] = Program[c][j] PROVE FALSE
      BY <1>2, Zenon
    <3>0. PICK k \in DOMAIN tasks' : tasks'[k] = Program[c][i]
      BY DEF Range
    <3>1. k \in 1 .. Len(tasks) - 1 /\ tasks'[k] = Program[c][i]
      BY <1>2, <3>0
    <3>2. k + 1 \in DOMAIN tasks /\ tasks[k + 1] = Program[c][i] /\ 1 \in DOMAIN tasks
      BY <1>1, <1>2, <3>1
    <3>3. k + 1 < 1
      BY <3>2, Zenon DEF Ordered, QueuedInOrder
    <3> QED
      BY <1>2, <3>1, <3>3
  <2> QED
    BY <1>1, <2>1, <2>2
<1>4. QueuedInOrder'
  <2>0. DOMAIN tasks' = 1 .. Len(tasks) - 1 /\ pushed' = pushed
    BY <1>1, <1>2
  <2> SUFFICES ASSUME NEW c \in Clients, NEW i \in 1 .. pushed'[c], NEW j \in 1 .. pushed'[c],
                      NEW k \in DOMAIN tasks', NEW l \in DOMAIN tasks',
                      i < j, Program[c][i] \notin Urgent, Program[c][j] \notin Urgent,
                      tasks'[k] = Program[c][i], tasks'[l] = Program[c][j]
               PROVE  k < l
    BY DEF QueuedInOrder
  <2>3. ASSUME NEW m \in DOMAIN tasks'
        PROVE  m + 1 \in DOMAIN tasks /\ tasks[m + 1] = tasks'[m]
    BY <1>1, <1>2, <2>0
  <2>1. /\ k + 1 \in DOMAIN tasks /\ tasks[k + 1] = Program[c][i]
        /\ l + 1 \in DOMAIN tasks /\ tasks[l + 1] = Program[c][j]
    BY <2>3, Zenon
  <2>2. k + 1 < l + 1
    BY <2>0, <2>1, Zenon DEF Ordered, QueuedInOrder
  <2> QED
    BY <2>0, <2>2
<1> QED
  BY <1>3, <1>4 DEF Ordered

\* Workers that only check, wait or leave, and a destructor that does not empty
\* the deque, disturb no order.
LEMMA OrderedIdle ==
  ASSUME Ordered, UNCHANGED <<tasks, future, pushed>>, Pool,
         \A w \in Workers : worker'[w] = worker[w] \/ worker'[w] \notin Tasks
  PROVE  Ordered'
<1>1. QueuedInOrder'
  BY DEF Ordered, QueuedInOrder
<1>2. StartedInOrder'
  <2> SUFFICES ASSUME NEW c \in Clients, NEW i \in 1 .. pushed[c], NEW j \in 1 .. pushed[c],
                      i < j, Program[c][i] \notin Urgent, Program[c][j] \notin Urgent,
                      Program[c][i] \in Range(tasks)
               PROVE  /\ \A x \in Workers : worker'[x] # Program[c][j]
                      /\ future[Program[c][j]] # "ready"
    BY DEF StartedInOrder, Range
  <2>1. Program[c][j] \in Tasks
    BY PushedTask
  <2> QED
    BY <2>1, Zenon DEF Ordered, StartedInOrder
<1> QED
  BY <1>1, <1>2 DEF Ordered

LEMMA OrderedNext == Pool /\ Pool' /\ Ordered /\ [Next]_vars => Ordered'
<1> SUFFICES ASSUME Pool, Pool', Ordered, [Next]_vars PROVE Ordered'
  OBVIOUS
<1>0. /\ "check" \notin Tasks /\ "waiting" \notin Tasks /\ "exited" \notin Tasks
      /\ worker \in [Workers -> {"check", "waiting", "exited"} \union Tasks]
  BY PoolAssumption DEF Pool, TypeOK
<1>1. CASE \E c \in Clients : Push(c)
  BY <1>1, OrderedPush
<1>2. CASE \E w \in Workers : Take(w)
  BY <1>2, OrderedTake
<1>3. CASE \E w \in Workers : RunTask(w)
  <2>1. PICK w \in Workers : RunTask(w)
    BY <1>3
  <2>2. /\ worker[w] \in Tasks /\ future' = [future EXCEPT ![worker[w]] = "ready"]
        /\ worker' = [worker EXCEPT ![w] = "check"] /\ UNCHANGED <<tasks, pushed>>
        /\ future \in [Tasks -> {"none", "pending", "ready", "broken", "rejected"}]
    BY <2>1 DEF RunTask, Pool, TypeOK
  <2>3. QueuedInOrder'
    BY <2>2 DEF Ordered, QueuedInOrder
  <2>4. StartedInOrder'
    <3> SUFFICES ASSUME NEW c \in Clients, NEW i \in 1 .. pushed[c], NEW j \in 1 .. pushed[c],
                        i < j, Program[c][i] \notin Urgent, Program[c][j] \notin Urgent,
                        Program[c][i] \in Range(tasks)
                 PROVE  /\ \A x \in Workers : worker'[x] # Program[c][j]
                        /\ future'[Program[c][j]] # "ready"
      BY <2>2 DEF StartedInOrder, Range
    <3>1. Program[c][j] \in Tasks
      BY PushedTask
    <3>2. /\ \A x \in Workers : worker[x] # Program[c][j]
          /\ future[Program[c][j]] # "ready"
      BY Zenon DEF Ordered, StartedInOrder
    <3> QED
      BY <1>0, <2>2, <3>1, <3>2, Zenon
  <2> QED
    BY <2>3, <2>4 DEF Ordered
<1>4. CASE Cancel("alive", "stop1") \/ Cancel("cancel2", "stop2")
  <2>1. tasks' = <<>>
    BY <1>4 DEF Cancel
  <2> QED
    BY <2>1 DEF Ordered, StartedInOrder, QueuedInOrder, Range
<1>5. CASE \/ \E c \in Clients : NotifyOne(c)
           \/ \E w \in Workers : Wait(w) \/ Wake(w) \/ Exit(w)
           \/ UNCHANGED vars
  <2>1. UNCHANGED <<tasks, future, pushed>>
    BY <1>5 DEF NotifyOne, Wait, Wake, Exit, vars
  <2>2. \A w \in Workers : worker'[w] = worker[w] \/ worker'[w] \notin Tasks
    BY <1>0, <1>5 DEF NotifyOne, Wait, Wake, Exit, vars
  <2> QED
    BY <2>1, <2>2, OrderedIdle
<1>6. CASE \/ Stop("stop1", "notify1") \/ Stop("stop2", "notify2")
           \/ NotifyAll("notify1", "join1") \/ NotifyAll("notify2", "join2")
           \/ Joined("join1", "init") \/ Joined("join2", "gone")
           \/ InitWorkers("init", "cancel2")
  <2>1. UNCHANGED <<tasks, future, pushed>>
    BY <1>6 DEF Stop, NotifyAll, Joined, InitWorkers
  <2>2. \A w \in Workers : worker'[w] = worker[w] \/ worker'[w] \notin Tasks
    BY <1>0, <1>6 DEF Stop, NotifyAll, Joined, InitWorkers
  <2> QED
    BY <2>1, <2>2, OrderedIdle
<1> QED
  BY <1>1, <1>2, <1>3, <1>4, <1>5, <1>6 DEF Next, Destroy

\* push_front and push_back mixed, and a shutdown in between, never let a task
\* pushed at the back start before an earlier one of the same client.
THEOREM PoolStartsInOrder == Spec => []StartedInOrder
<1>1. Init => Ordered
  BY DEF Init, Ordered, StartedInOrder, QueuedInOrder, Range
<1>2. Spec => []Pool
  BY PoolInit, PoolNext, PTL DEF Spec
<1>3. Spec => []Ordered
  BY <1>1, <1>2, OrderedNext, PTL DEF Spec
<1>4. Ordered => StartedInOrder
  BY DEF Ordered
<1> QED
  BY <1>3, <1>4, PTL
=============================================================================
