---------------------------- MODULE ThreadPool ----------------------------
(***************************************************************************)
(* The thread pool of the tg runtime (src/tg/thread_pool.h), which runs    *)
(* the scheduling, building and measuring tasks: a deque under one mutex,  *)
(* a condition variable, worker threads, clients that push, and the thread *)
(* that destroys the pool.  A critical section is one step; releasing the  *)
(* mutex and notifying are two, so that a wakeup can fall between any two  *)
(* steps of the others.  A worker may also wake without being notified.    *)
(***************************************************************************)
EXTENDS Integers, Sequences, FiniteSets, Functions

CONSTANTS
  Workers,   \* the threads of the pool
  Clients,   \* the threads that push
  Tasks,     \* the tasks they push
  Urgent,    \* the tasks pushed by push_front, the others by push_back
  Program    \* Program[c]: the tasks client c pushes, in order

ASSUME PoolAssumption ==
  /\ IsFiniteSet(Workers) /\ Workers # {}
  /\ Urgent \subseteq Tasks
  /\ Program \in [Clients -> Seq(Tasks)]
  /\ \A c, d \in Clients : \A i \in DOMAIN Program[c], j \in DOMAIN Program[d] :
       Program[c][i] = Program[d][j] => c = d /\ i = j
  /\ Tasks \intersect {"check", "waiting", "exited"} = {}

VARIABLES
  tasks,     \* the deque
  stop,
  worker,    \* of each worker: "check" (about to lock), "waiting" on the
             \* condition, "exited", or the task it runs
  future,    \* of each task: "none", "pending", "ready", "broken", "rejected"
  pushed,    \* how many tasks of its program each client has pushed
  notifying, \* the clients between their critical section and notify_one
  owner      \* the step of ~ThreadPool, "alive" before and "gone" after

vars == <<tasks, stop, worker, future, pushed, notifying, owner>>

Waiting == {w \in Workers : worker[w] = "waiting"}

Init ==
  /\ tasks = <<>> /\ stop = FALSE
  /\ worker = [w \in Workers |-> "check"]
  /\ future = [t \in Tasks |-> "none"]
  /\ pushed = [c \in Clients |-> 0]
  /\ notifying = {}
  /\ owner = "alive"

----------------------------------------------------------------------------
(* Clients.                                                                *)

\* Mutants of Push: nobody is notified; every task goes to the front.
Push_NotifiesNobody(c) ==
  /\ owner # "gone" /\ c \notin notifying /\ pushed[c] < Len(Program[c])
  /\ LET t == Program[c][pushed[c] + 1] IN
       IF stop
       THEN /\ future' = [future EXCEPT ![t] = "rejected"]
            /\ UNCHANGED tasks
       ELSE /\ future' = [future EXCEPT ![t] = "pending"]
            /\ tasks' = IF t \in Urgent THEN <<t>> \o tasks ELSE Append(tasks, t)
  /\ pushed' = [pushed EXCEPT ![c] = @ + 1]
  /\ UNCHANGED <<stop, worker, notifying, owner>>

Push_AlwaysFront(c) ==
  /\ owner # "gone" /\ c \notin notifying /\ pushed[c] < Len(Program[c])
  /\ LET t == Program[c][pushed[c] + 1] IN
       IF stop
       THEN /\ future' = [future EXCEPT ![t] = "rejected"]
            /\ UNCHANGED <<tasks, notifying>>
       ELSE /\ future' = [future EXCEPT ![t] = "pending"]
            /\ tasks' = <<t>> \o tasks
            /\ notifying' = notifying \union {c}
  /\ pushed' = [pushed EXCEPT ![c] = @ + 1]
  /\ UNCHANGED <<stop, worker, owner>>

\* The critical section of push_back and push_front.  The pool is an object:
\* nobody pushes once it is gone.
Push(c) ==
  /\ owner # "gone" /\ c \notin notifying /\ pushed[c] < Len(Program[c])
  /\ LET t == Program[c][pushed[c] + 1] IN
       IF stop
       THEN /\ future' = [future EXCEPT ![t] = "rejected"]
            /\ UNCHANGED <<tasks, notifying>>
       ELSE /\ future' = [future EXCEPT ![t] = "pending"]
            /\ tasks' = IF t \in Urgent THEN <<t>> \o tasks ELSE Append(tasks, t)
            /\ notifying' = notifying \union {c}
  /\ pushed' = [pushed EXCEPT ![c] = @ + 1]
  /\ UNCHANGED <<stop, worker, owner>>

\* notify_one, outside the mutex: it wakes one worker if one waits.
NotifyOne(c) ==
  /\ c \in notifying
  /\ notifying' = notifying \ {c}
  /\ \/ Waiting = {} /\ UNCHANGED worker
     \/ \E w \in Waiting : worker' = [worker EXCEPT ![w] = "check"]
  /\ UNCHANGED <<tasks, stop, future, pushed, owner>>

----------------------------------------------------------------------------
(* Workers.                                                                *)

\* The predicate of wait is false: the worker releases the mutex and waits.
Wait(w) ==
  /\ worker[w] = "check" /\ ~stop /\ tasks = <<>>
  /\ worker' = [worker EXCEPT ![w] = "waiting"]
  /\ UNCHANGED <<tasks, stop, future, pushed, notifying, owner>>

Wake(w) ==
  /\ worker[w] = "waiting"
  /\ worker' = [worker EXCEPT ![w] = "check"]
  /\ UNCHANGED <<tasks, stop, future, pushed, notifying, owner>>

\* Mutant of Exit: a worker leaves as soon as the pool is stopped.
Exit_LeavesTasks(w) ==
  /\ worker[w] = "check" /\ stop
  /\ worker' = [worker EXCEPT ![w] = "exited"]
  /\ UNCHANGED <<tasks, stop, future, pushed, notifying, owner>>

Exit(w) ==
  /\ worker[w] = "check" /\ stop /\ tasks = <<>>
  /\ worker' = [worker EXCEPT ![w] = "exited"]
  /\ UNCHANGED <<tasks, stop, future, pushed, notifying, owner>>

\* Mutant of Take: the task stays in the deque.
Take_NotPopped(w) ==
  /\ worker[w] = "check" /\ tasks # <<>>
  /\ worker' = [worker EXCEPT ![w] = Head(tasks)]
  /\ UNCHANGED <<tasks, stop, future, pushed, notifying, owner>>

Take(w) ==
  /\ worker[w] = "check" /\ tasks # <<>>
  /\ worker' = [worker EXCEPT ![w] = Head(tasks)]
  /\ tasks' = Tail(tasks)
  /\ UNCHANGED <<stop, future, pushed, notifying, owner>>

\* task(): a packaged_task stores its value, or the exception it throws.
RunTask(w) ==
  /\ worker[w] \in Tasks
  /\ future' = [future EXCEPT ![worker[w]] = "ready"]
  /\ worker' = [worker EXCEPT ![w] = "check"]
  /\ UNCHANGED <<tasks, stop, pushed, notifying, owner>>

----------------------------------------------------------------------------
(* ~ThreadPool: Reset (DropAll, Join, Init), DropAll and Join.             *)

\* tasks.clear(): the packaged tasks are destroyed, their promises broken.
Cancel(from, to) ==
  /\ owner = from /\ owner' = to
  /\ future' = [t \in Tasks |-> IF t \in Range(tasks) THEN "broken" ELSE future[t]]
  /\ tasks' = <<>>
  /\ UNCHANGED <<stop, worker, pushed, notifying>>

Stop(from, to) ==
  /\ owner = from /\ owner' = to
  /\ stop' = TRUE
  /\ UNCHANGED <<tasks, worker, future, pushed, notifying>>

\* Mutant of NotifyAll: Join does not wake the workers it joins.
NotifyAll_Nobody(from, to) ==
  /\ owner = from /\ owner' = to
  /\ UNCHANGED <<tasks, stop, worker, future, pushed, notifying>>

NotifyAll(from, to) ==
  /\ owner = from /\ owner' = to
  /\ worker' = [w \in Workers |-> IF w \in Waiting THEN "check" ELSE worker[w]]
  /\ UNCHANGED <<tasks, stop, future, pushed, notifying>>

\* Every worker joined.
Joined(from, to) ==
  /\ owner = from /\ owner' = to
  /\ \A w \in Workers : worker[w] = "exited"
  /\ UNCHANGED <<tasks, stop, worker, future, pushed, notifying>>

InitWorkers(from, to) ==
  /\ owner = from /\ owner' = to
  /\ stop' = FALSE
  /\ worker' = [w \in Workers |-> "check"]
  /\ UNCHANGED <<tasks, future, pushed, notifying>>

Destroy ==
  \/ Cancel("alive", "stop1") \/ Stop("stop1", "notify1")
  \/ NotifyAll("notify1", "join1") \/ Joined("join1", "init")
  \/ InitWorkers("init", "cancel2")
  \/ Cancel("cancel2", "stop2") \/ Stop("stop2", "notify2")
  \/ NotifyAll("notify2", "join2") \/ Joined("join2", "gone")

Next ==
  \/ \E c \in Clients : Push(c) \/ NotifyOne(c)
  \/ \E w \in Workers : Wait(w) \/ Wake(w) \/ Exit(w) \/ Take(w) \/ RunTask(w)
  \/ Destroy

Spec == Init /\ [][Next]_vars

\* Threads run, a client that has pushed notifies, and the destructor, once
\* begun, goes on.  Nobody has to push or to destroy, and no worker may count
\* on waking without a notification.
Fairness ==
  /\ \A c \in Clients : WF_vars(NotifyOne(c))
  /\ \A w \in Workers : WF_vars(Wait(w) \/ Exit(w) \/ Take(w) \/ RunTask(w))
  /\ WF_vars(owner # "alive" /\ Destroy)

FairSpec == Spec /\ Fairness

----------------------------------------------------------------------------
(* Properties.                                                             *)

\* The types of the state of the pool.
TypeOK ==
  /\ tasks \in Seq(Tasks) /\ stop \in BOOLEAN
  /\ worker \in [Workers -> {"check", "waiting", "exited"} \union Tasks]
  /\ future \in [Tasks -> {"none", "pending", "ready", "broken", "rejected"}]
  /\ pushed \in [Clients -> Nat] /\ notifying \subseteq Clients
  /\ owner \in {"alive", "stop1", "notify1", "join1", "init", "cancel2", "stop2",
                "notify2", "join2", "gone"}

\* A pending task is in the deque or in the hands of one worker, never in both
\* and never twice; whatever is in the deque or runs is pending.
TasksConserved ==
  /\ \A i, j \in DOMAIN tasks : tasks[i] = tasks[j] => i = j
  /\ \A w, x \in Workers : worker[w] \in Tasks /\ worker[w] = worker[x] => w = x
  /\ \A w \in Workers : worker[w] \notin Range(tasks)
  /\ \A t \in Tasks : future[t] = "pending" <=>
       t \in Range(tasks) \/ \E w \in Workers : worker[w] = t

\* No wakeup is lost: while tasks are queued some worker is awake, or a client
\* is about to notify one that waits; and once stop is set and everyone has
\* been notified nobody waits.
NoLostWakeup ==
  /\ tasks # <<>> /\ Waiting # {} =>
       notifying # {} \/ \E w \in Workers : worker[w] \in {"check"} \union Tasks
  /\ owner \in {"join1", "join2"} => Waiting = {}

\* Tasks pushed at the back by one client start in the order they were pushed.
StartedInOrder ==
  \A c \in Clients : \A i, j \in 1 .. pushed[c] :
    i < j /\ Program[c][i] \notin Urgent /\ Program[c][j] \notin Urgent
          /\ Program[c][i] \in Range(tasks)
      => /\ \A w \in Workers : worker[w] # Program[c][j]
         /\ future[Program[c][j]] # "ready"

\* What a client sees of the pool: a rejected push leaves no future.
Answer == [t \in Tasks |-> IF future[t] = "rejected" THEN "none" ELSE future[t]]

Phase == IF owner = "alive" THEN "open" ELSE IF owner = "gone" THEN "gone" ELSE "closing"

Promises == INSTANCE Futures WITH future <- Answer, pool <- Phase

\* The pool keeps the promises about futures (Futures), pushes that race with
\* its destructor included.
KeepsPromises == Promises!Spec

\* Every task the pool accepts is run, or dropped by the destructor.
TasksResolve == \A t \in Tasks : future[t] = "pending" ~> future[t] # "pending"

\* The destructor returns.
DestroyReturns == owner # "alive" ~> owner = "gone"
============================================================================
