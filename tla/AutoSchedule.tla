---------------------------- MODULE AutoSchedule ----------------------------
(* One AutoScheduleContext of tg's AutoScheduler: the schedule thread        *)
(* (auto_schedule) drains the heap of the best schedules to read it and puts *)
(* it back, and hands out an entity; the build and evaluate threads report   *)
(* what became of it (add_feedback). Nothing locks the context.              *)
(* Source: src/tg/autoschedule/auto_schedule.{h,cc}.                         *)
(* An entity is a model value; what a schedule does to code, the cost model  *)
(* and the random choices are any choice. choose_one and the parser allocate *)
(* an object for every entity, and known_schedules and knowing_schedules     *)
(* hash the pointer (ObjectHash), so that they hold objects: an object is    *)
(* its number in the order of allocation, and two may be equal as entities.  *)
(* One heap or hash-set operation is one step, although the C++ gives        *)
(* concurrent ones no meaning at all.                                        *)
EXTENDS Naturals, Sequences, FiniteSets

CONSTANTS Entities,      \* points of the MultiScheduleSpace
          Topk,          \* AutoScheduleContextNode::topk
          KnownLimit,    \* 2000 in add_feedback
          MaxValue,      \* bound: evaluations are 0 .. MaxValue, 0 a failure
          MaxSchedules   \* bound: calls of auto_schedule

ASSUME AutoScheduleAssumption ==
    /\ Topk \in Nat \ {0} /\ KnownLimit \in Nat \ {0}
    /\ MaxValue \in Nat \ {0} /\ MaxSchedules \in Nat

VARIABLES
    pc,            \* where auto_schedule is: "idle", "drain", "return", "choose", "finish"
    reverse_sort,  \* its local vector, as feedback numbers
    returned,      \* how many of them it has pushed back
    candidates,    \* new_candidates that had to be new, as objects
    counts,        \* context->counts
    topk,          \* topk_schedules, as feedback numbers
    known,         \* known_schedules, as objects
    knowing,       \* knowing_schedules, as objects
    fed,           \* every feedback with an evaluation so far
    made,          \* object -> its entity
    waiting,       \* objects handed out and not yet fed back
    threads        \* the threads of a session; FALSE: one thread, as
                   \* get_schedule_result runs the scheduler

local == <<pc, reverse_sort, returned, candidates>>
vars == <<local, counts, topk, known, knowing, fed, made, waiting, threads>>

Init ==
    /\ pc = "idle" /\ reverse_sort = <<>> /\ returned = 0 /\ candidates = {}
    /\ counts = 0
    /\ topk = {} /\ known = {} /\ knowing = {}
    /\ fed = <<>> /\ made = <<>>
    /\ waiting = {}
    /\ threads \in BOOLEAN

\* topk_schedules.top(): the heap is ordered by std::greater, its top is a worst one.
IsTop(i) == i \in topk /\ \A j \in topk : fed[i] <= fed[j]

-----------------------------------------------------------------------------
(* auto_schedule, called by schedule_func for schedule_for                   *)

Begin ==
    /\ pc = "idle" /\ counts < MaxSchedules
    /\ pc' = "drain" /\ reverse_sort' = <<>> /\ returned' = 0
    /\ UNCHANGED <<candidates, counts, topk, known, knowing, fed, made, waiting, threads>>

\* One turn of the loop that empties the heap.
Drain ==
    /\ pc = "drain" /\ topk # {}
    /\ \E i \in topk : /\ IsTop(i)
                       /\ reverse_sort' = Append(reverse_sort, i)
                       /\ topk' = topk \ {i}
    /\ UNCHANGED <<pc, returned, candidates, counts, known, knowing, fed, made, waiting, threads>>

Drained ==
    /\ pc = "drain" /\ topk = {}
    /\ pc' = "return"
    /\ UNCHANGED <<reverse_sort, returned, candidates, counts, topk, known, knowing, fed,
                   made, waiting, threads>>

Return_Lost ==
    /\ pc = "return" /\ returned < Len(reverse_sort)
    /\ returned' = Len(reverse_sort)
    /\ UNCHANGED <<pc, reverse_sort, candidates, counts, topk, known, knowing, fed, made, waiting, threads>>

Return ==
    /\ pc = "return" /\ returned < Len(reverse_sort)
    /\ returned' = returned + 1
    /\ topk' = topk \cup {reverse_sort[returned + 1]}
    /\ UNCHANGED <<pc, reverse_sort, candidates, counts, known, knowing, fed, made, waiting, threads>>

Returned ==
    /\ pc = "return" /\ returned = Len(reverse_sort)
    /\ pc' = "choose"
    /\ UNCHANGED <<reverse_sort, returned, candidates, counts, topk, known, knowing, fed,
                   made, waiting, threads>>

\* The first draw must be new: it is a candidate unless find has its object in
\* one of the sets.
Draw ==
    /\ pc = "choose"
    /\ \E e \in Entities : made' = Append(made, e)
    /\ candidates' = {Len(made')} \ (known \cup knowing)
    /\ pc' = "finish"
    /\ UNCHANGED <<reverse_sort, returned, counts, topk, known, knowing, fed, waiting, threads>>

Finish_Untracked ==
    /\ pc = "finish"
    /\ \E e \in Entities : made' = [made EXCEPT ![Len(made)] = e]
    /\ counts' = counts + 1
    /\ waiting' = waiting \cup {Len(made)}
    /\ pc' = "idle" /\ candidates' = {} /\ reverse_sort' = <<>> /\ returned' = 0
    /\ UNCHANGED <<topk, known, knowing, fed, threads>>

\* The later draws need not be new, and the cost model picks any; the objects not
\* picked are freed. Then the result, counts and knowing_schedules; schedule_for's
\* future is ready.
Finish ==
    /\ pc = "finish"
    /\ \E e \in Entities : made' = [made EXCEPT ![Len(made)] = e]
    /\ counts' = counts + 1
    /\ knowing' = knowing \cup {Len(made)}
    /\ waiting' = waiting \cup {Len(made)}
    /\ pc' = "idle" /\ candidates' = {} /\ reverse_sort' = <<>> /\ returned' = 0
    /\ UNCHANGED <<topk, known, fed, threads>>

-----------------------------------------------------------------------------
(* feedback_for and add_feedback, from the build and the evaluate thread     *)

\* known_schedules over its limit loses half of it and two more, in any order.
Prune(k) ==
    IF Cardinality(k) > KnownLimit
    THEN {k \ D : D \in {D \in SUBSET k : Cardinality(D) = KnownLimit \div 2 + 2}}
    ELSE {k}

Remember(o) ==
    /\ known' \in Prune(known \cup {o})
    /\ knowing' = knowing \ {o}

\* A build or a run that failed.
FeedbackFailed(o, v) == v = 0 /\ Remember(o) /\ UNCHANGED <<topk, fed>>

FeedbackRoom(o, v) ==
    /\ v > 0 /\ Cardinality(topk) < Topk
    /\ Remember(o)
    /\ fed' = Append(fed, v)
    /\ topk' = topk \cup {Len(fed')}

\* Worse than all of a full heap: the early return, before known_schedules.
FeedbackWorse(o, v) ==
    /\ v > 0 /\ Cardinality(topk) >= Topk
    /\ \E i \in topk : IsTop(i) /\ v < fed[i]
    /\ fed' = Append(fed, v)
    /\ UNCHANGED <<topk, known, knowing>>

FeedbackReplace(o, v) ==
    /\ v > 0 /\ Cardinality(topk) >= Topk
    /\ fed' = Append(fed, v)
    /\ \E i \in topk : /\ IsTop(i) /\ v >= fed[i]
                       /\ topk' = (topk \ {i}) \cup {Len(fed')}
    /\ Remember(o)

\* add_feedback: the evaluation v of a schedule with object o as its entity.
AddFeedback(o, v) ==
    \/ FeedbackFailed(o, v) \/ FeedbackRoom(o, v)
    \/ FeedbackWorse(o, v) \/ FeedbackReplace(o, v)

\* feedback_for one of the schedules handed out.
Feedback(o, v) ==
    /\ o \in waiting
    /\ threads \/ pc = "idle"
    /\ waiting' = waiting \ {o}
    /\ AddFeedback(o, v)
    /\ UNCHANGED <<local, counts, made, threads>>

Schedule == Begin \/ Drain \/ Drained \/ Return \/ Returned \/ Draw \/ Finish

Next == Schedule \/ \E o \in waiting, v \in 0 .. MaxValue : Feedback(o, v)

Spec == Init /\ [][Next]_vars

-----------------------------------------------------------------------------
(* Properties                                                                *)

\* What the context still has of the feedback: the heap, and what auto_schedule
\* has drained and not yet put back.
Drawn == {reverse_sort[i] : i \in (returned + 1) .. Len(reverse_sort)}
Held == topk \cup Drawn

\* "return these topks, otherwise, they will be lost": whatever feedback arrives
\* while auto_schedule has the heap in pieces, an evaluation is given up only
\* for Topk others that are at least as good.
TopkKept ==
    \A i \in DOMAIN fed :
        i \in Held \/ Cardinality({j \in Held : fed[j] >= fed[i]}) >= Topk

\* With one thread the heap is never larger than topk and is as full as the
\* feedback allows whenever auto_schedule is not at work on it.
TopkExact ==
    ~threads /\ pc \in {"idle", "choose", "finish"} =>
        Cardinality(topk) = IF Len(fed) < Topk THEN Len(fed) ELSE Topk

\* The bookkeeping of the objects: knowing_schedules has every object whose
\* result is outstanding, which no feedback for another and no pruning takes
\* out, known_schedules has only objects that were fed back, within its limit,
\* and the early return of add_feedback is the one leak: beyond the outstanding
\* ones knowing_schedules has at most an object for every evaluation the heap
\* does not have.
SchedulesTracked ==
    /\ waiting \subseteq knowing
    /\ known \cap knowing = {}
    /\ Cardinality(known) <= KnownLimit
    /\ Cardinality(knowing \ waiting) <= Len(fed) - Cardinality(Held)

\* "if must_new, then must be new candidate never met before": the candidate
\* that had to be new is equal to no schedule that the context knows.
MustBeNew ==
    \A c \in candidates, o \in known \cup knowing : made[o] # made[c]
=============================================================================
