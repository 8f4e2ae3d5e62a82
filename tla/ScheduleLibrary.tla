-------------------------- MODULE ScheduleLibrary --------------------------
(* The schedule library of a session: run_functions merges the best function *)
(* into the file save_to and rewrites it; prepare_for_test loads it in a     *)
(* later session, whose scheduler begin_tuning then tells of it. Source:     *)
(* src/tg/runtime/driver.cc, used as SingleGraphSession of                   *)
(* python/tvm/tensor_graph/core/runtime.py uses it.                          *)
(* One subgraph of one network is followed, with its scheduler's context     *)
(* (AutoSchedule); the file may hold a line of another network. A call in a  *)
(* session that does not load (no file, no build of the loaded schedule)     *)
(* throws before it changes anything.                                        *)
EXTENDS AutoSchedule

CONSTANTS Grain,        \* performances are written in multiples of it
          MaxSessions,  \* bound: sessions created
          MaxCrashes,   \* bound: crashes of the process
          NoEntity,     \* what another network's line names
          NoFile

Mine == "mine"
Other == "other"

\* A function of the library or of best_functions, as far as it is followed.
Entry == [entity : Entities \cup {NoEntity}, perf : Nat]

ASSUME LibraryAssumption ==
    /\ Grain \in Nat \ {0} /\ MaxSessions \in Nat /\ MaxCrashes \in Nat
    /\ NoEntity \notin Entities
    /\ \A T \in SUBSET {Mine, Other} : NoFile \notin [T -> Entry]

VARIABLES
    prog,        \* the program: "none" (no session), "idle", "saving"
    best,        \* best_functions of the subgraph, as [entity, perf]
    evaluating,  \* the queue of at most one measured function not yet compared with best
    file,        \* the library: tag -> [entity, perf], or NoFile
    stored,      \* run_functions' map, read from the file and merged
    left,        \* its tags not yet written
    measured,    \* every [entity, perf] ever measured
    due,         \* tag -> the performance the library owes it
    sessions, crashes

program == <<prog, stored, left, sessions, crashes>>
context == <<local, counts, topk, known, knowing, fed, made, waiting, threads>>
libVars == <<vars, program, best, evaluating, file, measured, due>>

Lines == IF file = NoFile THEN <<>> ELSE file

\* std::to_string keeps six decimals, to the nearest.
Written(p) == Grain * ((p + Grain \div 2) \div Grain)

OtherLine == [entity |-> NoEntity, perf |-> Grain]

LibraryInit ==
    /\ Init /\ ~threads
    /\ prog = "none" /\ best = <<>> /\ evaluating = <<>>
    /\ file \in {NoFile, [t \in {Other} |-> OtherLine]}
    /\ stored = <<>> /\ left = {}
    /\ measured = {}
    /\ due = [t \in {Mine, Other} |-> IF t \in DOMAIN Lines THEN Lines[t].perf ELSE 0]
    /\ sessions = 0 /\ crashes = 0

-----------------------------------------------------------------------------
(* The session is created                                                    *)

Create ==
    /\ prog = "none" /\ sessions < MaxSessions
    /\ prog' = "idle" /\ sessions' = sessions + 1
    /\ UNCHANGED <<stored, left, crashes, evaluating, file, measured, due>>

\* begin_tuning without a reference: the threads start.
BeginTuning ==
    /\ Create
    /\ threads' = TRUE
    /\ UNCHANGED <<best, local, counts, topk, known, knowing, fed, made, waiting>>

\* prepare_for_test pushes the function of the library, if it has one.
Load == best' = IF Mine \in DOMAIN Lines THEN Append(best, Lines[Mine]) ELSE best

BeginTuningReference_NoFeedback ==
    /\ file # NoFile /\ Create /\ Load
    /\ threads' = TRUE
    /\ UNCHANGED <<local, counts, topk, known, knowing, fed, made, waiting>>

\* begin_tuning with a reference: the scheduler is told of the function, whose
\* entity was parsed into an object of its own, then the threads start.
BeginTuningReference ==
    /\ file # NoFile /\ Create /\ Load
    /\ IF best' = <<>> THEN UNCHANGED <<topk, known, knowing, fed, made>>
       ELSE /\ made' = Append(made, Head(best').entity)
            /\ AddFeedback(Len(made'), Head(best').perf)
    /\ threads' = TRUE
    /\ UNCHANGED <<local, counts, waiting>>

\* A test_only session has no threads; run needs all its functions.
TestScheduleReference ==
    /\ file # NoFile /\ Create /\ Load
    /\ UNCHANGED context

-----------------------------------------------------------------------------
(* The threads of a tuning session                                           *)

ScheduleThread == threads /\ Schedule /\ UNCHANGED <<program, best, evaluating, file, measured, due>>

\* run_build found that a function does not build, or run_evaluate that it does
\* not run.
FunctionFails(o) ==
    /\ threads /\ Feedback(o, 0)
    /\ UNCHANGED <<program, best, evaluating, file, measured, due>>

\* run_evaluate measured a function, and tells the scheduler first.
Evaluate(o, v) ==
    /\ threads /\ evaluating = <<>>
    /\ Feedback(o, v)
    /\ evaluating' = <<[entity |-> made[o], perf |-> v]>>
    /\ measured' = measured \cup {[entity |-> made[o], perf |-> v]}
    /\ UNCHANGED <<program, best, file, due>>

StoreBest_OldEntity ==
    /\ evaluating # <<>>
    /\ best' = IF best = <<>> THEN evaluating
               ELSE IF Head(evaluating).perf > Head(best).perf
                    THEN <<[Head(best) EXCEPT !.perf = Head(evaluating).perf]>>
                    ELSE best
    /\ evaluating' = <<>>
    /\ UNCHANGED <<vars, program, file, measured, due>>

\* ... and keeps it in best_functions after that, if it is better.
StoreBest ==
    /\ evaluating # <<>>
    /\ best' = IF best = <<>> THEN evaluating
               ELSE IF Head(evaluating).perf > Head(best).perf
                    THEN Tail(best \o evaluating)
                    ELSE best
    /\ evaluating' = <<>>
    /\ UNCHANGED <<vars, program, file, measured, due>>

-----------------------------------------------------------------------------
(* run, with save_to                                                         *)

\* What this session has measured or loaded, as the library will have it.
Offered == {Written(fed[i]) : i \in 1 .. Len(fed) - Len(evaluating)}

Merge_Always(f) == [t \in DOMAIN Lines \cup {Mine} |-> IF t = Mine THEN f ELSE Lines[t]]

\* The best function replaces the line of its tag if it is better.
Merge(f) ==
    [t \in DOMAIN Lines \cup {Mine} |->
        IF t = Mine /\ (Mine \in DOMAIN Lines => f.perf > Lines[Mine].perf) THEN f ELSE Lines[t]]

\* run returns from run_helper with a function, reads the file, merges, and
\* opens the file anew.
Save ==
    /\ prog = "idle" /\ best # <<>>
    /\ stored' = Merge(Head(best))
    /\ left' = DOMAIN stored'
    /\ file' = <<>>
    /\ prog' = "saving"
    /\ due' = [due EXCEPT ![Mine] = CHOOSE m \in Offered \cup {@} : \A o \in Offered \cup {@} : m >= o]
    /\ UNCHANGED <<vars, best, evaluating, measured, sessions, crashes>>

\* Each line is flushed; the map is unordered.
SaveLine(t) ==
    /\ prog = "saving" /\ t \in left
    /\ file' = [u \in DOMAIN file \cup {t} |->
                   IF u = t THEN [stored[t] EXCEPT !.perf = Written(@)] ELSE file[u]]
    /\ left' = left \ {t}
    /\ UNCHANGED <<vars, prog, stored, best, evaluating, measured, due, sessions, crashes>>

SaveEnds ==
    /\ prog = "saving" /\ left = {}
    /\ prog' = "idle" /\ stored' = <<>>
    /\ UNCHANGED <<vars, left, best, evaluating, file, measured, due, sessions, crashes>>

-----------------------------------------------------------------------------
(* The session ends                                                          *)

DropSession ==
    /\ prog' = "none" /\ best' = <<>> /\ evaluating' = <<>> /\ stored' = <<>> /\ left' = {}
    /\ pc' = "idle" /\ reverse_sort' = <<>> /\ returned' = 0 /\ candidates' = {}
    /\ counts' = 0 /\ topk' = {} /\ known' = {} /\ knowing' = {} /\ fed' = <<>>
    /\ made' = <<>> /\ waiting' = {} /\ threads' = FALSE
    /\ UNCHANGED <<file, measured, sessions>>

DeleteSession == prog = "idle" /\ DropSession /\ UNCHANGED <<due, crashes>>

\* A crash; the lines not yet written back are gone.
Crash ==
    /\ prog # "none" /\ crashes < MaxCrashes
    /\ crashes' = crashes + 1
    /\ due' = [t \in DOMAIN due |-> IF t \in left THEN 0 ELSE due[t]]
    /\ DropSession

LibraryNext ==
    \/ BeginTuning \/ BeginTuningReference \/ TestScheduleReference
    \/ ScheduleThread \/ StoreBest
    \/ \E o \in waiting : FunctionFails(o) \/ \E v \in 1 .. MaxValue : Evaluate(o, v)
    \/ Save \/ SaveEnds \/ \E t \in left : SaveLine(t)
    \/ DeleteSession \/ Crash

LibrarySpec == LibraryInit /\ [][LibraryNext]_libVars

-----------------------------------------------------------------------------
(* Properties                                                                *)

\* The library has, for every tag, exactly the best performance that was saved,
\* as written, over all sessions that saved to it, whichever of them loaded it
\* first and although a loaded performance is a rounded one: a save never puts
\* a worse schedule in the place of a better one. Only a crash between the
\* truncation and the write of a line loses the line.
LibraryKept ==
    prog # "saving" =>
        \A t \in DOMAIN due : due[t] > 0 => t \in DOMAIN Lines /\ Lines[t].perf = due[t]

\* Every line of the subgraph, even in a file that a crash cut short, names a
\* schedule with a performance that was measured for that schedule.
LibrarySound ==
    Mine \in DOMAIN Lines =>
        \E m \in measured : /\ m.entity = Lines[Mine].entity
                            /\ Written(m.perf) = Lines[Mine].perf

\* The scheduler of a tuning session searches from the best function the
\* session has, loaded or measured: its heap holds one that is as good.
HeapKnowsBest ==
    threads /\ best # <<>> /\ Head(best).perf > 0 =>
        \E i \in Held : fed[i] >= Head(best).perf
=============================================================================
