---------------------------- MODULE MeasureBatch ----------------------------
(***************************************************************************)
(* The builders and the runner of search/measure.py.  A batch of the       *)
(* schedule search: pebble_local_builder_build, a pebble map with a task   *)
(* per candidate, turns params_lst into build results, a second pebble map *)
(* (pebble_local_runner_run) turns those into measurements and the search  *)
(* credits measurement i to params_lst[i].  Or a call of                   *)
(* tg_parallel_builder_build, one worker process around parallel_build,    *)
(* which returns its build results to whoever called it: the searches      *)
(* cannot, although it is their default builder, since they pass           *)
(* n_parallel, which it does not take (a TypeError before any step here;   *)
(* the same goes for pebble_rpc_runner_run).  A worker may hang, raise or  *)
(* be killed by its timeout at any point.                                  *)
(*                                                                         *)
(* A candidate stands for its parameters, schedule and module; a result is *)
(* the error of MeasureErrorNo and the module it is about.                 *)
(***************************************************************************)
EXTENDS ParallelBuild

CONSTANTS
  params_lst,   \* the candidates of the batch
  ApplyFails,   \* those sch_app.apply raises for
  NParallel     \* processes of the pebble maps

\* How many of the first i candidates apply.
Applied(i) == Cardinality({j \in 1 .. i : params_lst[j] \notin ApplyFails})

ASSUME BatchAssumption ==
  /\ params_lst \in Seq(Tasks) /\ Range(params_lst) = Tasks
  /\ ApplyFails \subseteq Tasks
  /\ Len(schs) = Applied(Len(params_lst))
  /\ \A i \in 1 .. Len(params_lst) :
       params_lst[i] \notin ApplyFails => schs[Applied(i)] = params_lst[i]
  /\ NParallel \in Nat \ {0}

VARIABLES
  builder,     \* "pebble", a batch of the search, or "tg", a direct call
  lowerFails,  \* candidates that apply, but that lower or checker.check rejects
  step,        \* tg: "instantiate", "build", "returned"; pebble: "map", "run", "done"
  err_nos,     \* the errors of the worker of tg after its first loop
  build,       \* the list of BuildResults
  job,         \* of each task of the current map: queued, running or its result
  results,     \* what the iterator of the map has returned so far
  measured     \* measure_results

batchVars == <<builder, lowerFails, step, err_nos, build, job, results, measured>>
allVars == <<buildVars, batchVars>>

N == Len(params_lst)
Failure(e) == [err |-> e, module |-> NoModule]
Success(m) == [err |-> "none", module |-> m]
AllFail(e) == [i \in 1 .. N |-> Failure(e)]

\* A task without a result yet is written as a failure of its own kind.
queued == Failure("queued")
running == Failure("running")
Queued == [i \in 1 .. N |-> queued]

BatchInit ==
  /\ BuildInit
  /\ builder \in {"tg", "pebble"}
  /\ lowerFails \in SUBSET (Tasks \ ApplyFails)
  /\ step = IF builder = "tg" THEN "instantiate" ELSE "map"
  /\ err_nos = <<>> /\ build = <<>> /\ measured = <<>>
  /\ job = Queued /\ results = <<>>

\* The builder returns its list, and in the search the runner maps its worker
\* over it.  The worker process of tg's builder is gone, and its thread pool
\* with it.
Built(list) ==
  /\ build' = list
  /\ step' = IF builder = "tg" THEN "returned" ELSE "run"
  /\ job' = Queued /\ results' = <<>>
  /\ tasks' = <<>> /\ stop' = FALSE /\ worker' = [w \in Workers |-> "check"]
  /\ future' = [t \in Tasks |-> "none"] /\ pushed' = [c \in Clients |-> 0]
  /\ notifying' = {} /\ owner' = "alive" /\ collecting' = FALSE /\ ret' = <<>>
  /\ err_nos' = <<>>

----------------------------------------------------------------------------
(* tg_parallel_build_worker                                                *)

Rejected == ApplyFails \union lowerFails

\* The first loop.  A schedule is in schs as soon as apply has returned.
Instantiate ==
  /\ step = "instantiate"
  /\ err_nos' = [i \in 1 .. N |-> IF params_lst[i] \in Rejected THEN "instantiation" ELSE "none"]
  /\ step' = "build"
  /\ UNCHANGED <<buildVars, builder, lowerFails, build, job, results, measured>>

\* tg.parallel_build(schs, ...), when schs is not empty.
ParallelBuildStep ==
  /\ step = "build" /\ schs # <<>>
  /\ BuildNext
  /\ UNCHANGED batchVars

\* Mutant of Position: the modules are taken by the index of the candidate.
Position_Index(i) == i

\* p_mod when the second loop is at candidate i.
Position(i) == Cardinality({j \in 1 .. i : err_nos[j] = "none"})

\* The second loop pairs the modules with the candidates without an error.
Pair ==
  /\ step = "build" /\ (schs = <<>> \/ owner = "gone")
  /\ Built([i \in 1 .. N |->
        IF err_nos[i] # "none" THEN Failure(err_nos[i])
        ELSE LET m == IF Position(i) \in DOMAIN ret THEN ret[Position(i)] ELSE NoModule
             IN  IF m = NoModule THEN Failure("compile_host") ELSE Success(m)])
  /\ UNCHANGED <<builder, lowerFails, measured>>

\* Mutant of BuilderTimeout: one result for the one task of the map.
BuilderTimeout_OneResult ==
  /\ step \in {"instantiate", "build"}
  /\ Built(<<Failure("build_timeout")>>)
  /\ UNCHANGED <<builder, lowerFails, measured>>

\* The worker is killed by the timeout: every candidate has timed out.
BuilderTimeout ==
  /\ step \in {"instantiate", "build"}
  /\ Built(AllFail("build_timeout"))
  /\ UNCHANGED <<builder, lowerFails, measured>>

\* It raises (export_library of one module, for one) or dies.
BuilderFatal ==
  /\ step \in {"instantiate", "build"}
  /\ Built(AllFail("compile_host"))
  /\ UNCHANGED <<builder, lowerFails, measured>>

----------------------------------------------------------------------------
(* The pebble maps: the workers, and the loop over the iterator.           *)

Mapping == step \in {"map", "run"}
Running == {i \in 1 .. N : job[i] = running}

JobStart ==
  /\ Mapping /\ Cardinality(Running) < NParallel
  /\ \E i \in 1 .. N :
       /\ job[i] = queued /\ \A j \in 1 .. i - 1 : job[j] # queued
       /\ job' = [job EXCEPT ![i] = running]
  /\ UNCHANGED <<buildVars, builder, lowerFails, step, err_nos, build, results, measured>>

\* What pebble_local_build_worker(i) can return.
BuildWorker(i) ==
  LET c == params_lst[i] IN
  {IF c \in Rejected THEN Failure("instantiation")
   ELSE IF c \in Throws THEN Failure("compile_host") ELSE Success(c)}

\* What pebble_local_run_worker(i) can return.
RunWorker(i) ==
  IF build[i].err # "none" THEN {Failure(build[i].err)}
  ELSE {Success(build[i].module), Failure("compile_device"), Failure("runtime_device")}

JobEnds(i) ==
  /\ i \in Running
  /\ \E r \in IF step = "map" THEN BuildWorker(i) ELSE RunWorker(i) :
       job' = [job EXCEPT ![i] = r]
  /\ UNCHANGED <<buildVars, builder, lowerFails, step, err_nos, build, results, measured>>

\* Mutant of JobTimeout: the task is put back in the queue.
JobTimeout_Retry(i) ==
  /\ i \in Running
  /\ job' = [job EXCEPT ![i] = queued]
  /\ UNCHANGED <<buildVars, builder, lowerFails, step, err_nos, build, results, measured>>

\* The process is killed by its timeout, and next(iterator) raises TimeoutError;
JobTimeout(i) ==
  /\ i \in Running
  /\ job' = [job EXCEPT ![i] =
               Failure(IF step = "map" THEN "build_timeout" ELSE "run_timeout")]
  /\ UNCHANGED <<buildVars, builder, lowerFails, step, err_nos, build, results, measured>>

\* it raises or dies (shutil.rmtree of the directory, for one), and so does next.
JobFatal(i) ==
  /\ i \in Running
  /\ job' = [job EXCEPT ![i] =
               Failure(IF step = "map" THEN "compile_host" ELSE "runtime_device")]
  /\ UNCHANGED <<buildVars, builder, lowerFails, step, err_nos, build, results, measured>>

\* Mutant of Iterate: next(iterator) returns the tasks as they complete.
Iterate_AsCompleted ==
  /\ Mapping /\ Len(results) < N
  /\ \E i \in 1 .. N :
       /\ job[i] \notin {queued, running} /\ job[i] \notin Range(results)
       /\ results' = Append(results, job[i])
  /\ UNCHANGED <<buildVars, builder, lowerFails, step, err_nos, build, job, measured>>

\* next(iterator) returns the results in the order of the tasks.
Iterate ==
  /\ Mapping /\ Len(results) < N
  /\ job[Len(results) + 1] \notin {queued, running}
  /\ results' = Append(results, job[Len(results) + 1])
  /\ UNCHANGED <<buildVars, builder, lowerFails, step, err_nos, build, job, measured>>

\* StopIteration: the builder or the runner returns.
StopIteration ==
  /\ Mapping /\ Len(results) = N
  /\ IF step = "map" THEN Built(results) /\ UNCHANGED measured
     ELSE /\ measured' = results /\ step' = "done"
          /\ UNCHANGED <<buildVars, err_nos, build, job, results>>
  /\ UNCHANGED <<builder, lowerFails>>

BatchNext ==
  \/ Instantiate \/ ParallelBuildStep \/ Pair \/ BuilderTimeout \/ BuilderFatal
  \/ JobStart \/ Iterate \/ StopIteration
  \/ \E i \in 1 .. N : JobEnds(i) \/ JobTimeout(i) \/ JobFatal(i)

\* The search and the process pools run; what they run may hang for ever, but
\* not past its timeout.
BatchSpec ==
  /\ BatchInit /\ [][BatchNext]_allVars
  /\ WF_allVars(BuilderTimeout)
  /\ WF_allVars(JobStart) /\ WF_allVars(Iterate) /\ WF_allVars(StopIteration)
  /\ \A i \in 1 .. N : WF_allVars(JobTimeout(i))

----------------------------------------------------------------------------
(* Properties.                                                             *)

\* Either builder returns a build result and the runner a measurement for every
\* candidate, whatever hangs, raises or is killed: zip(params_lst, ...) drops
\* none, and a build error is not measured over.
AnswersComplete ==
  /\ step \in {"returned", "run"} => Len(build) = N
  /\ step = "done" =>
       /\ Len(measured) = N
       /\ \A i \in 1 .. N : build[i].err # "none" => measured[i].err # "none"

\* A measurement without an error is about the candidate the search credits it
\* to, in whatever order the processes of the two maps finish or die.
CreditedSound ==
  step = "done" =>
    \A i \in 1 .. N : measured[i].err = "none" => measured[i].module = params_lst[i]

\* The second counter of tg_parallel_build_worker gives every candidate its own
\* module, unless a candidate that apply accepted was rejected afterwards: its
\* schedule stays in schs, and the later modules shift.
ModulesPaired ==
  step = "returned" /\ lowerFails = {} =>
    \A i \in 1 .. N : build[i].err = "none" => build[i].module = params_lst[i]

\* The batch, or the call, comes to its end although no build and no run has to.
BatchEnds == <>(step \in {"returned", "done"})
=============================================================================
