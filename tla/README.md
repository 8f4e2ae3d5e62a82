# AMOS: a TLA+ verification project

AMOS maps tensor computations to the intrinsics of spatial accelerators. It is
built into a fork of TVM. This directory models the parts of it that carry
state: the searches, their logs, the threads and queues behind them, and the
partition of a graph into the tasks they tune. TLC checks the models on small
instances, and TLAPS proves the main safety properties for all instances.

Paths below are relative to the repository root.

## 1. The system

Two stacks share the compiler and, through `tg.parallel_build`, meet in one
place.

**AMOS proper**, `python/tvm/auto_tensorize`: a workload is matched with the
intrinsics of a target; every matching has several mappings; each mapping has
its own schedule search with its own log file; each search measures its
candidates in batches.

    auto_tensorize_v4            explores mappings, round after round
      find_optimized_parameters  searches the schedules of one mapping
        SAEntryGenerator         hands out candidates, keeps heap and log
        builder, runner          process pools with timeouts
          tg.parallel_build      C++, over the tg thread pool

**The tg runtime**, `src/tg`: a session takes an operation graph, partitions it
into subgraphs (`add_task`), and tunes all of them at once with three threads
while the program may already run the task.

    Session::add_task            partition, call order
    Session::begin_tuning        run_autoschedule -> run_build -> run_evaluate
      AutoScheduler              one context per subgraph, heap of the best
      FunctionBuilder            thread pool
    Session::run / end_tuning

### Inventory

| Part | Source | State it keeps | Module |
|---|---|---|---|
| tuning session | `src/tg/runtime/driver.cc` | 4 token queues, 3 maps of functions, flags, 3 threads | `TuningSession` |
| graph partition, call order | `src/tg/graph`, `driver.cc` `add_task` | marks, counters | `GraphPartition` |
| auto scheduler | `src/tg/autoschedule/auto_schedule.*` | heap, known and pending schedules | `AutoSchedule` |
| thread pool | `src/tg/thread_pool.h` | deque, stop flag, workers, futures | `ThreadPool`, `Futures` |
| parallel build | `src/tg/build_function` | list of futures | `ParallelBuild` |
| measurement | `auto_tensorize/search/measure.py` | process pools, result lists | `MeasureBatch` |
| schedule search | `auto_tensorize/search/parameter.py` | heap, visited, log, suspended generator | `ParameterSearch`, `DurableBest` |
| mapping exploration | `auto_tensorize/auto_tensorize.py` | contexts, weights, logs, best | `MappingExploration` |
| a session's life, `~Session` | `driver.cc`, `tensor_graph/core/runtime.py` | the session under its threads | `SessionLifetime` |
| schedule library | `driver.cc` `run_functions`, `prepare_for_test` | a file, across sessions | `ScheduleLibrary` |
| matcher, compute transform, policies | `src/auto_tensorize`, `tensorization_phases`, `policy` | none (pure) | not modelled |
| hardware abstraction, schedulers | `hw_abs*`, `schedulers` | registries | not modelled |
| autodiff, schedule space, features | `src/tg` | none (pure, on TIR) | not modelled |
| `tensor_graph` front end | `python/tvm/tensor_graph` | layers, old runtime | only its partition policy and `SingleGraphSession` |
| TVM core, bindings, apps, vta | everything else | | not modelled |

`PROJECT.json` lists every part with the reason where it is left out, and the
hazards of the code line by line.

## 2. The modules

Every action is one handler, or one critical section of one, with all its
early returns. Definitions whose names end in `_Something` and that precede a
definition of the same name are mutants: plausible bugs that a property has to
notice. No specification uses them.

### TuningSession

State: the four token queues, `future_functions` and `built_functions` as
sizes, `best_functions` as queues of performances, the flags `finish`,
`in_tuning`, `cached_all_functions`, the thread maps, and a control point for
each of the three threads and for the program thread.

| Actions | Code |
|---|---|
| `Schedule*` | `run_autoschedule`: take a token, retry until a schedule is found |
| `Build*` | `run_build`: turn a build token into a schedule token, wait for a function, build or ask again |
| `Evaluate*`, `Measure*` | `run_evaluate`: send tokens, walk the free subgraphs, measure, repeat like subgraphs |
| `BeginTuning`, `LaunchThreads` | `begin_tuning` |
| `TestScheduleReference`, `Prepare*` | `prepare_for_test`, also from `begin_tuning` |
| `EndTuning`, `EndTuningReturns` | `end_tuning`, whose joins are never reached for a running thread |
| `Run*` | `run`, `run_functions` |

A schedule, build or measurement fails any number of times. The graph is given
by `Succ` and is assumed acyclic, and `CallOrder` is assumed to list every
subgraph. The theorems `ValidationCorrect` and `CallOrderCorrect` about
`GraphPartition` show that `add_task` provides both. One task per session, as
`SingleGraphSession` has. Subgraph keys keep counting across graphs (`gen_mark`
is static, `subgraph.cc:325`), so the tasks of one session do not share
functions.

### SessionLifetime

Extends `TuningSession` by the owner of the session: `__del__` calls
`end_tuning` and then `delete_session`, which drops the last reference.
`~Session` clears the functions (`DeleteSession`) and joins the threads of the
three maps one after the other (`Join`). The threads run on under it, because
`end_tuning` has not joined them. Clearing a map is one step.

### GraphPartition

`Init` takes every graph of `NOps` operations, every assignment of roles and
reductions, and either the default policy of `con_graph.py` or a user policy
that splits an edge always or above a size. User policies are explored with
outputs as the only role.

| Actions | Code |
|---|---|
| `Serialise*`, `GraphSerialised`, `SubgraphSerialised` | `serialize_compute_dag`, for the whole graph and for each subgraph; `frames` is the stack of the recursive `helper` |
| `MarkVisit`, `MarkEdge`, `MarkVisited`, `MarkSkip`, `MarkDone` | a turn of the loop of `mark_graph`, with one step for each edge the policy is asked about |
| `Helper*`, `ValidateDone` | the recursive `helper` of `validate_subgraph_dependency`; its stack is `path` |
| `BuildSubgraph`, `SplitDone` | the split, one `TIRGraph` after the other |
| `Call`, `OrderDone` | the layers of `add_task`, one subgraph at a time |

Where the code goes through an unordered set and the outcome does not depend on
the order, the model takes the least element.

### AutoSchedule

One context. `auto_schedule` empties the heap of best schedules element by
element, refills it, draws a first candidate that must be new (`Draw`) and hands
out an entity (`Finish`); feedback may arrive between any two of these steps.
`known_schedules` and `knowing_schedules` hash pointers (`ObjectHash`), and every
draw allocates, so the model has objects, numbered as they are allocated, and
`made` gives the entity of each: two objects may be equal as entities. One heap
operation is one step: C++ gives concurrent ones no meaning. The branch for
external schedules is left out. The variable
`threads` tells the session's use from the single-threaded
`get_schedule_result`.

### ScheduleLibrary

Composes `AutoSchedule` with the life of the sessions that use it and the file
they share. `ScheduleThread`, `FunctionFails`, `Evaluate` and `StoreBest` are
the tuning threads as far as the context and `best_functions` see them;
feedback and the store of the best function are two steps, as in
`evaluate_helper`. `Save` reads and merges the file and truncates it,
`SaveLine` writes one line (flushed, so taken as atomic) in any order, and
`BeginTuningReference` or `TestScheduleReference` load the file in a later
session. A performance is rounded when it is written (`Written`; `Grain` stands
for the six decimals). The file may hold the line of another network. The
process may crash at any step. The map of sessions is not modelled: one session
lives at a time.

### ThreadPool, Futures, ParallelBuild, MeasureBatch

`ThreadPool` separates releasing the mutex from `notify_one`, lets a worker
wake spuriously, and follows `~ThreadPool` through its two shutdowns with the
restart in between. `Futures` is the abstract promise: a future resolves once,
breaks only while the pool closes, and is never left pending. `ParallelBuild`
extends the pool by its caller. `MeasureBatch` extends `ParallelBuild` by the
two builders and the runner of a batch. With the pebble builder it is a batch of
the search, up to the pairing of the answers with the candidates. With tg's
builder it is a direct call of `tg_parallel_builder_build` and ends when that
returns: a search cannot call it (section 3). A worker process may hang, raise or
be killed at any step.

### ParameterSearch, DurableBest

The generator of candidates with its suspended mutation loop, the batch loop in
its three variants, and the log. Random choices are any choice. A value is
`Zero` (the placeholder of a candidate handed out), `Failed`, or a measurement.
The process may be killed between any two steps. `DurableBest` is the abstract
register the search implements.

### MappingExploration

`auto_tensorize_v4` over `ParameterSearch` reduced to the best value of each
log (`ExploreInit`, `ExploreNext`, `ExploreSpec`). `Context` is the cached
schedule context of a mapping key. Redistributed weights are any positive ones.
The process may be killed and restarted, to tune on or for a pure test.

## 3. What is checked

Deadlock is checked in `graph_partition`. The other systems may stop: a
program need not call, a pool is gone, a search is done.

| Run | Instance | Shows |
|---|---|---|
| `tuning_safety` | 3 subgraphs, 2 alike, batches of 2, 2 tunings, 1 reference, 1 iteration; 1.1M states | at most one schedule request is in flight; tokens are neither lost nor multiplied; `cached_all_functions` is true to its name; a subgraph is evaluated once in an iteration, after its predecessors |
| `tuning_live` | chain of 3 whose last repeats the first, 2 iterations, 2 performances, 1 tuning, no reference, deleted at any time; 122k states | tuning completes and `run` returns; `__del__` returns, `end_tuning` and `~Session` included, so all threads leave; a best function never worsens while the session lives |
| `search_resume` | 3 valid records and 1 invalid, 2 passes of 2 batches, performance model, 1 crash; 255k states | the log replays to the memory; the loop's best is the heap's root; no new candidate twice in a batch; implements `DurableBest`; ends |
| `thread_pool` | 2 workers, 2 clients, 4 tasks; 49k states | tasks conserved; no lost wakeup; FIFO per client; implements `Futures`; tasks resolve; the destructor returns |
| `graph_partition` | all graphs of 4 operations; 1.1M states | marks are the fusible components; no circle and no lost operation under the default policy; circles found exactly; call order sound; `add_task` ends |
| `auto_schedule` | 2 sessions and 1 crash; 2 entities, heap of 2, 3 schedules each; a library with or without another network; 1.5M states | no best schedule lost while the heap is in pieces; outstanding schedules kept apart from known ones, and the leak of the early return bounded; the library keeps the best of what was saved, is sound even when cut short, and reaches the scheduler of the next session |
| `mapping_exploration` | 2 matchings sharing a key, 2 rounds, 2 kills; 176k states | the result is the best of all logs; nothing printed is lost; ends |
| `measure_batch` | 4 candidates, 1 not applying, 1 not building, either builder; 612k states | modules in place; every candidate answered; in a search, measurements credited to their candidate; in a direct call of tg's builder, modules paired with theirs; ends |

Four runs are expected to fail. They are the disagreements between the code and
its own words that are recorded as findings:

| Run | Finding |
|---|---|
| `tuning_join` | `end_tuning` joins a thread only if there is none: it returns while the threads run (`driver.cc:1337`) |
| `tuning_reference` | loading a reference that misses a subgraph resets the cached flag, and `end_tuning` waits for ever (`driver.cc:1233`) |
| `search_log` | the log gets lines of value 0.0 for candidates that were never measured (`parameter.py:248`) |
| `schedule_new` | the candidate that "must be new" may equal one handed out before: the sets of known schedules are looked up by the pointer of a new object (`auto_schedule.cc:145`) |

### Bounds, and why they are enough

- Three subgraphs have what the tuning pipeline distinguishes: one with two
  successors, one with two predecessors, and a repeated tag. Tokens come in
  batches of two in `tuning_safety`, so that a partial batch can fail; one
  performance is enough there, because no property of that run compares
  performances. Liveness is checked with two performances on a chain of three
  whose last subgraph has the tag of the first: each waits for the others' tokens
  in the queues and for the evaluation before it, and the last takes over the
  function of its twin.
- Four operations are the smallest graphs with a diamond, the shape in which
  fusing could close a circle.
- Two workers and two clients are the least with which a notification can reach
  the wrong thread; one client pushes at both ends.
- In the search there are fewer valid records than trials, so that `get` gives
  up, and an odd number of trials, so that the last batch is short.
- `KnownLimit` (2000 in the code) is 1 and the heap size 2, so both overflow.
  Three schedules fill the heap and replace one. Evaluations are 1 and 2
  and `Grain` is 3, so that one is rounded up and one down, to zero.
  Two sessions are enough for one to save, and the other to load what was saved
  and save again. Entities are interchangeable, hence the symmetry.

### What the runs do not show

- `BestNeverWorsensAlive` holds for tuning alone. When `test_schedule_reference`
  loads a better function for a repeated subgraph during an iteration, TLC
  finds the take-over from its twin replacing it by a worse one
  (`driver.cc:550` does not compare).
- The liveness properties of `tuning_live` are for one tuning. With a second
  `begin_tuning` TLC violates `TuningCompletes`: after `end_tuning` the
  schedule and build threads leave, the evaluate thread has not yet looked at
  `finish`, the second call clears it and starts nobody, and the evaluate
  thread polls for ever. This is the bug of `tuning_join` seen from the other
  side.
- `DestructorReturns` depends on `__del__` calling `end_tuning`. If the session
  is deleted without it, TLC finds `~Session` joining threads that never see
  `finish`. If `begin_tuning` throws while it loads a reference, no thread was
  started, the cached flag is never set, and the `end_tuning` of `__del__`
  spins for ever (`driver.cc:1320`).
- `TokensConserved` is checked over one iteration. All invariants of
  `tuning_safety` also held over two iterations of a chain (21M states),
  which takes too long to keep as a run; `TokensAlwaysConserved` proves it for
  any number of iterations.
- `search_resume` runs the variant with the performance model (`v3`) and no
  repeats. For `v1`, `v2` and repeats, types, `LogReplays`, `BestAgrees`,
  `BatchDistinct` and `DurableBest` are proved; `SearchEnds` is not covered.
- The `raised` branch of `EndBatch` was not reached in `search_resume`. The
  `undefined` branch of `MappingExploration` needs an empty list of matchings,
  which the instance does not have.
- `ModulesPaired` excludes a candidate that applies and does not lower: its
  schedule was appended to the list already (`measure.py:1014`), and the modules
  of all later candidates shift. Nothing in the repository says otherwise, and
  only a direct caller of `tg_parallel_builder_build` meets it: the searches name
  it as their default builder, but pass `n_parallel` (`parameter.py:434`, `510`,
  `607`, `634`), which neither it (`measure.py:1068`) nor `pebble_rpc_runner_run`
  takes, so that the call raises `TypeError`.
- `SchedulesTracked` bounds `knowing_schedules` by the evaluations the heap does
  not have, and not by a constant: after the early return of `add_feedback`
  (`auto_schedule.cc:211`) a schedule stays in it for good.
- The result of an exploration is the best of the logs by record key. Two
  matchings whose mappings have one key share a context and a log
  (`auto_tensorize.py:830`); which matching a logged schedule was measured for
  is not recorded.
- `TopkExact` is for one thread and is proved, not run: every session of
  `auto_schedule` that schedules has threads. With them the heap may outgrow
  `topk`; `TopkKept` holds regardless.
- `LibraryKept` lets a crash during a save lose the lines not yet written back.
  The code truncates the file first, so it does lose them. Two processes that
  save to one file are not modelled.

Disagreements met that have no run of their own: `get_best_entry` fails an
assertion when every candidate failed (`auto_tensorize.py:234`); redistributed
weights never reach an existing search (`auto_tensorize.py:939`, the comment at
1019); the assertion at `auto_tensorize.py:753` makes lines 759-761
unreachable; only the last category of root operations is serialised
(`concrete_graph.cc:149`); `create_or_get_session` registers a null session
under the next id, so that `get_session` of an id never given out returns null
instead of failing its assertion (`driver.cc:1416`); `begin_tuning` and the library look the
keys of other tasks up in the graph of this one (`driver.cc:1275`, `1012`).

### Fairness

- `TuningSession`: each thread is weakly fair, and so is a call once made. The
  program need not call. The loops of the code spin without blocking, so a
  thread runs whenever the scheduler lets it. Strong fairness of
  `BuildSucceeds` and of a measurement that succeeds, and weak fairness of
  `ScheduleSucceeds`, say that what is retried without limit succeeds at last.
  The code depends on this: it has no limit on retries.
- `SessionLifetime`: as `TuningSession`, and `~Session` once begun goes on.
- `ThreadPool`: workers, a pending `notify_one`, and a destructor once begun.
  Spurious wakeups are not fair, so nothing counts on them.
- `ParameterSearch`: one thread. `MappingExploration`: one thread, and a killed
  process is started again; the number of kills is bounded.
- `MeasureBatch`: the timeouts fire. No worker has to finish.

## 4. What is proved

| Theorem | Statement |
|---|---|
| `TypeCorrect` | the session keeps its types |
| `PipelineCorrect` | `OneRequestInFlight` |
| `CachedCorrect` | `CachedIsTrue` |
| `OrderCorrect` | `PredecessorsFirst` |
| `TokensAlwaysConserved` | `TokensConserved` |
| `BestOnlyImproves` | `BestNeverWorsensAlive`, when no reference is loaded |
| `SearchTypes` | the search keeps its types |
| `SearchLogReplays` | `LogReplays` |
| `SearchBestAgrees` | `BestAgrees` |
| `SearchBatchDistinct` | `BatchDistinct` |
| `SearchImplementsRegister` | the search implements `DurableBest` |
| `PoolConserves` | `TasksConserved` |
| `PoolLosesNoWakeup` | `NoLostWakeup` |
| `PoolStartsInOrder` | `StartedInOrder` |
| `PoolKeepsPromises` | the pool implements `Futures` |
| `HeapKeepsTheBest` | `TopkKept` |
| `HeapIsExact` | `TopkExact` |
| `SchedulesAreTracked` | `SchedulesTracked`, in every session |
| `LibraryKeepsTheBest` | `LibraryKept` |
| `LibraryNamesMeasured` | `LibrarySound` |
| `SchedulerKnowsBest` | `HeapKnowsBest` |
| `ExplorationReturnsBest` | `ResultIsBest` |
| `PrintedIsLogged` | `BestIsLogged` |
| `ModulesInPlace` | `ResultsInPlace` |
| `EveryCandidateAnswered` | `AnswersComplete` |
| `MeasurementsCredited` | `CreditedSound` |
| `ModulesOfCandidates` | `ModulesPaired` |
| `MarksCorrect` | `MarksAreComponents` |
| `ValidationCorrect` | `ValidationExact` |
| `DefaultNeverCircular` | `NeverCircular` |
| `NoOperationLost` | `SubgraphsComplete` |
| `CallOrderCorrect` | `CallOrderSound` |
| `AddTaskBounded` | `AddTaskReturns` |

All are for every value of the constants, under the assumptions named in the
modules. Those of `TuningSession` are `GraphAssumption` (a finite set of keys),
`AcyclicAssumption`, `CallOrderAssumption` and `SessionAssumption`; the others
are `SearchAssumption`, `PoolAssumption`, `BuildAssumption`, `BatchAssumption`,
`AutoScheduleAssumption`, `LibraryAssumption` (a missing file is not taken for
a library), `ExplorationAssumption` and `PartitionAssumption` (there is an
operation, and some role is in use). Every run evaluates those of its modules.
`BestOnlyImproves` assumes in addition `References = {}`, without which it is
false (section 3).

| Proof module | About |
|---|---|
| `TuningSessionProofs` | types, pipeline and best functions of the session: the lemmas |
| `TuningEvaluateProofs` | the theorems about the session, and those that count tokens |
| `ParameterSearchProofs` | the search |
| `ThreadPoolProofs` | the pool, and that it implements `Futures` |
| `AutoScheduleProofs` | the scheduler and the library |
| `TensorizeProofs` | the exploration of mappings, and the measurement of a batch |
| `GraphMarkProofs` | serialisation, marking, validation and split, and what bounds the loops: the lemmas |
| `GraphPartitionProofs` | the call order, the theorems about `add_task`, and why it returns |

**Pipeline.** `OneRequestInFlight` is inductive with the types and
`NeverStarted`: a thread without a map entry was never started. Without it
`begin_tuning` could restart a thread in the middle of a request.

**Evaluation.** `CachedIsTrue` says nothing about how `free_set` runs empty.
`CountersRight` does: each counter is the number of predecessors not yet
evaluated, and every subgraph that has none left is free, about to be freed, or
evaluated. `SetsApart` keeps the sets of a pass from overlapping. When nothing
is free, the set of subgraphs not evaluated has no member without predecessors
in it, so by `AcyclicAssumption` it is empty. `PrepareInv` is the same for the
other writer of the flag, `prepare_for_test`. `BestStays`, that no step removes
the last best function, carries both through the steps of other threads.

**Tokens.** A token of a subgraph is in a build queue, in the hand of
`run_build`, or a built function. The bounds of `TokensConserved` are not
inductive, because they do not speak of the loop that sends the tokens of an
iteration. `TokenInv` does: a subgraph already sent to (`SentNow`) may have one
batch more than the finished iterations account for, and has at least one batch.
`run_build` only moves tokens; `evaluate_helper` takes functions to measure and
asks for as many again when none of them runs.

**Best functions.** `BestOnlyImproves` is an action property. The one step that
does not compare is the take-over from a twin. `BestInv` says that it cannot
lose anything: only the first subgraph of a tag is ever built and measured, so
no subgraph of the tag is better than it. A reference breaks just that.

**Search.** `Memory` adds three facts to `LogReplays` and `BestAgrees`.
`VisitedPushed`: a measurement remembered in `visited`, or by the log, was
pushed. `LogHasRoot`: a log with lines has a largest one, from which recovery
starts. `DownKnowsNothing`: a process that is down has no best. The refinement
follows because, while the process runs, what the loop knows is exactly the
best of the log (`KnownIsDurable`). `BatchInv` adds to `BatchDistinct` that,
while a batch is filled, every candidate in it is marked in `visited`, and so is
every one that was fed back; nothing takes a mark away (`Grows`).

**Thread pool.** `Pool` adds to `TasksConserved` that what a client has still to
push was never accepted (`Fresh`), and that all workers have left between the
two lives of the pool (`AllExited`); without the second, the restart in
`~ThreadPool` could drop a running task. `NoLostWakeup` needs `OwnerStop` (where
the destructor is tells whether the pool is stopped) and `ExitedDone` (a worker
leaves only a stopped, empty pool). From these every step is a step of `Futures`
or a stutter under the mapping `Answer`, `Phase`. `StartedInOrder` is inductive
with `QueuedInOrder`, the same order inside the deque.

**Scheduler.** `Held`, the heap together with what `auto_schedule` has drained
and not yet put back, is what the drain does not change; `TopkKept` is
inductive over it with `HeapOK`. The one step that gives an evaluation up
removes a worst one of a heap that holds `topk` others. `HeldExact` counts
`Held` on one thread. `SchedulesTracked` is inductive with `ObjectsOK`: the sets
have allocated objects only, and not the one that `auto_schedule` is about to
hand out. A feedback adds one evaluation and at most that one to `Held`
(`HeldGrows`), which pays for the object that the early return leaves behind.

**Library.** `FileOK` says that a line has what is due to its tag, and that a
line still to be written will have it: rounding is monotone and rounds a
rounded performance to itself (`WrittenFacts`). `BestOK` bounds what this
session has offered by its best function, which was fed to the scheduler or is
not better than the line it was loaded from; so the maximum that is due after a
save is what `Merge` keeps. `AllMeasured` follows a schedule and its
performance through the store, the save and the load. `HeapKnowsBest` follows
from `BestOK` and `TopkKept`. `Fresh` says that nothing of a session outlives it.

**Exploration.** `Progress` says which mappings have a context already: all of
the earlier matchings, or all after the first round. `Values` says a context
agrees with its log, and that the best is at least every context but the one in
hand. At the end all feasible mappings have a context, so the best is the best
of all logs.

**Batch.** `BuildOK` says that what `parallel_build` has collected is what its
schedules should give, position by position. `Truthful` says that a result list
names the candidate of its place, `Follows` that a run does not measure over a
build error, and `BatchValues` that no task runs outside a map. The pairing of
`tg_parallel_build_worker` is right because, when no candidate is rejected
after it was applied, the number of error-free candidates up to `i` is the
number of schedules up to `i`.

**Graph partition.** The proofs follow the phases. *Serialisation*: the list is
closed under inputs and `down_graph` is their converse (`Serialised`, then
`DagInv`). *Marking*: the stack is a prefix of the list followed by what the
walk pushed, all of it with the current mark (`StackRight`). So when the walk
comes to an operation without a mark nothing pushed is left, and the class it
leaves is complete; and a fusible neighbour that has a mark already has the
current one, so that overwriting marks does no harm. With this, the operations
of a mark stay linked by fusible edges and a visited one shares its mark with
all its fusible neighbours (`ClassInv`), which makes classes components.
*Validation*: what is checked waits only for what is checked and has no circle;
the path has no repetition and follows the dependences (`PathInv`). So a
predecessor on the path closes a circle, and a check that ends has found none.
*No circle*: the default policy fuses an operation only to its single consumer,
so in a component every operation but the last (`IsTop`) is fused to a consumer
of the component and is read by nobody outside; reading another subgraph means
reading its top, and tops descend along dependences (`TopsDescend`). *Split*:
the top is hence the only operation of the subgraph with a role or an outside
reader, the category that is serialised has it, and everything else is reached
from it (`NothingLost`). *Order*: each counter is the number of predecessors
not yet called, and those at zero are called, free or released (`OrderRight`);
if some were never called, each of them would wait for another, which validation
has excluded.

**`add_task` returns.** `StepsLeft` is proved to decrease with every step and
never to be negative, so `add_task` takes at most as many steps as it has at the
start. `Inv` does not say why the loops are bounded; `BoundInv` does. The list
of `serialize_compute_dag` and the consumers in `down_graph` have nothing twice,
the calls of `helper` descend (`CallsOnce`, `EdgesOnce`), the operation whose
edges `mark_graph` is at is not visited yet, and neither is a subgraph being
serialised built. From it, an operation has fewer than `NOps` edges
(`NeighboursFew`): the inputs are smaller, the consumers larger, none comes
twice. This is what pays for the operations that the walk pushes again. There
is one lemma for the steps of each phase (`SerialisePhase`, `MarkPhase`,
`ValidatePhase`, `AddTaskPhase`); a phase that ends leaves room for all of the
next one. That `add_task` is not stuck before it returns is the deadlock check
of TLC, on the bounded graphs of the run.

Only model-checked: liveness (`TuningCompletes`, `RunTerminates`,
`DestructorReturns`, `SearchEnds`, `TasksResolve`, `DestroyReturns`,
`ExplorationEnds`, `BatchEnds`), because the prover has neither ENABLED nor
fairness, and the absence of deadlock, for the same reason.

## 5. Not modelled

- The intrinsic matcher, the compute transformation and the mapping policies:
  pure recursion over TVM expression trees. A model would have the length of
  the code, and the repository has no reference to check it against.
  `MappingExploration` takes any matchings and any set of feasible mappings.
- Autodiff, the schedule space, its interpreter and features, the schedulers:
  sequential transformations of tensor programs. Where they fail, the models
  have a failure.
- Several tasks in one session, several live sessions, and the map of sessions.
- The branch of the scheduler for external (tensor-core) schedules.
- `CDParamGenerator`, whose candidates `ParameterSearch` allows as any record,
  and `_v2` and `_v3` of the exploration, earlier forms of the same loop.
- Data races inside one C++ operation: a heap, map or queue operation is one
  step, although concurrent ones have no meaning in C++.
- The RPC server, temporary directories, record text, logging.
- TVM itself, its bindings, applications and simulators, which are most of the
  repository's lines.

## 6. Running it

    tlc -workers 2 -config TuningSession_safety.cfg MCTuningSession
    tlapm TuningEvaluateProofs.tla

`PROJECT.json` gives the module and configuration of each run. Every run takes
less than three minutes on two cores, and a proof module at most eleven minutes
when it is proved from nothing.
