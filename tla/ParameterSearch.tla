-------------------------- MODULE ParameterSearch --------------------------
(***************************************************************************)
(* The schedule search of auto_tensorize: the simulated-annealing entry    *)
(* generator (search/parameter.py, SAEntryGenerator), the batch loops that *)
(* drive it (find_optimized_parameters, _v2 and _v3) and the caller that   *)
(* resumes a search from its log (auto_tensorize_schedule).  The process   *)
(* may crash between any two steps; the log file is all that survives.     *)
(*                                                                         *)
(* Values are 1/time_cost.  Zero is the 0.0 the generator writes for a     *)
(* candidate it has handed out, Failed is 1/MAX_FLOAT, what a candidate    *)
(* that did not build or run is worth, and 2..MaxValue are measurements.   *)
(* The random choices of the generator are nondeterministic: get_record,   *)
(* sa_select_entry and the mutations may return any record.                *)
(***************************************************************************)
EXTENDS Integers, Sequences, FiniteSets

CONSTANTS
  Records,      \* the points of the schedule space, by str(record)
  Valid,        \* those the generator's valid() accepts
  MaxValue,     \* the best measurement
  Trials,       \* trials of one search
  GroupSize,    \* search_group_size
  Variant,      \* "v1": find_optimized_parameters, "v2", "v3"
  Verbose,      \* verbose; _v1 prints its best time whatever verbose says
  PerfNum, PerfDen, \* perf_percentage of _v3 as a fraction
  MaxTrial,     \* max_trial of get
  AllowRepeat,  \* allow_repeat
  Passes,       \* next() the caller asks of _v2 and _v3; the one pass of _v1
  MaxCrashes,   \* bound on the crashes explored
  NoRecord      \* no parameters: None

Zero == 0
Failed == 1
Values == Zero .. MaxValue
Absent == -1

ASSUME SearchAssumption ==
  /\ Records # {} /\ Valid \subseteq Records /\ NoRecord \notin Records
  /\ MaxValue \in Nat /\ MaxValue > Failed
  /\ Trials \in Nat \ {0} /\ GroupSize \in Nat \ {0} /\ MaxTrial \in Nat \ {0}
  /\ Variant \in {"v1", "v2", "v3"} /\ Verbose \in BOOLEAN
  /\ PerfNum \in Nat \ {0} /\ PerfDen \in Nat \ {0} /\ PerfNum <= PerfDen
  /\ Passes \in Nat \ {0} /\ (Variant = "v1" => Passes = 1)
  /\ AllowRepeat \in BOOLEAN /\ MaxCrashes \in Nat

VARIABLES
  pc,          \* "load", "batch", "next", "get", "results", "yield",
               \* "done", "raised"
  entries,     \* the heap: the pairs <<record, value>> pushed
  visited,     \* visited: the last value of a record, or Absent
  log,         \* the log file: [pushed, last], what replaying its lines gives
  gen,         \* the suspended _get_next: "top", "mutate", "output"
  attempt,     \* i of the loop of get
  batch,       \* b
  params,      \* params_lst: the candidates of the batch without a result
  best,        \* <<best_params, best_value>>
  passes,      \* passes of the search that have ended
  crashes

vars == <<pc, entries, visited, log, gen, attempt, batch, params, best,
          passes, crashes>>

memory == <<entries, visited>>

(***************************************************************************)
(* The heap.  Entry orders itself by decreasing value, so the root, which  *)
(* is entries[0] and topk(k=1)[0], is an entry of the largest value.       *)
(***************************************************************************)
Roots == {e \in entries : \A f \in entries : f[2] <= e[2]}

Update(f, r, v) == [f EXCEPT ![r] = v]

\* Mutant of Feedback: the line is not written to the log.
Feedback_NotLogged(r, v) ==
  /\ entries' = entries \union {<<r, v>>}
  /\ visited' = Update(visited, r, v)
  /\ UNCHANGED log

\* feedback(record, value): remember, push, and append a line to the log.
Feedback(r, v) ==
  /\ entries' = entries \union {<<r, v>>}
  /\ visited' = Update(visited, r, v)
  /\ log' = [pushed |-> log.pushed \union {<<r, v>>},
             last |-> Update(log.last, r, v)]

\* A candidate leaves the generator: its place in the batch, and the generator
\* suspended where it was left.
HandOut(r, g) ==
  /\ params' = Append(params, r)
  /\ gen' = g
  /\ pc' = "next"

GroupNum == (Trials + GroupSize - 1) \div GroupSize

\* How many candidates batch b asks for: b * search_group_size + i < trials.
BatchSize(b) ==
  IF (b + 1) * GroupSize <= Trials THEN GroupSize ELSE Trials - b * GroupSize

----------------------------------------------------------------------------
Init ==
  /\ pc = "load"
  /\ entries = {} /\ visited = [r \in Records |-> Absent]
  /\ log = [pushed |-> {}, last |-> [r \in Records |-> Absent]]
  /\ gen = "top" /\ attempt = 0 /\ batch = 0 /\ params = <<>>
  /\ best = <<NoRecord, Failed>>
  /\ passes = 0 /\ crashes = 0

\* Mutant of Load: the entries are restored, what was visited is not.
Load_ForgetsVisited ==
  /\ pc = "load"
  /\ entries' = log.pushed /\ visited' = [r \in Records |-> Absent]
  /\ best' \in IF log.pushed = {} THEN {<<NoRecord, Failed>>}
               ELSE {e \in log.pushed : \A f \in log.pushed : f[2] <= e[2]}
  /\ pc' = "batch"
  /\ UNCHANGED <<log, gen, attempt, batch, params, passes, crashes>>

\* A new generator, load_from_file on its log if there is one, and the best
\* entry known as the start of the search.
Load ==
  /\ pc = "load"
  /\ entries' = log.pushed /\ visited' = log.last
  /\ best' \in IF log.pushed = {} THEN {<<NoRecord, Failed>>}
               ELSE {e \in log.pushed : \A f \in log.pushed : f[2] <= e[2]}
  /\ pc' = "batch"
  /\ UNCHANGED <<log, gen, attempt, batch, params, passes, crashes>>

\* The head of the loop over the batches: refresh, and an empty params_lst.
StartBatch ==
  /\ pc = "batch"
  /\ gen' = "top" /\ params' = <<>>
  /\ pc' = "next"
  /\ UNCHANGED <<memory, log, attempt, batch, best, passes, crashes>>

\* _get_next at the top of its loop takes a new start from get: always when
\* there are no entries, by chance when there are.
TakeFresh ==
  /\ pc = "next" /\ Len(params) < BatchSize(batch) /\ gen = "top"
  /\ pc' = "get" /\ attempt' = 0
  /\ UNCHANGED <<memory, log, gen, batch, params, best, passes, crashes>>

\* or selects an entry whose mutations it runs through.
SelectEntry ==
  /\ pc = "next" /\ Len(params) < BatchSize(batch) /\ gen = "top"
  /\ entries # {}
  /\ gen' = "mutate"
  /\ UNCHANGED <<pc, memory, log, attempt, batch, params, best, passes, crashes>>

\* Mutant of Mutate: the candidate handed out is not marked visited.
Mutate_NotMarked(r) ==
  /\ pc = "next" /\ Len(params) < BatchSize(batch) /\ gen \in {"mutate", "output"}
  /\ visited[r] = Absent /\ r \in Valid
  /\ HandOut(r, "output")
  /\ UNCHANGED <<memory, log, attempt, batch, best, passes, crashes>>

\* A mutation nobody has visited is handed out.
Mutate(r) ==
  /\ pc = "next" /\ Len(params) < BatchSize(batch) /\ gen \in {"mutate", "output"}
  /\ visited[r] = Absent /\ r \in Valid
  /\ visited' = Update(visited, r, Zero)
  /\ HandOut(r, "output")
  /\ UNCHANGED <<entries, log, attempt, batch, best, passes, crashes>>

\* Mutant of MutateEnds: no fall back to get when no mutation came out.
MutateEnds_NoFallback ==
  /\ pc = "next" /\ Len(params) < BatchSize(batch) /\ gen \in {"mutate", "output"}
  /\ gen' = "top"
  /\ UNCHANGED <<pc, attempt, memory, log, batch, params, best, passes, crashes>>

\* The mutations are exhausted: back to the top, through get if none came out.
MutateEnds ==
  /\ pc = "next" /\ Len(params) < BatchSize(batch) /\ gen \in {"mutate", "output"}
  /\ gen' = "top"
  /\ IF gen = "output" THEN UNCHANGED <<pc, attempt>>
                       ELSE pc' = "get" /\ attempt' = 0
  /\ UNCHANGED <<memory, log, batch, params, best, passes, crashes>>

\* One turn of the loop of get: get_record has returned r.
GetNew(r) ==
  /\ pc = "get" /\ attempt < MaxTrial
  /\ visited[r] = Absent /\ r \in Valid
  /\ visited' = Update(visited, r, Zero)
  /\ HandOut(r, "top")
  /\ UNCHANGED <<entries, log, attempt, batch, best, passes, crashes>>

\* Mutant of GetInvalid: one turn too many.
GetInvalid_OneMore(r) ==
  /\ pc = "get" /\ attempt <= MaxTrial
  /\ visited[r] = Absent /\ r \notin Valid
  /\ attempt' = attempt + 1
  /\ UNCHANGED <<pc, memory, log, gen, batch, params, best, passes, crashes>>

GetInvalid(r) ==
  /\ pc = "get" /\ attempt < MaxTrial
  /\ visited[r] = Absent /\ r \notin Valid
  /\ attempt' = attempt + 1
  /\ UNCHANGED <<pc, memory, log, gen, batch, params, best, passes, crashes>>

\* A visited record is fed back with the value it was left with, and returned
\* only when repeats are allowed.
GetVisited(r) ==
  /\ pc = "get" /\ attempt < MaxTrial
  /\ visited[r] # Absent
  /\ Feedback(r, visited[r])
  /\ IF AllowRepeat THEN HandOut(r, "top") /\ UNCHANGED attempt
                    ELSE attempt' = attempt + 1 /\ UNCHANGED <<pc, gen, params>>
  /\ UNCHANGED <<batch, best, passes, crashes>>

\* "It seems hard to find new candidates...": the best entry once more, an
\* IndexError when there is none.
GetGivesUp ==
  /\ pc = "get" /\ attempt = MaxTrial
  /\ \/ /\ entries = {}
        /\ pc' = "raised" /\ UNCHANGED <<params, gen>>
     \/ \E e \in Roots : HandOut(e[1], "top")
  /\ UNCHANGED <<memory, log, attempt, batch, best, passes, crashes>>

\* The batch is complete.  The performance model of _v3 sorts it by an estimate
\* and keeps the first ceil(len * perf_percentage) candidates; builder and
\* runner then run what is left.
Kept(n) == (n * PerfNum + PerfDen - 1) \div PerfDen

Rankings(s, n) ==
  {[i \in 1 .. n |-> s[f[i]]] :
     f \in {g \in [1 .. n -> 1 .. Len(s)] : \A i, j \in 1 .. n : g[i] = g[j] => i = j}}

Measure ==
  /\ pc = "next" /\ Len(params) = BatchSize(batch)
  /\ params' \in IF Variant = "v3" THEN Rankings(params, Kept(Len(params))) ELSE {params}
  /\ pc' = "results"
  /\ UNCHANGED <<memory, log, gen, attempt, batch, best, passes, crashes>>

\* Mutant of Result: every valid result replaces the best.
Result_TakesLast(v) ==
  /\ pc = "results" /\ params # <<>>
  /\ IF v > Failed THEN Feedback(Head(params), v) ELSE UNCHANGED <<memory, log>>
  /\ best' = IF v > Failed THEN <<Head(params), v>> ELSE best
  /\ params' = Tail(params)
  /\ UNCHANGED <<pc, gen, attempt, batch, passes, crashes>>

\* The result of the next candidate: a failure is not fed back, and the best
\* follows the larger value.
Result(v) ==
  /\ pc = "results" /\ params # <<>>
  /\ IF v > Failed THEN Feedback(Head(params), v) ELSE UNCHANGED <<memory, log>>
  /\ best' = IF v > best[2] THEN <<Head(params), v>> ELSE best
  /\ params' = Tail(params)
  /\ UNCHANGED <<pc, gen, attempt, batch, passes, crashes>>

\* The end of a batch prints 1 / best_value: a division by zero when the best
\* entry the search began with was never measured and nothing has improved.
EndBatch ==
  /\ pc = "results" /\ params = <<>>
  /\ IF best[2] = Zero /\ (Variant = "v1" \/ Verbose)
     THEN pc' = "raised" /\ UNCHANGED <<batch, passes>>
     ELSE IF batch + 1 < GroupNum THEN pc' = "batch" /\ batch' = batch + 1 /\ UNCHANGED passes
     ELSE pc' = "yield" /\ batch' = 0 /\ passes' = passes + 1
  /\ UNCHANGED <<memory, log, gen, attempt, params, best, crashes>>

\* auto_tensorize_v4 asks _v2 and _v3 for another pass.
Resume ==
  /\ pc = "yield" /\ passes < Passes
  /\ pc' = "batch"
  /\ UNCHANGED <<memory, log, gen, attempt, batch, params, best, passes, crashes>>

\* auto_tensorize_schedule ends with get_best_entry, which asserts that there is
\* an entry, and divides by its value; auto_tensorize_v4 catches the assertion.
Finish ==
  /\ pc = "yield" /\ passes = Passes
  /\ pc' = IF Variant = "v1" /\ \A e \in Roots : e[2] = Zero THEN "raised" ELSE "done"
  /\ UNCHANGED <<memory, log, gen, attempt, batch, params, best, passes, crashes>>

\* The process dies, between any two steps, and is started again.
Crash ==
  /\ pc # "load" /\ crashes < MaxCrashes
  /\ pc' = "load"
  /\ entries' = {} /\ visited' = [r \in Records |-> Absent]
  /\ gen' = "top" /\ attempt' = 0 /\ batch' = 0 /\ params' = <<>>
  /\ best' = <<NoRecord, Failed>> /\ passes' = 0
  /\ crashes' = crashes + 1
  /\ UNCHANGED log

Search ==
  \/ Load \/ StartBatch \/ TakeFresh \/ SelectEntry \/ MutateEnds
  \/ \E r \in Records : Mutate(r) \/ GetNew(r) \/ GetInvalid(r) \/ GetVisited(r)
  \/ GetGivesUp \/ Measure
  \/ \E v \in Failed .. MaxValue : Result(v)
  \/ EndBatch \/ Resume \/ Finish

Next == Search \/ Crash

Spec == Init /\ [][Next]_vars

\* The search is one thread that runs whenever it can.
FairSpec == Spec /\ WF_vars(Search)
----------------------------------------------------------------------------
(***************************************************************************)
(* Properties.                                                             *)
(***************************************************************************)
Pairs == Records \X Values

\* The types of the state of the generator and of the search.
TypeOK ==
  /\ pc \in {"load", "batch", "next", "get", "results", "yield", "done", "raised"}
  /\ entries \subseteq Pairs
  /\ visited \in [Records -> Values \union {Absent}]
  /\ log \in [pushed : SUBSET Pairs, last : [Records -> Values \union {Absent}]]
  /\ gen \in {"top", "mutate", "output"}
  /\ attempt \in 0 .. MaxTrial
  /\ batch \in Nat /\ passes \in Nat /\ crashes \in Nat
  /\ params \in Seq(Records)
  /\ best \in (Records \union {NoRecord}) \X Values

\* The log is the memory of the search: while the process runs, replaying the
\* lines of its log file (load_from_file) would rebuild the very heap it has,
\* and the value it remembers for every record it has ever fed back, so that a
\* search stopped at any step and resumed continues from where it was.
LogReplays ==
  pc # "load" =>
    /\ entries = log.pushed
    /\ \A r \in Records : log.last[r] # Absent => visited[r] = log.last[r]

\* The best the search loop keeps for itself (best_value, best_params) and the
\* root of the generator's heap, which the callers take instead of it, agree as
\* soon as one of them is a measurement.
BestAgrees ==
  pc # "load" /\ (best[2] > Failed \/ \E e \in entries : e[2] > Failed) =>
    best \in Roots

\* A batch measures a candidate twice only when the generator has already fed
\* that candidate back: handing out a new one marks it visited before the next
\* is chosen, through the mutations and through get alike.
BatchDistinct ==
  \A i, j \in DOMAIN params :
    i # j /\ params[i] = params[j] => \E e \in entries : e[1] = params[i]

\* Every call of the search comes to its end: get gives up after max_trial
\* records, an exhausted selection of mutations falls back to get, and the
\* batches run out.
SearchEnds == <>(pc \in {"done", "raised"})

\* The value of the best measurement of a set of entries, Zero if there is none.
BestValue(S) ==
  IF \E e \in S : e[2] > Failed
  THEN CHOOSE v \in Values : (\E e \in S : e[2] = v) /\ \A e \in S : e[2] <= v
  ELSE Zero

\* The search, crashes included, is a best-so-far register that survives them:
\* what it has reported as its best is never lost and never worsens.
Register == INSTANCE DurableBest
  WITH known <- IF best[2] > Failed THEN best[2] ELSE Zero,
       durable <- BestValue(log.pushed), Scores <- Values

DurableBest == Register!Spec

\* auto_tensorize.py says of the log "we store 1/time_cost in file": every line
\* holds the value of a measurement.  get feeds a visited record back with the
\* placeholder 0.0 when it has no measurement yet.
LogHoldsTimeCosts == \A e \in log.pushed : e[2] > Failed
============================================================================
