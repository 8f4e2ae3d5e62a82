------------------------- MODULE MappingExploration -------------------------
(***************************************************************************)
(* auto_tensorize_v4 (python/tvm/auto_tensorize/auto_tensorize.py): the     *)
(* matchings of a workload with the intrinsics are filtered, the mappings   *)
(* of each are explored round after round, one search pass of a mapping at  *)
(* a time, every mapping with its own log file, and the best schedule of    *)
(* all of them is returned. With trials = 0 nothing is searched: the result *)
(* is read from the logs ("pure test"). The process may be killed anywhere. *)
(*                                                                         *)
(* A search pass (one next() of find_optimized_parameters_v2 or _v3, see    *)
(* ParameterSearch) is a sequence of measurements, each appended to the     *)
(* log. Of a log, and of a generator's entries, only the best measurement   *)
(* matters here: NoValue stands for no entry, or none but placeholders.     *)
(***************************************************************************)
EXTENDS Naturals, Sequences, FiniteSets

CONSTANTS
    Matchings,     \* the matchings that passed the key filters: the record keys
                   \* (Record.as_key) of the mappings of each
    Rounds,        \* repeat_rounds
    MaxValue,      \* bound: measurements, larger is better, are 1 .. MaxValue
    MaxTrials,     \* bound: tune_trials are 1 .. MaxTrials
    MaxCrashes,    \* bound: kills explored
    NoKey

NoValue == 0
Keys == UNION {{Matchings[i][j] : j \in DOMAIN Matchings[i]} : i \in DOMAIN Matchings}

ASSUME ExplorationAssumption ==
    /\ Matchings \in Seq(Seq(Keys)) /\ NoKey \notin Keys
    /\ Rounds \in Nat \ {0} /\ MaxValue \in Nat \ {0} /\ MaxTrials \in Nat \ {0}
    /\ MaxCrashes \in Nat

VARIABLES
    pc,         \* "filter", "apply", "search", "record", "redistribute",
                \* "done", "undefined", "failed" (an exception), "dead" (killed)
    feasible,   \* the record keys MappingApplier accepts
    pure,       \* pure_test
    round, match, mapping,  \* the three loop variables
    todo,       \* the mappings of the matching still to come in this round
    tune,       \* matching -> tune_trials its mapping_weights give its mappings
    contexts,   \* schedule_context_cache: key -> best entry and trials of the search
    used,       \* trials spent by this pass
    best,       \* best_mapping with best_params, and best_value
    log,        \* the log files
    crashes

cursor == <<round, match, mapping, todo>>
exploreVars == <<pc, feasible, pure, cursor, tune, contexts, used, best, log, crashes>>

\* The feasible mappings of a matching, by their places in it.
all_mappings(i) == {j \in DOMAIN Matchings[i] : Matchings[i][j] \in feasible}

Nothing == [key |-> NoKey, value |-> NoValue]
Record == Matchings[match][mapping]

ExploreInit ==
    /\ pc = "filter"
    /\ feasible \in SUBSET Keys
    /\ pure = FALSE
    /\ round = 1 /\ match = 1 /\ mapping = 1 /\ todo = {}
    /\ tune = <<>> /\ contexts = <<>> /\ used = 0
    /\ best = Nothing
    /\ log = [k \in Keys |-> NoValue]
    /\ crashes = 0

\* Up to the loops: no matching is an undefined result, a matching without a
\* feasible mapping fails the assertion. The mappings start with equal weights.
Filter ==
    /\ pc = "filter"
    /\ pc' = IF Matchings = <<>> THEN "undefined"
             ELSE IF \E i \in DOMAIN Matchings : all_mappings(i) = {} THEN "failed"
             ELSE "apply"
    /\ todo' = IF Matchings = <<>> THEN {} ELSE all_mappings(1)
    /\ tune' = [i \in DOMAIN Matchings |-> [j \in all_mappings(i) |-> 1]]
    /\ UNCHANGED <<feasible, pure, round, match, mapping, contexts, used, best, log, crashes>>

Context_ForgetsLog(k, trials) ==
    contexts' = [x \in DOMAIN contexts \cup {k} |->
                    IF x \in DOMAIN contexts THEN contexts[x]
                    ELSE [value |-> NoValue, trials |-> trials]]

\* The schedule context of the mapping: the cached one of that key, or a new
\* generator that loads the log; the search gets this round's trials when new.
Context(k, trials) ==
    contexts' = [x \in DOMAIN contexts \cup {k} |->
                    IF x \in DOMAIN contexts THEN contexts[x]
                    ELSE [value |-> log[k], trials |-> trials]]

\* The next mapping of the matching.
Apply ==
    /\ pc = "apply"
    /\ \E j \in todo : /\ \A i \in todo : j <= i
                       /\ mapping' = j /\ todo' = todo \ {j}
                       /\ Context(Matchings[match][j], tune[match][j])
    /\ used' = 0
    /\ pc' = IF pure THEN "record" ELSE "search"
    /\ UNCHANGED <<feasible, pure, round, match, tune, best, log, crashes>>

\* One trial of next(generate_schedule); a failed one leaves no trace.
Measure ==
    /\ pc = "search" /\ used < contexts[Record].trials
    /\ used' = used + 1
    /\ \E v \in NoValue .. MaxValue :
        LET better(old) == IF v > old THEN v ELSE old
        IN  /\ contexts' = [contexts EXCEPT ![Record].value = better(@)]
            /\ log' = [log EXCEPT ![Record] = better(@)]
    /\ UNCHANGED <<pc, feasible, pure, cursor, tune, best, crashes>>

\* The pass yields, or the generator finds no candidate at all and has no entry
\* to fall back on: the exception ends the exploration.
PassEnds ==
    /\ pc = "search"
    /\ \/ used = contexts[Record].trials /\ pc' = "record"
       \/ contexts[Record].value = NoValue /\ pc' = "failed"
    /\ UNCHANGED <<feasible, pure, cursor, tune, contexts, used, best, log, crashes>>

RecordBest_KeepsMapping ==
    /\ pc = "record"
    /\ best' = IF contexts[Record].value > best.value
               THEN [key |-> IF best.key = NoKey THEN Record ELSE best.key,
                     value |-> contexts[Record].value]
               ELSE best
    /\ pc' = IF todo = {} THEN "redistribute" ELSE "apply"
    /\ UNCHANGED <<feasible, pure, cursor, tune, contexts, used, log, crashes>>

\* get_best_entry; the best of all; and on to the next mapping.
RecordBest ==
    /\ pc = "record"
    /\ best' = IF contexts[Record].value > best.value
               THEN [key |-> Record, value |-> contexts[Record].value]
               ELSE best
    /\ pc' = IF todo = {} THEN "redistribute" ELSE "apply"
    /\ UNCHANGED <<feasible, pure, cursor, tune, contexts, used, log, crashes>>

Advance_SameRound(last) ==
    /\ match' = IF match < Len(Matchings) THEN match + 1 ELSE 1
    /\ round' = round
    /\ todo' = all_mappings(match')

Advance(last) ==
    /\ match' = IF match < Len(Matchings) THEN match + 1 ELSE 1
    /\ round' = IF match < Len(Matchings) \/ last THEN round ELSE round + 1
    /\ todo' = all_mappings(match')

\* The end of a matching: new weights (any, they are positive), the next
\* matching, the next round, or the result, which needs a best_ctx.
Redistribute ==
    /\ pc = "redistribute"
    /\ LET last == match = Len(Matchings) /\ (pure \/ round = Rounds)
       IN  /\ Advance(last)
           /\ pc' = IF ~last THEN "apply" ELSE IF best.key = NoKey THEN "failed" ELSE "done"
           /\ \E t \in [DOMAIN tune[match] -> 1 .. MaxTrials] :
                tune' = IF pure THEN tune ELSE [tune EXCEPT ![match] = t]
    /\ UNCHANGED <<feasible, pure, mapping, contexts, used, best, log, crashes>>

\* The process is killed at any point before it has returned.
Crash ==
    /\ pc \notin {"done", "undefined", "failed", "dead"}
    /\ crashes < MaxCrashes
    /\ crashes' = crashes + 1
    /\ pc' = "dead"
    /\ UNCHANGED <<feasible, pure, cursor, tune, contexts, used, best, log>>

\* The next call of auto_tensorize_v4 for the workload, to tune on or to test.
Restart ==
    /\ pc = "dead"
    /\ pc' = "filter"
    /\ pure' \in BOOLEAN
    /\ round' = 1 /\ match' = 1 /\ mapping' = 1 /\ todo' = {}
    /\ tune' = <<>> /\ contexts' = <<>> /\ used' = 0 /\ best' = Nothing
    /\ UNCHANGED <<feasible, log, crashes>>

ExploreNext == Filter \/ Apply \/ Measure \/ PassEnds \/ RecordBest \/ Redistribute
        \/ Crash \/ Restart

\* The exploration runs on, and a killed one is started again.
ExploreSpec == ExploreInit /\ [][ExploreNext]_exploreVars
        /\ WF_exploreVars(Filter \/ Apply \/ Measure \/ PassEnds \/ RecordBest \/ Redistribute)
        /\ WF_exploreVars(Restart)

-----------------------------------------------------------------------------
(* Properties                                                                *)

\* What auto_tensorize_v4 returns is the best measurement in any of the logs,
\* those of earlier, killed calls included, with the mapping whose log has it;
\* this is also what a pure test finds. It fails only if a matching has no
\* feasible mapping or nothing was ever measured for some mapping.
ResultIsBest ==
    /\ pc = "done" =>
        /\ best.key \in feasible /\ best.value = log[best.key]
        /\ \A k \in feasible : log[k] <= best.value
    /\ pc = "failed" =>
        \/ \E i \in DOMAIN Matchings : all_mappings(i) = {}
        \/ \E k \in feasible : log[k] = NoValue

\* The best so far is always in the log of its mapping already: killing the
\* process loses no value that was printed as the best.
BestIsLogged == best.key # NoKey => best.value <= log[best.key]

\* Every call ends, with a result or an exception, whatever the redistribution
\* of the trials and however often it was killed.
ExplorationEnds == <>[](pc \in {"done", "undefined", "failed"})
=============================================================================
