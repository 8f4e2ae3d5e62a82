-------------------------- MODULE SessionLifetime --------------------------
(***************************************************************************)
(* A TuningSession owned by a SingleGraphSession                           *)
(* (python/tvm/tensor_graph/core/runtime.py), from its creation to the     *)
(* return of ~Session (src/tg/runtime/driver.cc).  The destructor drops    *)
(* the functions first and joins the threads after: end_tuning has not     *)
(* joined them, so they run on under it.  One clear() is one step, although *)
(* the C++ gives a concurrent use of the map no meaning.                   *)
(***************************************************************************)
EXTENDS TuningSession

\* "alive", "ending": in __del__, "sch", "build", "evaluate": in ~Session, at
\* the join of that thread, "gone".
VARIABLE life

lifeVars == <<vars, life>>

LifeInit == Init /\ life = "alive"

\* __del__ of a session that was tuned, not only tested, calls end_tuning.
Del ==
  /\ life = "alive" /\ tunings > 0
  /\ EndTuning
  /\ life' = "ending"

\* Then delete_session drops the last reference, and ~Session begins.
DeleteSession ==
  /\ life = "ending" /\ mainPc = "idle"
  /\ future' = [k \in Keys |-> 0]
  /\ built' = [k \in Keys |-> 0]
  /\ best' = [k \in Keys |-> <<>>]
  /\ life' = "sch"
  /\ UNCHANGED <<queueVars, flagVars, workerVars, mainVars>>

ThreadPc == [sch |-> schPc, build |-> bldPc, evaluate |-> evPc]

\* ~Session joins the threads of one map and clears the map.
Join ==
  /\ life \in Threads
  /\ ThreadPc[life] \in {"none", "done"}
  /\ inMap' = [inMap EXCEPT ![life] = FALSE]
  /\ life' = [sch |-> "build", build |-> "evaluate", evaluate |-> "gone"][life]
  /\ UNCHANGED <<queueVars, future, built, best, finish, inTuning, cached, workerVars, mainVars>>

Destroy == DeleteSession \/ Join

\* While ~Session runs, the program thread is in it and makes no other call.
LifeNext ==
  \/ (ScheduleThread \/ BuildThread \/ EvaluateThread) /\ UNCHANGED life
  \/ life = "alive" /\ ProgramThread /\ UNCHANGED life
  \/ life = "ending" /\ Returning /\ UNCHANGED life
  \/ Del \/ Destroy

LifeSpec == LifeInit /\ [][LifeNext]_lifeVars /\ Fairness /\ WF_lifeVars(Destroy)

-----------------------------------------------------------------------------
(* Properties *)

\* Until the session is deleted, the best function of a subgraph is replaced
\* only by a better one, or by an equally good one of a repeated subgraph.
\* evaluate_helper does not compare the two when it repeats one, so this needs
\* tuning alone: a better function loaded from a reference meanwhile gives way
\* to that of the twin.
BestNeverWorsensAlive ==
  [][life' \in {"alive", "ending"} =>
       \A k \in Keys : best[k] # <<>> =>
         best'[k] # <<>> /\ Head(best'[k]) >= Head(best[k])]_lifeVars

\* __del__ of a session in tuning returns: end_tuning gets the functions it
\* waits for, and the three threads, which nobody has joined, find finish set
\* and leave although ~Session takes their functions away under them.
DestructorReturns == (life = "ending" /\ inTuning) ~> (life = "gone")
=============================================================================
