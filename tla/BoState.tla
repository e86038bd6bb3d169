------------------------------- MODULE BoState -------------------------------
(***************************************************************************)
(* The life of the state file .bostate.<program>.json: executions of the   *)
(* target program load it in a constructor (bo_load_data), collect one     *)
(* list of observations per loop (bo_schedule_parameter, _begin, _end) and *)
(* write it back in a destructor (bo_save_data); the offline tuner         *)
(* (bosched.jl) reads it, chooses the next parameter of every loop and     *)
(* overwrites it.                                                          *)
(*                                                                         *)
(* The values of parameters and measurements are abstracted to where they  *)
(* come from, and a list of observations to whether it is empty.  Reading  *)
(* an uninitialised field of a loop_state_t gives any value.               *)
(***************************************************************************)
EXTENDS Integers, Sequences, FiniteSets

CONSTANTS
  Procs,      \* executions of the target that may be under way at once
  Loops,      \* the loops (region ids) of the target
  MaxRuns,    \* bound: executions started in a behaviour
  MaxTunings, \* bound: tunings started in a behaviour
  Envs,       \* how the target may be started: a subset of Environments
  EveryLoop,  \* TRUE iff every execution reaches every loop
  Empty,      \* TRUE iff a loop may be executed without an iteration
  Serial,     \* TRUE iff the user never overlaps executions and tunings
  Crashes     \* TRUE iff a process may be killed

\* BO schedule selected; the same with EVAL set; some other OMP_SCHEDULE.
Environments == {"bo", "eval", "other"}

ASSUME BoStateAssumption ==
  /\ IsFiniteSet(Procs) /\ IsFiniteSet(Loops)
  /\ MaxRuns \in Nat /\ MaxTunings \in Nat
  /\ Envs \subseteq Environments
  /\ EveryLoop \in BOOLEAN /\ Empty \in BOOLEAN /\ Serial \in BOOLEAN /\ Crashes \in BOOLEAN

VARIABLES
  file,    \* the state file: [kind, loops]
  lock,    \* does the lock file exist?
  pc,      \* pc[p]: stage of execution p
  env,     \* env[p]: its environment
  fresh,   \* fresh[p]: _is_new_file
  mem,     \* mem[p]: its _loop_states
  tuner,   \* the tuner: [pc, loops]
  runs,    \* executions started so far
  tunings, \* tunings started so far
  total,   \* total[l]: executions that ended normally with observations of l (history)
  tuned,   \* the loops of the last tuning that finished (history)
  failed   \* has an execution died while loading the state file? (history)

procvars  == <<pc, env, fresh, mem>>
history   == <<total, tuned, failed>>
vars == <<file, lock, pc, env, fresh, mem, tuner, runs, tunings, total, tuned, failed>>

Stages == {"off", "run", "saving", "locked", "writing", "written"}

NoLoops == [l \in {} |-> 0]

Absent     == [kind |-> "absent", loops |-> NoLoops]
Torn       == [kind |-> "torn", loops |-> NoLoops]
Whole(ls)  == [kind |-> "whole", loops |-> ls]

(***************************************************************************)
(* A loop in the file: warmup, whether the tuner has stored param and      *)
(* eval_param, and the rows of obs and hist ("hole" is an empty row).      *)
(* A loop in memory has in addition its num_tasks ("indet" when the field  *)
(* was never assigned), its param and eval_param, and ran: obs_x # {}.     *)
(***************************************************************************)
Rows == Seq({"row", "hole"})

HasHole(rows) == \E i \in DOMAIN rows : rows[i] = "hole"

RowsIn(rows) == {i \in DOMAIN rows : rows[i] = "row"}

Count(e) == Cardinality(RowsIn(e.obs)) + Cardinality(RowsIn(e.hist))

Init ==
  /\ file = Absent
  /\ lock = FALSE
  /\ pc = [p \in Procs |-> "off"]
  /\ env = [p \in Procs |-> "bo"]
  /\ fresh = [p \in Procs |-> FALSE]
  /\ mem = [p \in Procs |-> NoLoops]
  /\ tuner = [pc |-> "off", loops |-> NoLoops]
  /\ runs = 0 /\ tunings = 0
  /\ total = [l \in Loops |-> 0]
  /\ tuned = {}
  /\ failed = FALSE

Idle == tuner.pc = "off" /\ \A p \in Procs : pc[p] = "off"

-----------------------------------------------------------------------------
(* Loading: bo_load_data and read_state.                                   *)

\* A loop that is not warming up is read with its param and eval_param keys.
Readable(e) == ~e.warm => e.tuned

\* A loop that is warming up is read with obs_x.back()[0], which may not exist.
Risky(e) == e.warm /\ (e.obs # <<>> => e.obs[Len(e.obs)] = "hole")

\* mutant: the keys param and eval_param are swapped.
Loaded_Swapped(e) ==
  [warm |-> e.warm, tuned |-> e.tuned, obs |-> e.obs, hist |-> e.hist,
   N |-> "indet", ran |-> FALSE,
   param |-> IF e.warm THEN "draw" ELSE "best",
   eval  |-> IF e.warm THEN "indet" ELSE "tuned"]

\* warmup_next_param replaces the param of a loop that is warming up.
Loaded(e) ==
  [warm |-> e.warm, tuned |-> e.tuned, obs |-> e.obs, hist |-> e.hist,
   N |-> "indet", ran |-> FALSE,
   param |-> IF e.warm THEN "draw" ELSE "tuned",
   eval  |-> IF e.warm THEN "indet" ELSE "best"]

MayStart(p) ==
  /\ pc[p] = "off"
  /\ runs < MaxRuns
  /\ Serial => Idle

Start(p) ==
  /\ MayStart(p)
  /\ file.kind # "torn"
  /\ \A l \in DOMAIN file.loops : Readable(file.loops[l])
  /\ pc' = [pc EXCEPT ![p] = "run"]
  /\ env' \in {[env EXCEPT ![p] = e] : e \in Envs}
  /\ fresh' = [fresh EXCEPT ![p] = file.kind = "absent"]
  /\ mem' = [mem EXCEPT ![p] =
               [l \in DOMAIN file.loops |-> Loaded(file.loops[l])]]
  /\ runs' = runs + 1
  /\ UNCHANGED <<file, lock, tuner, tunings, history>>

\* A parse error, a missing key or the missing element ends the process.
StartFails(p) ==
  /\ MayStart(p)
  /\ \/ file.kind = "torn"
     \/ \E l \in DOMAIN file.loops : ~Readable(file.loops[l]) \/ Risky(file.loops[l])
  /\ runs' = runs + 1
  /\ failed' = TRUE
  /\ UNCHANGED <<file, lock, procvars, tuner, tunings, total, tuned>>

-----------------------------------------------------------------------------
(* Executing a loop: bo_schedule_parameter, bo_schedule_begin and          *)
(* bo_schedule_end.                                                        *)

\* What _loop_states[region_id] creates when there is no entry.
NewLoop ==
  [warm |-> FALSE, tuned |-> FALSE, obs |-> <<>>, hist |-> <<>>,
   N |-> "zero", ran |-> FALSE, param |-> "zero", eval |-> "zero"]

\* mutant: the loops of a new file are not marked as warming up.
Executed_NoWarmup(p, e, n) ==
  IF env[p] = "other" THEN e
  ELSE [e EXCEPT !.param = IF env[p] = "eval" THEN e.eval ELSE @,
                 !.N     = n,
                 !.ran   = TRUE]

\* n says whether (end - start) / incr, the number of iterations, is 0.
Executed(p, e, n) ==
  IF env[p] = "other" THEN e
  ELSE [e EXCEPT !.warm  = @ \/ fresh[p],
                 !.param = IF env[p] = "eval" THEN e.eval ELSE @,
                 !.N     = n,
                 !.ran   = TRUE]

Execute(p, l, n) ==
  /\ pc[p] = "run"
  /\ n = "zero" => Empty
  /\ LET e == IF l \in DOMAIN mem[p] THEN mem[p][l] ELSE NewLoop
     IN  mem' = [mem EXCEPT ![p] =
                   [k \in DOMAIN mem[p] \cup {l} |->
                      IF k = l THEN Executed(p, e, n) ELSE mem[p][k]]]
  /\ UNCHANGED <<file, lock, pc, env, fresh, tuner, runs, tunings, history>>

-----------------------------------------------------------------------------
(* Saving: bo_save_data and write_state.                                   *)

Ran(p) == {l \in DOMAIN mem[p] : mem[p][l].ran}

\* The program ends; with EVAL or without loops nothing is saved.
Exit(p) ==
  /\ pc[p] = "run"
  /\ EveryLoop => (DOMAIN mem[p] = Loops /\ (env[p] # "other" => Ran(p) = Loops))
  /\ IF env[p] = "eval" \/ DOMAIN mem[p] = {}
     THEN /\ pc' = [pc EXCEPT ![p] = "off"]
          /\ mem' = [mem EXCEPT ![p] = NoLoops]
          /\ UNCHANGED total
     ELSE /\ pc' = [pc EXCEPT ![p] = "saving"]
          /\ total' = [l \in Loops |-> IF l \in Ran(p) THEN total[l] + 1 ELSE total[l]]
          /\ UNCHANGED mem
  /\ UNCHANGED <<file, lock, env, fresh, tuner, runs, tunings, tuned, failed>>

\* mutant: fopen in mode "w" succeeds although the lock file exists.
Lock_Shared(p) ==
  /\ pc[p] = "saving"
  /\ lock' = TRUE
  /\ pc' = [pc EXCEPT ![p] = "locked"]
  /\ UNCHANGED <<file, env, fresh, mem, tuner, runs, tunings, history>>

\* mutant: the lock file is only tested for, not created.
Lock_TestOnly(p) ==
  /\ pc[p] = "saving"
  /\ ~lock
  /\ pc' = [pc EXCEPT ![p] = "locked"]
  /\ UNCHANGED <<file, lock, env, fresh, mem, tuner, runs, tunings, history>>

\* fopen of the lock file in mode "wx".
Lock(p) ==
  /\ pc[p] = "saving"
  /\ ~lock
  /\ lock' = TRUE
  /\ pc' = [pc EXCEPT ![p] = "locked"]
  /\ UNCHANGED <<file, env, fresh, mem, tuner, runs, tunings, history>>

\* When the lock file exists the execution ends without saving.
LockBusy(p) ==
  /\ pc[p] = "saving"
  /\ lock
  /\ pc' = [pc EXCEPT ![p] = "off"]
  /\ mem' = [mem EXCEPT ![p] = NoLoops]
  /\ UNCHANGED <<file, lock, env, fresh, tuner, runs, tunings, history>>

\* Opening the output stream empties the file.
Truncate(p) ==
  /\ pc[p] = "locked"
  /\ file' = Torn
  /\ pc' = [pc EXCEPT ![p] = "writing"]
  /\ UNCHANGED <<lock, env, fresh, mem, tuner, runs, tunings, history>>

\* mutant: the new row replaces the rows read from the file.
Saved_Replaced(e) ==
  [warm |-> e.warm, tuned |-> e.tuned, hist |-> e.hist,
   obs |-> <<IF e.ran THEN "row" ELSE "hole">>]

\* One row per loop is appended, also for a loop that was not executed.
Saved(e) ==
  [warm |-> e.warm, tuned |-> e.tuned, hist |-> e.hist,
   obs |-> Append(e.obs, IF e.ran THEN "row" ELSE "hole")]

\* Loops with num_tasks = 0 are left out; an unassigned num_tasks may be 0.
Write(p) ==
  /\ pc[p] = "writing"
  /\ \E zero \in SUBSET {l \in DOMAIN mem[p] : mem[p][l].N = "indet"} :
       LET kept == {l \in DOMAIN mem[p] : mem[p][l].N # "zero"} \ zero
       IN  file' = Whole([l \in kept |-> Saved(mem[p][l])])
  /\ pc' = [pc EXCEPT ![p] = "written"]
  /\ mem' = [mem EXCEPT ![p] = NoLoops]
  /\ UNCHANGED <<lock, env, fresh, tuner, runs, tunings, history>>

Unlock(p) ==
  /\ pc[p] = "written"
  /\ lock' = FALSE
  /\ pc' = [pc EXCEPT ![p] = "off"]
  /\ UNCHANGED <<file, env, fresh, mem, tuner, runs, tunings, history>>

\* The process is killed; its files stay as they are.
Crash(p) ==
  /\ Crashes
  /\ pc[p] # "off"
  /\ pc' = [pc EXCEPT ![p] = "off"]
  /\ mem' = [mem EXCEPT ![p] = NoLoops]
  /\ UNCHANGED <<file, lock, env, fresh, tuner, runs, tunings, history>>

-----------------------------------------------------------------------------
(* The tuner: main and bosched_mode of bosched.jl.  It takes no lock.      *)

\* mutant: the observations are copied and not cleared.
Updated_Copied(e) == [e EXCEPT !.hist = @ \o e.obs]

\* update_dataset moves the observations to the history.
Updated(e) == [e EXCEPT !.hist = @ \o e.obs, !.obs = <<>>]

\* Truncating every row to the shortest one leaves no data if one is empty.
Tunable(e) == Updated(e).hist # <<>> /\ ~HasHole(Updated(e).hist)

\* mutant: the loop stays in its warm-up.
Tuned_StillWarm(e) == [Updated(e) EXCEPT !.tuned = TRUE]

Tuned(e) == [Updated(e) EXCEPT !.warm = FALSE, !.tuned = TRUE]

MayTune ==
  /\ tuner.pc = "off"
  /\ tunings < MaxTunings
  /\ file.kind # "absent"
  /\ Serial => Idle

TuneRead ==
  /\ MayTune
  /\ file.kind = "whole" /\ DOMAIN file.loops # {}
  /\ \A l \in DOMAIN file.loops : Tunable(file.loops[l])
  /\ tuner' = [pc |-> "tuning",
               loops |-> [l \in DOMAIN file.loops |-> Tuned(file.loops[l])]]
  /\ tunings' = tunings + 1
  /\ UNCHANGED <<file, lock, procvars, runs, history>>

\* An error in any loop ends the script before it writes.
TuneFails ==
  /\ MayTune
  /\ \/ file.kind = "torn" \/ DOMAIN file.loops = {}
     \/ \E l \in DOMAIN file.loops : ~Tunable(file.loops[l])
  /\ tunings' = tunings + 1
  /\ UNCHANGED <<file, lock, procvars, tuner, runs, history>>

TuneTruncate ==
  /\ tuner.pc = "tuning"
  /\ file' = Torn
  /\ tuner' = [tuner EXCEPT !.pc = "writing"]
  /\ UNCHANGED <<lock, procvars, runs, tunings, history>>

TuneWrite ==
  /\ tuner.pc = "writing"
  /\ file' = Whole(tuner.loops)
  /\ tuned' = DOMAIN tuner.loops
  /\ tuner' = [pc |-> "off", loops |-> NoLoops]
  /\ UNCHANGED <<lock, procvars, runs, tunings, total, failed>>

TuneCrash ==
  /\ Crashes
  /\ tuner.pc # "off"
  /\ tuner' = [pc |-> "off", loops |-> NoLoops]
  /\ UNCHANGED <<file, lock, procvars, runs, tunings, history>>

-----------------------------------------------------------------------------
Step(p) ==
  \/ Start(p) \/ StartFails(p)
  \/ \E l \in Loops, n \in {"zero", "real"} : Execute(p, l, n)
  \/ Exit(p) \/ Lock(p) \/ LockBusy(p) \/ Truncate(p) \/ Write(p) \/ Unlock(p)

Tune == TuneRead \/ TuneFails \/ TuneTruncate \/ TuneWrite

\* Nothing more is started: the bounds are reached.
Finished ==
  /\ Idle /\ runs = MaxRuns
  /\ UNCHANGED vars

Next ==
  \/ \E p \in Procs : Step(p) \/ Crash(p)
  \/ Tune \/ TuneCrash
  \/ Finished

Spec == Init /\ [][Next]_vars
-----------------------------------------------------------------------------
(* Properties.                                                             *)

FileLoop == [warm : BOOLEAN, tuned : BOOLEAN, obs : Rows, hist : Rows]
MemLoop ==
  [warm : BOOLEAN, tuned : BOOLEAN, obs : Rows, hist : Rows,
   N : {"zero", "real", "indet"}, ran : BOOLEAN,
   param : {"zero", "draw", "tuned", "best", "indet"},
   eval : {"zero", "best", "indet"}]

\* ls maps some of the loops into S.
LoopsOver(ls, S) == DOMAIN ls \subseteq Loops /\ \A l \in DOMAIN ls : ls[l] \in S

\* Every variable holds values of its type; only loops of the target are stored.
TypeOK ==
  /\ file.kind \in {"absent", "torn", "whole"} /\ LoopsOver(file.loops, FileLoop)
  /\ lock \in BOOLEAN
  /\ pc \in [Procs -> Stages]
  /\ env \in [Procs -> Environments]
  /\ fresh \in [Procs -> BOOLEAN]
  /\ \A p \in Procs : LoopsOver(mem[p], MemLoop)
  /\ tuner.pc \in {"off", "tuning", "writing"} /\ LoopsOver(tuner.loops, FileLoop)
  /\ runs \in 0 .. MaxRuns /\ tunings \in 0 .. MaxTunings
  /\ total \in [Loops -> 0 .. MaxRuns]
  /\ tuned \subseteq Loops
  /\ failed \in BOOLEAN

Recorded(l) == IF l \in DOMAIN file.loops THEN Count(file.loops[l]) ELSE 0

(***************************************************************************)
(* README.md: the state file contains all the state of BO FSS.  Whenever   *)
(* nothing is under way, the file holds one row of observations for every  *)
(* execution of every loop that ended normally.                            *)
(***************************************************************************)
RunsAreRecorded == Idle => \A l \in Loops : Recorded(l) = total[l]

(***************************************************************************)
(* Between executions the file can be read by the next execution and by    *)
(* the tuner: no key, row or last element that they access is missing.     *)
(***************************************************************************)
FileStaysUsable ==
  (Idle /\ file.kind # "absent") =>
     /\ file.kind = "whole" /\ DOMAIN file.loops # {}
     /\ \A l \in DOMAIN file.loops :
          /\ Readable(file.loops[l])
          /\ ~Risky(file.loops[l])
          /\ Tunable(file.loops[l])

(***************************************************************************)
(* README.md: executing the target after the tuner automatically uses the  *)
(* results, however many executions lie in between.                        *)
(***************************************************************************)
ResultsAreUsed ==
  \A p \in Procs : \A l \in Ran(p) \cap tuned :
     mem[p][l].param = IF env[p] = "eval" THEN "best" ELSE "tuned"

(***************************************************************************)
(* However executions, tunings and crashes overlap, bo_save_data writes    *)
(* the file from one process at a time.                                    *)
(***************************************************************************)
WritersExclude ==
  \A p, q \in Procs :
     (pc[p] \in {"locked", "writing", "written"} /\ pc[q] \in {"locked", "writing", "written"})
        => p = q

(***************************************************************************)
(* Stale memory is written back, but no row is ever stored twice: the file *)
(* never holds more rows of a loop than executions that observed it.       *)
(***************************************************************************)
NoInventedRows == \A l \in Loops : Recorded(l) <= total[l]

(***************************************************************************)
(* Until the tuner is first started, an incomplete file is always          *)
(* accompanied by the lock file, also after crashes: bo_save_data leaves   *)
(* its damage detectable.  The tuner takes no lock and does not.           *)
(***************************************************************************)
TornFileIsLocked == (tunings = 0 /\ file.kind = "torn") => lock

(***************************************************************************)
(* README.md: the target is executed multiple times, and again after the   *)
(* tuner; so it must get through bo_load_data.                             *)
(***************************************************************************)
EveryRunStarts == ~failed

(***************************************************************************)
(* README.md: EVAL uses the best parameter found so far.  A loop that is   *)
(* executed with EVAL never gets an uninitialised parameter.               *)
(***************************************************************************)
EvalUsesBest ==
  \A p \in Procs : env[p] = "eval" => \A l \in Ran(p) : mem[p][l].param # "indet"
=============================================================================
