---------------------------- MODULE WorkflowProofs ----------------------------
(***************************************************************************)
(* Proofs about BoState for the workflow of README.md: executions and      *)
(* tunings follow one another, nothing is killed, the BO schedule is       *)
(* selected in every execution, and every execution reaches every loop and *)
(* finds iterations there.                                                 *)
(***************************************************************************)
EXTENDS BoState, FiniteSetTheorems, SequenceTheorems, TLAPS

\* The workflow, as a condition on the constants of BoState.
Workflow == Serial /\ EveryLoop /\ ~Empty /\ ~Crashes /\ Envs \subseteq {"bo", "eval"}

\* Rows without a hole.
Solid == Seq({"row"})

Stored == [warm : BOOLEAN, tuned : BOOLEAN, obs : Solid, hist : Solid]
InUse ==
  [warm : BOOLEAN, tuned : BOOLEAN, obs : Solid, hist : Solid,
   N : {"zero", "real", "indet"}, ran : BOOLEAN,
   param : {"zero", "draw", "tuned", "best", "indet"},
   eval : {"zero", "best", "indet"}]

RowsOf(e) == Len(e.obs) + Len(e.hist)

(***************************************************************************)
(* What is written: no loop is missing, and the next execution finds the   *)
(* last row of a loop in warm-up and the keys of any other one.            *)
(***************************************************************************)
Sound(ls) ==
  /\ Loops # {} /\ DOMAIN ls = Loops
  /\ \A l \in Loops :
       /\ ls[l] \in Stored
       /\ ls[l].warm => ls[l].obs # <<>>
       /\ ls[l].warm \/ ls[l].tuned
       /\ ls[l].obs # <<>> \/ ls[l].hist # <<>>

\* What the file says about the loops of the last tuning.
KeepsTuned(ls) == \A l \in Loops \cap tuned : ls[l].tuned /\ ~ls[l].warm

FileOK ==
  \/ file = Absent /\ tuned = {}
  \/ file = Torn
  \/ file = Whole(file.loops) /\ Sound(file.loops) /\ KeepsTuned(file.loops)

\* The stages of an execution that has something to save.
Saving == {"saving", "locked", "writing"}

\* What an execution holds about a loop: n is the number of rows it was read with.
Held(p, l, n) ==
  LET m == mem[p][l] IN
  /\ m \in InUse
  /\ m.ran => m.N = "real"
  /\ m.warm \/ m.tuned
  /\ RowsOf(m) = n
  /\ l \in tuned =>
       /\ m.tuned /\ ~m.warm
       /\ m.eval = "best"
       /\ m.param = IF m.ran /\ env[p] = "eval" THEN "best" ELSE "tuned"

MemOK(p) ==
  /\ pc[p] \in {"off", "written"} => mem[p] = NoLoops
  /\ pc[p] = "run" =>
       /\ DOMAIN mem[p] \subseteq Loops
       /\ IF fresh[p] THEN file = Absent
                      ELSE file.kind = "whole" /\ DOMAIN mem[p] = Loops
       /\ \A l \in DOMAIN mem[p] : Held(p, l, total[l])
  /\ pc[p] \in Saving =>
       /\ Loops # {} /\ DOMAIN mem[p] = Loops
       /\ \A l \in Loops : Held(p, l, total[l] - 1) /\ mem[p][l].ran

TunerOK ==
  /\ tuner = [pc |-> tuner.pc, loops |-> tuner.loops]
  /\ tuner.pc \in {"off", "tuning", "writing"}
  /\ tuner.pc # "off" =>
       /\ Sound(tuner.loops)
       /\ \A l \in Loops :
            /\ tuner.loops[l].tuned /\ ~tuner.loops[l].warm
            /\ RowsOf(tuner.loops[l]) = total[l]

\* One at a time; a torn file and the lock file have an owner.
Owners ==
  /\ \A p, q \in Procs : pc[p] # "off" /\ pc[q] # "off" => p = q
  /\ tuner.pc # "off" => \A p \in Procs : pc[p] = "off"
  /\ file = Torn => tuner.pc = "writing" \/ \E p \in Procs : pc[p] = "writing"
  /\ lock = TRUE => \E p \in Procs : pc[p] \in {"locked", "writing", "written"}

\* While no execution has rows to add, the file has all of them.
Counted ==
  (\A p \in Procs : pc[p] \notin Saving) =>
    \A l \in Loops :
      /\ file = Absent => total[l] = 0
      /\ file.kind = "whole" => RowsOf(file.loops[l]) = total[l]

Types ==
  /\ pc \in [Procs -> Stages]
  /\ env \in [Procs -> {"bo", "eval"}]
  /\ fresh \in [Procs -> BOOLEAN]
  /\ mem = [p \in Procs |-> mem[p]]
  /\ total \in [Loops -> Nat]

WInv ==
  /\ Types /\ FileOK /\ TunerOK /\ Owners /\ Counted
  /\ \A p \in Procs : MemOK(p)
  /\ failed = FALSE

-----------------------------------------------------------------------------
\* Moving rows to the history and adding one keep a list without holes.
LEMMA SolidRows ==
  /\ <<>> \in Solid /\ Len(<<>>) = 0
  /\ \A a, b \in Solid :
       /\ a \o b \in Solid /\ Len(a \o b) = Len(a) + Len(b)
       /\ Append(a, "row") \in Solid /\ Len(Append(a, "row")) = Len(a) + 1
       /\ Append(a, "row") # <<>>
       /\ Len(a) \in Nat
       /\ a \o b = <<>> => a = <<>> /\ b = <<>>
  BY SMTT(20) DEF Solid

\* A list without holes has no hole, and as many rows as it is long.
LEMMA SolidCount ==
  ASSUME NEW a \in Solid
  PROVE  ~HasHole(a) /\ Cardinality(RowsIn(a)) = Len(a)
<1>1. Len(a) \in Nat /\ DOMAIN a = 1 .. Len(a) /\ \A i \in DOMAIN a : a[i] = "row"
  BY DEF Solid
<1>2. RowsIn(a) = 1 .. Len(a)
  BY <1>1 DEF RowsIn
<1>3. Cardinality(1 .. Len(a)) = Len(a)
  BY <1>1, FS_Interval, SMTT(20)
<1> QED
  BY <1>1, <1>2, <1>3 DEF HasHole

\* What is written can be read and tuned.
LEMMA SoundIsUsable ==
  ASSUME NEW ls, Sound(ls), NEW l \in Loops
  PROVE  /\ Readable(ls[l]) /\ ~Risky(ls[l]) /\ Tunable(ls[l])
         /\ Count(ls[l]) = RowsOf(ls[l])
<1> DEFINE e == ls[l]
<1>1. /\ e \in Stored /\ e.obs \in Solid /\ e.hist \in Solid
      /\ e.warm => e.obs # <<>>
      /\ e.warm \/ e.tuned
      /\ e.obs # <<>> \/ e.hist # <<>>
  BY DEF Sound, Stored
<1>2. ~Risky(e)
  <2>1. e.obs # <<>> => e.obs[Len(e.obs)] = "row"
    BY <1>1 DEF Solid
  <2> QED
    BY <1>1, <2>1 DEF Risky
<1>3. Tunable(e)
  <2>1. Updated(e).hist = e.hist \o e.obs
    BY <1>1 DEF Updated, Stored
  <2>2. e.hist \o e.obs \in Solid /\ e.hist \o e.obs # <<>>
    BY <1>1, SolidRows
  <2> QED
    BY <2>1, <2>2, SolidCount DEF Tunable
<1>4. Readable(e)
  BY <1>1 DEF Readable
<1>5. Count(e) = RowsOf(e)
  BY <1>1, SolidCount DEF Count, RowsOf
<1> QED
  BY <1>2, <1>3, <1>4, <1>5

\* Only one execution is under way.
LEMMA Alone ==
  ASSUME WInv, NEW p \in Procs, pc[p] # "off"
  PROVE  /\ tuner.pc = "off"
         /\ \A q \in Procs : q # p => pc[q] = "off" /\ mem[q] = NoLoops
  BY DEF WInv, Owners, MemOK, TunerOK

(***************************************************************************)
(* When nothing is under way, the file is absent or whole and has all      *)
(* rows, and the lock is free.                                             *)
(***************************************************************************)
LEMMA Resting ==
  ASSUME WInv, Idle
  PROVE  /\ \A p \in Procs : pc[p] = "off" /\ mem[p] = NoLoops
         /\ tuner.pc = "off" /\ lock # TRUE /\ file # Torn
         /\ \/ file = Absent /\ tuned = {} /\ \A l \in Loops : total[l] = 0
            \/ /\ file = Whole(file.loops) /\ file.kind = "whole"
               /\ Sound(file.loops) /\ KeepsTuned(file.loops)
               /\ \A l \in Loops : RowsOf(file.loops[l]) = total[l]
<1>1. tuner.pc = "off" /\ \A p \in Procs : pc[p] = "off"
  BY DEF Idle
<1>2. file # Torn /\ lock # TRUE
  BY <1>1 DEF WInv, Owners
<1>3. \A p \in Procs : pc[p] \notin Saving /\ mem[p] = NoLoops
  BY <1>1 DEF Saving, WInv, MemOK
<1>4. file.kind = "whole" => \A l \in Loops : RowsOf(file.loops[l]) = total[l]
  BY <1>3 DEF WInv, Counted
<1>5. file = Absent => \A l \in Loops : total[l] = 0
  BY <1>3 DEF WInv, Counted
<1>6. file = Whole(file.loops) => file.kind = "whole"
  BY DEF Whole
<1> QED
  BY <1>1, <1>2, <1>3, <1>4, <1>5, <1>6 DEF WInv, FileOK

\* The invariant implies what the runs check.
LEMMA InvariantSuffices ==
  ASSUME WInv
  PROVE  RunsAreRecorded /\ FileStaysUsable /\ ResultsAreUsed /\ EveryRunStarts
<1>1. ASSUME Idle PROVE \A l \in Loops : Recorded(l) = total[l]
  <2>1. CASE file = Absent
    <3>1. DOMAIN file.loops = {}
      BY <2>1 DEF Absent, NoLoops
    <3>2. \A l \in Loops : total[l] = 0
      BY <1>1, <2>1, Resting DEF Absent, Whole
    <3> QED
      BY <3>1, <3>2 DEF Recorded
  <2>2. CASE file # Absent
    <3>1. Sound(file.loops) /\ \A l \in Loops : RowsOf(file.loops[l]) = total[l]
      BY <1>1, <2>2, Resting
    <3>2. DOMAIN file.loops = Loops
      BY <3>1 DEF Sound
    <3> QED
      BY <3>1, <3>2, SoundIsUsable DEF Recorded
  <2> QED
    BY <2>1, <2>2
<1>2. ASSUME Idle, file.kind # "absent"
      PROVE  /\ file.kind = "whole" /\ DOMAIN file.loops # {}
             /\ \A l \in DOMAIN file.loops : /\ Readable(file.loops[l])
                                             /\ ~Risky(file.loops[l])
                                             /\ Tunable(file.loops[l])
  <2>1. file.kind = "whole" /\ Sound(file.loops)
    BY <1>2, Resting DEF Absent
  <2>2. DOMAIN file.loops = Loops /\ Loops # {}
    BY <2>1 DEF Sound
  <2> QED
    BY <2>1, <2>2, SoundIsUsable
<1>3. ASSUME NEW p \in Procs, NEW l \in Ran(p) \cap tuned
      PROVE  mem[p][l].param = IF env[p] = "eval" THEN "best" ELSE "tuned"
  <2>1. l \in DOMAIN mem[p] /\ mem[p][l].ran
    BY DEF Ran
  <2>2. pc[p] # "off" /\ pc[p] # "written"
    BY <2>1 DEF WInv, MemOK, NoLoops
  <2>3. pc[p] = "run" \/ pc[p] \in Saving
    BY <2>2 DEF WInv, Types, Stages, Saving
  <2>4. \E n : Held(p, l, n)
    BY <2>1, <2>3 DEF WInv, MemOK
  <2> QED
    BY <2>1, <2>4 DEF Held
<1>4. failed = FALSE
  BY DEF WInv
<1> QED
  BY <1>1, <1>2, <1>3, <1>4
     DEF RunsAreRecorded, FileStaysUsable, ResultsAreUsed, EveryRunStarts

-----------------------------------------------------------------------------
\* The invariant holds before the first execution.
LEMMA InvariantInit == Init => WInv
<1> SUFFICES ASSUME Init PROVE WInv
  OBVIOUS
<1>1. Types
  BY DEF Init, Types, Stages
<1>2. FileOK /\ TunerOK /\ Owners
  BY DEF Init, FileOK, TunerOK, Owners, Absent, Torn
<1>3. Counted
  BY DEF Init, Counted, Absent
<1>4. \A p \in Procs : MemOK(p)
  BY DEF Init, MemOK, Saving
<1> QED
  BY <1>1, <1>2, <1>3, <1>4 DEF Init, WInv

\* A step of the only execution that is under way, or starts.
LEMMA Frame ==
  ASSUME Types, NEW p \in Procs,
         \A q \in Procs : q # p => pc[q] = "off" /\ mem[q] = NoLoops,
         NEW s \in Stages, pc' = [pc EXCEPT ![p] = s],
         NEW m, mem' = [mem EXCEPT ![p] = m]
  PROVE  /\ pc' \in [Procs -> Stages] /\ mem' = [q \in Procs |-> mem'[q]]
         /\ pc'[p] = s /\ mem'[p] = m
         /\ \A q \in Procs : q # p => pc'[q] = "off" /\ MemOK(q)'
         /\ \A q, r \in Procs : pc'[q] # "off" /\ pc'[r] # "off" => q = r
<1>1. pc' \in [Procs -> Stages] /\ pc'[p] = s
  BY DEF Types
<1>2. \A q \in Procs : q # p => pc'[q] = "off"
  BY DEF Types
<1>3. mem' = [q \in Procs |-> mem'[q]] /\ mem'[p] = m
  BY DEF Types
<1>4. \A q \in Procs : q # p => mem'[q] = NoLoops
  BY DEF Types
<1>5. ASSUME NEW q \in Procs, q # p PROVE MemOK(q)'
  BY <1>2, <1>4, <1>5 DEF MemOK, Saving
<1> QED
  BY <1>1, <1>2, <1>3, <1>5

\* The same, for a step that leaves the data of the execution alone.
LEMMA StageStep ==
  ASSUME WInv, NEW p \in Procs, pc[p] # "off",
         NEW s \in Stages, pc' = [pc EXCEPT ![p] = s], mem' = mem, env' = env, fresh' = fresh
  PROVE  /\ total' \in [Loops -> Nat] => Types'
         /\ pc'[p] = s /\ mem'[p] = mem[p]
         /\ \A q \in Procs : q # p => pc'[q] = "off" /\ MemOK(q)'
         /\ \A q, r \in Procs : pc'[q] # "off" /\ pc'[r] # "off" => q = r
<1>1. Types /\ mem' = [mem EXCEPT ![p] = mem[p]]
  BY DEF WInv, Types
<1>2. \A q \in Procs : q # p => pc[q] = "off" /\ mem[q] = NoLoops
  BY Alone
<1>3. /\ pc' \in [Procs -> Stages] /\ mem' = [q \in Procs |-> mem'[q]]
      /\ pc'[p] = s /\ mem'[p] = mem[p]
      /\ \A q \in Procs : q # p => pc'[q] = "off" /\ MemOK(q)'
      /\ \A q, r \in Procs : pc'[q] # "off" /\ pc'[r] # "off" => q = r
  BY <1>1, <1>2, Frame
<1>4. total' \in [Loops -> Nat] => Types'
  BY <1>1, <1>3 DEF Types
<1> QED
  BY <1>3, <1>4

\* And for a step that forgets them.
LEMMA EndStep ==
  ASSUME WInv, NEW p \in Procs, pc[p] # "off",
         NEW s \in {"off", "written"}, pc' = [pc EXCEPT ![p] = s],
         mem' = [mem EXCEPT ![p] = NoLoops],
         env' = env, fresh' = fresh, total' = total
  PROVE  /\ Types'
         /\ pc'[p] = s
         /\ \A q \in Procs : MemOK(q)'
         /\ \A q \in Procs : q # p => pc'[q] = "off"
         /\ \A q, r \in Procs : pc'[q] # "off" /\ pc'[r] # "off" => q = r
<1>1. Types /\ s \in Stages
  BY DEF WInv, Stages
<1>2. \A q \in Procs : q # p => pc[q] = "off" /\ mem[q] = NoLoops
  BY Alone
<1>3. /\ pc' \in [Procs -> Stages] /\ mem' = [q \in Procs |-> mem'[q]]
      /\ pc'[p] = s /\ mem'[p] = NoLoops
      /\ \A q \in Procs : q # p => pc'[q] = "off" /\ MemOK(q)'
      /\ \A q, r \in Procs : pc'[q] # "off" /\ pc'[r] # "off" => q = r
  BY <1>1, <1>2, Frame
<1>4. MemOK(p)'
  BY <1>3 DEF MemOK, Saving
<1>5. Types'
  BY <1>1, <1>3 DEF Types
<1> QED
  BY <1>3, <1>4, <1>5

\* An execution that is not saving leaves a whole file or none, and no lock.
LEMMA Quiet ==
  ASSUME WInv, NEW p \in Procs, pc[p] \in {"run", "saving"}
  PROVE  file # Torn /\ lock # TRUE
BY Alone DEF WInv, Owners

-----------------------------------------------------------------------------
(* One lemma per action, in the order of BoState.                          *)

\* What an execution makes of a loop in the file.
LEMMA LoadedLoop ==
  ASSUME NEW e \in Stored
  PROVE  /\ Loaded(e) \in InUse /\ ~Loaded(e).ran /\ RowsOf(Loaded(e)) = RowsOf(e)
         /\ Loaded(e).warm = e.warm /\ Loaded(e).tuned = e.tuned
         /\ ~e.warm => Loaded(e).eval = "best" /\ Loaded(e).param = "tuned"
<1>1. /\ e.warm \in BOOLEAN /\ e.tuned \in BOOLEAN /\ e.obs \in Solid /\ e.hist \in Solid
  BY DEF Stored
<1> QED
  BY <1>1 DEF Loaded, InUse, RowsOf

LEMMA StartKeeps ==
  ASSUME Workflow, WInv, NEW p \in Procs, Start(p)
  PROVE  WInv'
<1> DEFINE m == [l \in DOMAIN file.loops |-> Loaded(file.loops[l])]
<1>0. Idle /\ pc[p] = "off"
  BY DEF Workflow, Start, MayStart
<1>1. Types /\ \A q \in Procs : pc[q] = "off" /\ mem[q] = NoLoops
  BY <1>0, Resting DEF WInv
<1>2. /\ pc' \in [Procs -> Stages] /\ mem' = [q \in Procs |-> mem'[q]]
      /\ pc'[p] = "run" /\ mem'[p] = m
      /\ \A q \in Procs : q # p => pc'[q] = "off" /\ MemOK(q)'
      /\ \A q, r \in Procs : pc'[q] # "off" /\ pc'[r] # "off" => q = r
  BY <1>1, Frame DEF Start, Stages
<1>3. /\ file' = file /\ lock' = lock /\ tuner' = tuner /\ total' = total
      /\ tuned' = tuned /\ failed' = failed
  BY DEF Start, history
<1>4. Types' /\ fresh'[p] = (file.kind = "absent")
  <2>1. PICK e \in Envs : env' = [env EXCEPT ![p] = e]
    BY DEF Start
  <2>2. env' \in [Procs -> {"bo", "eval"}]
    BY <1>1, <2>1 DEF Workflow, Types
  <2>3. fresh' \in [Procs -> BOOLEAN] /\ fresh'[p] = (file.kind = "absent")
    BY <1>1 DEF Start, Types
  <2> QED
    BY <1>1, <1>2, <1>3, <2>2, <2>3 DEF Types
<1>5. MemOK(p)'
  <2>1. CASE file = Absent
    <3>1. DOMAIN m = {} /\ fresh'[p] = TRUE
      BY <1>4, <2>1 DEF Absent, NoLoops
    <3> QED
      BY <1>2, <1>3, <2>1, <3>1 DEF MemOK, Saving
  <2>2. CASE file # Absent
    <3>1. /\ file.kind = "whole" /\ Sound(file.loops) /\ KeepsTuned(file.loops)
          /\ \A l \in Loops : RowsOf(file.loops[l]) = total[l]
      BY <1>0, <2>2, Resting
    <3>2. DOMAIN m = Loops /\ fresh'[p] = FALSE
      BY <1>4, <3>1 DEF Sound
    <3>3. ASSUME NEW l \in Loops PROVE Held(p, l, total[l])'
      <4>1. file.loops[l] \in Stored /\ (file.loops[l].warm \/ file.loops[l].tuned)
        BY <3>1 DEF Sound
      <4>2. l \in tuned => file.loops[l].tuned /\ ~file.loops[l].warm
        BY <3>1 DEF KeepsTuned
      <4>3. mem'[p][l] = Loaded(file.loops[l])
        BY <1>2, <3>2
      <4> QED
        BY <1>3, <3>1, <4>1, <4>2, <4>3, LoadedLoop DEF Held
    <3> QED
      BY <1>2, <1>3, <3>1, <3>2, <3>3 DEF MemOK, Saving
  <2> QED
    BY <2>1, <2>2
<1>6. Owners'
  <2>1. file # Torn /\ lock # TRUE /\ tuner.pc = "off"
    BY <1>0, Resting
  <2> QED
    BY <1>2, <1>3, <2>1 DEF Owners
<1>7. Counted'
  <2>1. \A q \in Procs : pc[q] \notin Saving
    BY <1>1 DEF Saving
  <2> QED
    BY <1>3, <2>1 DEF WInv, Counted
<1>8. FileOK' /\ TunerOK'
  BY <1>3 DEF WInv, FileOK, TunerOK, KeepsTuned, Sound
<1> QED
  BY <1>2, <1>3, <1>4, <1>5, <1>6, <1>7, <1>8 DEF WInv

\* No execution dies while it loads the file.
LEMMA NoStartFails ==
  ASSUME Workflow, WInv, NEW p \in Procs
  PROVE  ~StartFails(p)
<1> SUFFICES ASSUME StartFails(p) PROVE FALSE
  OBVIOUS
<1>1. Idle
  BY DEF Workflow, StartFails, MayStart
<1>2. CASE file = Absent
  BY <1>2 DEF StartFails, Absent, NoLoops
<1>3. CASE file # Absent
  <2>1. file.kind = "whole" /\ Sound(file.loops)
    BY <1>1, <1>3, Resting
  <2>2. \A l \in DOMAIN file.loops : Readable(file.loops[l]) /\ ~Risky(file.loops[l])
    BY <2>1, SoundIsUsable DEF Sound
  <2> QED
    BY <2>1, <2>2 DEF StartFails
<1> QED
  BY <1>2, <1>3

\* Before the first file nothing has been tuned.
LEMMA NoFileNotTuned == ASSUME WInv, file = Absent PROVE tuned = {}
<1>1. file.kind = "absent"
  BY DEF Absent
<1>2. file # Torn /\ file # Whole(file.loops)
  BY <1>1 DEF Torn, Whole
<1> QED
  BY <1>2 DEF WInv, FileOK

\* What bo_schedule_parameter, _begin and _end make of a loop.
LEMMA ExecutedLoop ==
  ASSUME NEW p \in Procs, env[p] \in {"bo", "eval"}, fresh[p] \in BOOLEAN, NEW e \in InUse
  PROVE  /\ Executed(p, e, "real") \in InUse /\ RowsOf(Executed(p, e, "real")) = RowsOf(e)
         /\ Executed(p, e, "real").ran /\ Executed(p, e, "real").N = "real"
         /\ Executed(p, e, "real").warm = (e.warm \/ fresh[p])
         /\ Executed(p, e, "real").tuned = e.tuned
         /\ Executed(p, e, "real").eval = e.eval
         /\ Executed(p, e, "real").param = IF env[p] = "eval" THEN e.eval ELSE e.param
<1>1. Executed(p, e, "real") = [e EXCEPT !.warm  = @ \/ fresh[p],
                                 !.param = IF env[p] = "eval" THEN e.eval ELSE @,
                                 !.N     = "real",
                                 !.ran   = TRUE]
  BY DEF Executed
<1>2. (e.warm \/ fresh[p]) \in BOOLEAN
  BY DEF InUse
<1> QED
  BY <1>1, <1>2 DEF InUse, RowsOf

LEMMA ExecuteKeeps ==
  ASSUME Workflow, WInv, NEW p \in Procs, NEW l \in Loops, NEW n \in {"zero", "real"},
         Execute(p, l, n)
  PROVE  WInv'
<1> DEFINE e == IF l \in DOMAIN mem[p] THEN mem[p][l] ELSE NewLoop
           m == [k \in DOMAIN mem[p] \cup {l} |->
                   IF k = l THEN Executed(p, e, "real") ELSE mem[p][k]]
<1>0. pc[p] = "run" /\ mem' = [mem EXCEPT ![p] = m]
  <2>1. n = "real"
    BY DEF Execute, Workflow
  <2> QED
    BY <2>1 DEF Execute
<1>1. /\ pc' = pc /\ env' = env /\ fresh' = fresh /\ file' = file /\ lock' = lock
      /\ tuner' = tuner /\ total' = total /\ tuned' = tuned /\ failed' = failed
  BY DEF Execute, history
<1>2. /\ Types /\ pc' = [pc EXCEPT ![p] = "run"] /\ "run" \in Stages
      /\ \A q \in Procs : q # p => pc[q] = "off" /\ mem[q] = NoLoops
  BY <1>0, <1>1, Alone DEF WInv, Types, Stages
<1>3. /\ mem' = [q \in Procs |-> mem'[q]] /\ mem'[p] = m
      /\ \A q \in Procs : q # p => MemOK(q)'
  BY <1>0, <1>2, Frame
<1>4. env[p] \in {"bo", "eval"} /\ fresh[p] \in BOOLEAN
  BY <1>2 DEF Types
<1>5. /\ DOMAIN mem[p] \subseteq Loops
      /\ IF fresh[p] THEN file = Absent
                     ELSE file.kind = "whole" /\ DOMAIN mem[p] = Loops
      /\ \A k \in DOMAIN mem[p] : Held(p, k, total[k])
  BY <1>0 DEF WInv, MemOK
<1>6. l \notin DOMAIN mem[p] => tuned = {} /\ total[l] = 0 /\ fresh[p]
  <2> SUFFICES ASSUME l \notin DOMAIN mem[p]
               PROVE  tuned = {} /\ total[l] = 0 /\ fresh[p]
    OBVIOUS
  <2>1. fresh[p] /\ file = Absent
    BY <1>5
  <2>2. \A q \in Procs : pc[q] \notin Saving
    BY <1>0, <1>2 DEF Saving
  <2>3. total[l] = 0
    BY <2>1, <2>2 DEF WInv, Counted
  <2>5. tuned = {}
    BY <2>1, NoFileNotTuned
  <2> QED
    BY <2>1, <2>3, <2>5
<1>7. NewLoop \in InUse /\ RowsOf(NewLoop) = 0 /\ ~NewLoop.ran
  BY SolidRows DEF NewLoop, InUse, RowsOf
<1>8. e \in InUse /\ RowsOf(e) = total[l] /\ (e.warm \/ e.tuned \/ fresh[p])
  BY <1>5, <1>6, <1>7 DEF Held
<1>9. l \in tuned => e.tuned /\ ~e.warm /\ e.eval = "best" /\ ~fresh[p]
                     /\ (env[p] # "eval" => e.param = "tuned")
  <2> SUFFICES ASSUME l \in tuned
               PROVE  e.tuned /\ ~e.warm /\ e.eval = "best" /\ ~fresh[p]
                      /\ (env[p] # "eval" => e.param = "tuned")
    OBVIOUS
  <2>1. l \in DOMAIN mem[p] /\ Held(p, l, total[l])
    BY <1>5, <1>6
  <2>2. ~fresh[p]
    <3>1. fresh[p] => file = Absent
      BY <1>5
    <3> QED
      BY <3>1, NoFileNotTuned
  <2> QED
    BY <2>1, <2>2 DEF Held
<1>10. ASSUME NEW k \in DOMAIN m PROVE Held(p, k, total[k])'
  <2>1. CASE k = l
    <3> DEFINE x == Executed(p, e, "real")
    <3>1. mem'[p][k] = x
      BY <1>3, <2>1
    <3>2. /\ x \in InUse /\ RowsOf(x) = total[l] /\ x.ran /\ x.N = "real"
          /\ x.warm = (e.warm \/ fresh[p]) /\ x.tuned = e.tuned /\ x.eval = e.eval
          /\ x.param = IF env[p] = "eval" THEN e.eval ELSE e.param
      BY <1>4, <1>8, ExecutedLoop
    <3>3. x.warm \/ x.tuned
      BY <1>8, <3>2
    <3>4. l \in tuned => /\ x.tuned /\ ~x.warm /\ x.eval = "best"
                         /\ x.param = IF x.ran /\ env[p] = "eval" THEN "best" ELSE "tuned"
      BY <1>9, <3>2
    <3> HIDE DEF x
    <3> QED
      BY <1>1, <2>1, <3>1, <3>2, <3>3, <3>4 DEF Held
  <2>2. CASE k # l
    <3>1. k \in DOMAIN mem[p] /\ mem'[p][k] = mem[p][k]
      BY <1>3, <2>2
    <3> QED
      BY <1>1, <1>5, <3>1 DEF Held
  <2> QED
    BY <2>1, <2>2
<1>11. MemOK(p)'
  <2>1. DOMAIN m \subseteq Loops /\ (~fresh[p] => DOMAIN m = Loops)
    BY <1>5
  <2> QED
    BY <1>0, <1>1, <1>3, <1>5, <1>10, <2>1 DEF MemOK, Saving
<1>12. Types' /\ FileOK' /\ TunerOK' /\ Owners' /\ Counted'
  BY <1>1, <1>3 DEF WInv, Types, FileOK, TunerOK, Owners, Counted, Sound, KeepsTuned
<1> QED
  BY <1>1, <1>3, <1>11, <1>12 DEF WInv

LEMMA ExitKeeps ==
  ASSUME Workflow, WInv, NEW p \in Procs, Exit(p)
  PROVE  WInv'
<1>0. /\ pc[p] = "run" /\ file # Torn /\ lock # TRUE /\ tuner.pc = "off"
      /\ \A q \in Procs : q # p => pc[q] = "off"
  BY Quiet, Alone DEF Exit
<1>1. /\ file' = file /\ lock' = lock /\ env' = env /\ fresh' = fresh
      /\ tuner' = tuner /\ tuned' = tuned /\ failed' = failed
  BY DEF Exit
<1>2. DOMAIN mem[p] = Loops /\ (env[p] = "bo" => Ran(p) = Loops)
  BY DEF Exit, Workflow
<1>3. \A q \in Procs : pc[q] \notin Saving
  BY <1>0 DEF Saving
<1>4. CASE env[p] = "eval" \/ DOMAIN mem[p] = {}
  <2>1. /\ pc' = [pc EXCEPT ![p] = "off"] /\ mem' = [mem EXCEPT ![p] = NoLoops]
        /\ total' = total
    BY <1>4 DEF Exit
  <2>2. /\ Types' /\ pc'[p] = "off"
        /\ \A q \in Procs : MemOK(q)' /\ (q # p => pc'[q] = "off")
    BY <1>0, <1>1, <2>1, EndStep
  <2>3. FileOK' /\ TunerOK' /\ Owners' /\ Counted'
    BY <1>0, <1>1, <1>3, <2>1, <2>2
       DEF WInv, FileOK, TunerOK, Owners, Counted, Sound, KeepsTuned
  <2> QED
    BY <1>1, <2>2, <2>3 DEF WInv
<1>5. CASE ~(env[p] = "eval" \/ DOMAIN mem[p] = {})
  <2>1. /\ pc' = [pc EXCEPT ![p] = "saving"] /\ mem' = mem
        /\ total' = [l \in Loops |-> IF l \in Ran(p) THEN total[l] + 1 ELSE total[l]]
    BY <1>5 DEF Exit
  <2>2. Ran(p) = Loops /\ Loops # {} /\ \A l \in Loops : mem[p][l].ran
    <3>1. env[p] = "bo"
      BY <1>5 DEF WInv, Types
    <3> QED
      BY <1>2, <1>5, <3>1 DEF Ran
  <2>3. \A l \in Loops : total[l] \in Nat /\ total'[l] = total[l] + 1
    BY <2>1, <2>2 DEF WInv, Types
  <2>4. total' \in [Loops -> Nat]
    BY <2>1, <2>3
  <2>5. /\ Types' /\ pc'[p] = "saving" /\ mem'[p] = mem[p]
        /\ \A q \in Procs : q # p => pc'[q] = "off" /\ MemOK(q)'
        /\ \A q, r \in Procs : pc'[q] # "off" /\ pc'[r] # "off" => q = r
    BY <1>0, <1>1, <2>1, <2>4, StageStep DEF Stages
  <2>6. ASSUME NEW l \in Loops PROVE Held(p, l, total[l] - 1)'
    <3>1. Held(p, l, total[l])
      BY <1>0, <1>2 DEF WInv, MemOK
    <3>2. total'[l] - 1 = total[l]
      BY <2>3
    <3> QED
      BY <1>1, <2>5, <3>1, <3>2 DEF Held
  <2>7. MemOK(p)'
    BY <1>2, <2>2, <2>5, <2>6 DEF MemOK, Saving
  <2>8. Owners' /\ FileOK'
    BY <1>0, <1>1, <2>5 DEF WInv, FileOK, Owners, Sound, KeepsTuned
  <2>9. Counted' /\ TunerOK'
    BY <1>0, <1>1, <2>5 DEF WInv, Counted, Saving, TunerOK
  <2> QED
    BY <1>1, <2>5, <2>7, <2>8, <2>9 DEF WInv
<1> QED
  BY <1>4, <1>5

\* The lock is free: nobody else is saving.
LEMMA LockKeeps ==
  ASSUME Workflow, WInv, NEW p \in Procs, Lock(p) \/ LockBusy(p)
  PROVE  WInv'
<1>0. /\ pc[p] = "saving" /\ file # Torn /\ lock # TRUE /\ tuner.pc = "off"
      /\ \A q \in Procs : q # p => pc[q] = "off"
  BY Quiet, Alone DEF Lock, LockBusy
<1>1. Lock(p)
  BY <1>0 DEF LockBusy
<1>2. /\ pc' = [pc EXCEPT ![p] = "locked"] /\ lock' = TRUE /\ mem' = mem
      /\ file' = file /\ env' = env /\ fresh' = fresh /\ tuner' = tuner
      /\ total' = total /\ tuned' = tuned /\ failed' = failed
  BY <1>1 DEF Lock, history
<1>3. /\ Types' /\ pc'[p] = "locked" /\ mem'[p] = mem[p]
      /\ \A q \in Procs : q # p => pc'[q] = "off" /\ MemOK(q)'
      /\ \A q, r \in Procs : pc'[q] # "off" /\ pc'[r] # "off" => q = r
  BY <1>0, <1>2, StageStep DEF Stages, WInv, Types
<1>4. MemOK(p)'
  BY <1>0, <1>2, <1>3 DEF WInv, MemOK, Saving, Held
<1>5. FileOK' /\ TunerOK' /\ Owners' /\ Counted'
  BY <1>0, <1>2, <1>3
     DEF WInv, FileOK, TunerOK, Owners, Counted, Sound, KeepsTuned, Saving
<1> QED
  BY <1>2, <1>3, <1>4, <1>5 DEF WInv

LEMMA TruncateKeeps ==
  ASSUME Workflow, WInv, NEW p \in Procs, Truncate(p)
  PROVE  WInv'
<1>0. /\ pc[p] = "locked" /\ tuner.pc = "off"
      /\ \A q \in Procs : q # p => pc[q] = "off"
  BY Alone DEF Truncate
<1>1. /\ pc' = [pc EXCEPT ![p] = "writing"] /\ file' = Torn /\ lock' = lock /\ mem' = mem
      /\ env' = env /\ fresh' = fresh /\ tuner' = tuner
      /\ total' = total /\ tuned' = tuned /\ failed' = failed
  BY DEF Truncate, history
<1>2. /\ Types' /\ pc'[p] = "writing" /\ mem'[p] = mem[p]
      /\ \A q \in Procs : q # p => pc'[q] = "off" /\ MemOK(q)'
      /\ \A q, r \in Procs : pc'[q] # "off" /\ pc'[r] # "off" => q = r
  BY <1>0, <1>1, StageStep DEF Stages, WInv, Types
<1>3. MemOK(p)'
  BY <1>0, <1>1, <1>2 DEF WInv, MemOK, Saving, Held
<1>4. FileOK' /\ TunerOK' /\ Owners' /\ Counted'
  BY <1>0, <1>1, <1>2 DEF WInv, FileOK, TunerOK, Owners, Counted, Saving
<1> QED
  BY <1>1, <1>2, <1>3, <1>4 DEF WInv

\* The row that is added makes good for the execution that ended.
LEMMA SavedLoop ==
  ASSUME NEW e \in InUse, e.ran, e.warm \/ e.tuned
  PROVE  /\ Saved(e) \in Stored /\ Saved(e).obs # <<>>
         /\ Saved(e).warm = e.warm /\ Saved(e).tuned = e.tuned
         /\ RowsOf(Saved(e)) = RowsOf(e) + 1
<1>1. /\ e.obs \in Solid /\ e.hist \in Solid /\ e.warm \in BOOLEAN /\ e.tuned \in BOOLEAN
  BY DEF InUse
<1>2. /\ Saved(e).obs = Append(e.obs, "row") /\ Saved(e).hist = e.hist
      /\ Saved(e).warm = e.warm /\ Saved(e).tuned = e.tuned
      /\ Append(e.obs, "row") \in Solid => Saved(e) \in Stored
  BY <1>1 DEF Saved, Stored
<1>3. /\ Append(e.obs, "row") \in Solid /\ Append(e.obs, "row") # <<>>
      /\ Len(Append(e.obs, "row")) = Len(e.obs) + 1
  BY <1>1, SolidRows
<1>4. Len(e.obs) \in Nat /\ Len(e.hist) \in Nat
  BY <1>1, SolidRows
<1>5. RowsOf(Saved(e)) = RowsOf(e) + 1
  <2> DEFINE o == Len(e.obs)
             h == Len(e.hist)
  <2>1. RowsOf(Saved(e)) = (o + 1) + h /\ RowsOf(e) = o + h /\ o \in Nat /\ h \in Nat
    BY <1>2, <1>3, <1>4 DEF RowsOf
  <2> HIDE DEF o, h
  <2> QED
    BY <2>1
<1> QED
  BY <1>2, <1>3, <1>5

LEMMA WriteKeeps ==
  ASSUME Workflow, WInv, NEW p \in Procs, Write(p)
  PROVE  WInv'
<1> DEFINE ls == [l \in Loops |-> Saved(mem[p][l])]
<1>0. /\ pc[p] = "writing" /\ tuner.pc = "off"
      /\ \A q \in Procs : q # p => pc[q] = "off"
  BY Alone DEF Write
<1>1. /\ Loops # {} /\ DOMAIN mem[p] = Loops
      /\ \A l \in Loops : Held(p, l, total[l] - 1) /\ mem[p][l].ran
  BY <1>0 DEF WInv, MemOK, Saving
<1>2. file' = Whole(ls)
  <2>1. \A l \in DOMAIN mem[p] : mem[p][l].N = "real"
    BY <1>1 DEF Held
  <2> QED
    BY <1>1, <2>1 DEF Write
<1>3. /\ pc' = [pc EXCEPT ![p] = "written"] /\ mem' = [mem EXCEPT ![p] = NoLoops]
      /\ lock' = lock /\ env' = env /\ fresh' = fresh /\ tuner' = tuner
      /\ total' = total /\ tuned' = tuned /\ failed' = failed
  BY DEF Write, history
<1>4. /\ Types' /\ pc'[p] = "written"
      /\ \A q \in Procs : MemOK(q)' /\ (q # p => pc'[q] = "off")
  BY <1>0, <1>3, EndStep
<1>5. ASSUME NEW l \in Loops
      PROVE  /\ ls[l] \in Stored /\ ls[l].obs # <<>> /\ (ls[l].warm \/ ls[l].tuned)
             /\ RowsOf(ls[l]) = total[l]
             /\ l \in tuned => ls[l].tuned /\ ~ls[l].warm
  <2> DEFINE e == mem[p][l]
  <2>1. /\ e \in InUse /\ e.ran /\ (e.warm \/ e.tuned) /\ RowsOf(e) = total[l] - 1
        /\ l \in tuned => e.tuned /\ ~e.warm
    BY <1>1 DEF Held
  <2>2. total[l] \in Nat /\ ls[l] = Saved(e)
    BY DEF WInv, Types
  <2> HIDE DEF e, ls
  <2> QED
    BY <2>1, <2>2, SavedLoop
<1>6. DOMAIN ls = Loops /\ file'.loops = ls /\ file'.kind = "whole"
  BY <1>2 DEF Whole
<1> HIDE DEF ls
<1>7. FileOK'
  BY <1>1, <1>2, <1>3, <1>5, <1>6 DEF FileOK, Sound, KeepsTuned
<1>8. file' # Torn /\ file' # Absent
  BY <1>6 DEF Torn, Absent
<1>9. TunerOK' /\ Owners' /\ Counted'
  BY <1>0, <1>3, <1>4, <1>5, <1>6, <1>8 DEF WInv, TunerOK, Owners, Counted
<1> QED
  BY <1>3, <1>4, <1>7, <1>9 DEF WInv

LEMMA UnlockKeeps ==
  ASSUME Workflow, WInv, NEW p \in Procs, Unlock(p)
  PROVE  WInv'
<1>0. /\ pc[p] = "written" /\ mem[p] = NoLoops /\ tuner.pc = "off"
      /\ \A q \in Procs : q # p => pc[q] = "off"
  BY Alone DEF Unlock, WInv, MemOK
<1>1. /\ pc' = [pc EXCEPT ![p] = "off"] /\ lock' = FALSE /\ mem' = mem
      /\ file' = file /\ env' = env /\ fresh' = fresh /\ tuner' = tuner
      /\ total' = total /\ tuned' = tuned /\ failed' = failed
  BY DEF Unlock, history
<1>2. /\ Types' /\ pc'[p] = "off" /\ mem'[p] = NoLoops
      /\ \A q \in Procs : q # p => pc'[q] = "off" /\ MemOK(q)'
  BY <1>0, <1>1, StageStep DEF Stages, WInv, Types
<1>3. MemOK(p)'
  BY <1>2 DEF MemOK, Saving
<1>4. file # Torn
  BY <1>0 DEF WInv, Owners
<1>5. \A q \in Procs : pc[q] \notin Saving
  BY <1>0 DEF Saving
<1>6. FileOK' /\ TunerOK' /\ Owners' /\ Counted'
  BY <1>0, <1>1, <1>2, <1>4, <1>5
     DEF WInv, FileOK, TunerOK, Owners, Counted, Sound, KeepsTuned
<1> QED
  BY <1>1, <1>2, <1>3, <1>6 DEF WInv

\* A tuned loop has history, no open observations and both parameters.
LEMMA TunedLoop ==
  ASSUME NEW e \in Stored, e.obs # <<>> \/ e.hist # <<>>
  PROVE  /\ Tuned(e) \in Stored /\ Tuned(e).hist # <<>>
         /\ Tuned(e).tuned /\ ~Tuned(e).warm
         /\ RowsOf(Tuned(e)) = RowsOf(e)
<1>1. /\ e.obs \in Solid /\ e.hist \in Solid /\ <<>> \in Solid /\ Len(<<>>) = 0
      /\ e.hist \o e.obs \in Solid /\ e.hist \o e.obs # <<>>
      /\ Len(e.hist \o e.obs) = Len(e.hist) + Len(e.obs)
      /\ Len(e.obs) \in Nat /\ Len(e.hist) \in Nat
  BY SolidRows DEF Stored
<1>2. /\ Tuned(e).obs = <<>> /\ Tuned(e).hist = e.hist \o e.obs
      /\ Tuned(e).warm = FALSE /\ Tuned(e).tuned = TRUE
      /\ Tuned(e) \in Stored
  BY <1>1 DEF Tuned, Updated, Stored
<1>3. RowsOf(Tuned(e)) = Len(<<>>) + Len(e.hist \o e.obs)
  BY <1>2 DEF RowsOf
<1>4. RowsOf(Tuned(e)) = RowsOf(e)
  <2> DEFINE o == Len(e.obs)
             h == Len(e.hist)
  <2>1. RowsOf(Tuned(e)) = 0 + (h + o) /\ RowsOf(e) = o + h /\ o \in Nat /\ h \in Nat
    BY <1>1, <1>3 DEF RowsOf
  <2> HIDE DEF o, h
  <2> QED
    BY <2>1
<1> QED
  BY <1>1, <1>2, <1>4

LEMMA TuneReadKeeps ==
  ASSUME Workflow, WInv, TuneRead
  PROVE  WInv'
<1> DEFINE ls == [l \in DOMAIN file.loops |-> Tuned(file.loops[l])]
<1>0. Idle /\ file.kind = "whole"
  BY DEF Workflow, TuneRead, MayTune
<1>1. /\ Sound(file.loops) /\ \A l \in Loops : RowsOf(file.loops[l]) = total[l]
      /\ \A p \in Procs : pc[p] = "off"
      /\ file # Torn /\ lock # TRUE
  <2>1. file # Absent
    BY <1>0 DEF Absent
  <2> QED
    BY <1>0, <2>1, Resting
<1>2. /\ tuner' = [pc |-> "tuning", loops |-> ls]
      /\ file' = file /\ lock' = lock /\ pc' = pc /\ env' = env /\ fresh' = fresh
      /\ mem' = mem /\ total' = total /\ tuned' = tuned /\ failed' = failed
  BY DEF TuneRead, procvars, history
<1>3. Loops # {} /\ DOMAIN ls = Loops
  BY <1>1 DEF Sound
<1>4. ASSUME NEW l \in Loops
      PROVE  /\ ls[l] \in Stored /\ ls[l].hist # <<>> /\ ls[l].tuned /\ ~ls[l].warm
             /\ RowsOf(ls[l]) = total[l]
  <2>1. ls[l] = Tuned(file.loops[l])
    BY <1>1 DEF Sound
  <2>2. file.loops[l] \in Stored /\ (file.loops[l].obs # <<>> \/ file.loops[l].hist # <<>>)
    BY <1>1 DEF Sound
  <2> HIDE DEF ls
  <2> QED
    BY <1>1, <2>1, <2>2, TunedLoop
<1> HIDE DEF ls
<1>5. TunerOK'
  BY <1>2, <1>3, <1>4 DEF TunerOK, Sound
<1>6. Types' /\ FileOK' /\ Owners' /\ Counted'
  BY <1>1, <1>2 DEF WInv, Types, FileOK, Owners, Counted, Sound, KeepsTuned
<1>7. \A p \in Procs : MemOK(p)'
  BY <1>1, <1>2 DEF WInv, MemOK, Saving
<1> QED
  BY <1>2, <1>5, <1>6, <1>7 DEF WInv

\* The tuner never meets a file it cannot use.
LEMMA NoTuneFails == ASSUME Workflow, WInv PROVE ~TuneFails
<1> SUFFICES ASSUME TuneFails PROVE FALSE
  OBVIOUS
<1>1. Idle /\ file.kind # "absent"
  BY DEF Workflow, TuneFails, MayTune
<1>2. file.kind = "whole" /\ Sound(file.loops)
  BY <1>1, Resting DEF Absent
<1>3. DOMAIN file.loops # {} /\ \A l \in DOMAIN file.loops : Tunable(file.loops[l])
  BY <1>2, SoundIsUsable DEF Sound
<1> QED
  BY <1>2, <1>3 DEF TuneFails

LEMMA TuneTruncateKeeps ==
  ASSUME Workflow, WInv, TuneTruncate
  PROVE  WInv'
<1>0. tuner.pc = "tuning" /\ \A p \in Procs : pc[p] = "off"
  BY DEF TuneTruncate, WInv, Owners
<1>1. /\ tuner' = [tuner EXCEPT !.pc = "writing"] /\ file' = Torn
      /\ lock' = lock /\ pc' = pc /\ env' = env /\ fresh' = fresh
      /\ mem' = mem /\ total' = total /\ tuned' = tuned /\ failed' = failed
  BY DEF TuneTruncate, procvars, history
<1>2. tuner' = [pc |-> "writing", loops |-> tuner.loops]
  BY <1>1 DEF WInv, TunerOK
<1>3. TunerOK'
  BY <1>0, <1>1, <1>2 DEF WInv, TunerOK, Sound
<1>4. Types' /\ FileOK' /\ Owners'
  BY <1>0, <1>1, <1>2 DEF WInv, Types, FileOK, Owners
<1>5. Counted'
  BY <1>1 DEF Counted, Torn, Absent
<1>6. \A p \in Procs : MemOK(p)'
  BY <1>0, <1>1 DEF WInv, MemOK, Saving
<1> QED
  BY <1>1, <1>3, <1>4, <1>5, <1>6 DEF WInv

LEMMA TuneWriteKeeps ==
  ASSUME Workflow, WInv, TuneWrite
  PROVE  WInv'
<1>0. /\ tuner.pc = "writing" /\ \A p \in Procs : pc[p] = "off"
      /\ Sound(tuner.loops)
      /\ \A l \in Loops : /\ tuner.loops[l].tuned /\ ~tuner.loops[l].warm
                          /\ RowsOf(tuner.loops[l]) = total[l]
  BY DEF TuneWrite, WInv, Owners, TunerOK
<1>1. /\ tuner' = [pc |-> "off", loops |-> NoLoops] /\ file' = Whole(tuner.loops)
      /\ lock' = lock /\ pc' = pc /\ env' = env /\ fresh' = fresh
      /\ mem' = mem /\ total' = total /\ failed' = failed
  BY DEF TuneWrite, procvars
<1>2. file'.loops = tuner.loops /\ file'.kind = "whole" /\ file' # Torn /\ file' # Absent
  BY <1>1 DEF Whole, Torn, Absent
<1>3. FileOK' /\ TunerOK'
  BY <1>0, <1>1, <1>2 DEF FileOK, TunerOK, Sound, KeepsTuned
<1>4. Types' /\ Owners' /\ Counted'
  BY <1>0, <1>1, <1>2 DEF WInv, Types, Owners, Counted
<1>5. \A p \in Procs : MemOK(p)'
  BY <1>0, <1>1 DEF WInv, MemOK, Saving
<1> QED
  BY <1>1, <1>3, <1>4, <1>5 DEF WInv

-----------------------------------------------------------------------------
\* Every step of the workflow preserves the invariant.
LEMMA InvariantStep == ASSUME Workflow PROVE WInv /\ [Next]_vars => WInv'
<1> SUFFICES ASSUME WInv, [Next]_vars PROVE WInv'
  OBVIOUS
<1>1. ASSUME NEW p \in Procs, Step(p) PROVE WInv'
  BY <1>1, StartKeeps, NoStartFails, ExecuteKeeps, ExitKeeps, LockKeeps, TruncateKeeps,
     WriteKeeps, UnlockKeeps DEF Step
<1>2. ASSUME NEW p \in Procs, Crash(p) PROVE WInv'
  BY <1>2 DEF Crash, Workflow
<1>3. ASSUME Tune \/ TuneCrash PROVE WInv'
  BY <1>3, TuneReadKeeps, NoTuneFails, TuneTruncateKeeps, TuneWriteKeeps
     DEF Tune, TuneCrash, Workflow
<1>4. CASE UNCHANGED vars
  <2>1. Types' /\ FileOK' /\ TunerOK' /\ Owners' /\ Counted'
    BY <1>4 DEF vars, WInv, Types, FileOK, TunerOK, Owners, Counted, Sound, KeepsTuned
  <2>2. \A p \in Procs : MemOK(p)'
    BY <1>4 DEF vars, WInv, MemOK, Held
  <2> QED
    BY <1>4, <2>1, <2>2 DEF vars, WInv
<1> QED
  BY <1>1, <1>2, <1>3, <1>4 DEF Next, Finished

(***************************************************************************)
(* The workflow of README.md, with any number of loops, executions and     *)
(* tunings, with and without EVAL: every execution gets through            *)
(* bo_load_data, the file can always be read and tuned, it holds one row   *)
(* per execution and loop, and what the tuner found is used.               *)
(***************************************************************************)
THEOREM WorkflowIsSafe ==
  ASSUME Workflow
  PROVE  Spec => [](EveryRunStarts /\ FileStaysUsable /\ RunsAreRecorded /\ ResultsAreUsed)
<1>1. WInv => EveryRunStarts /\ FileStaysUsable /\ RunsAreRecorded /\ ResultsAreUsed
  BY InvariantSuffices
<1>2. Init => WInv
  BY InvariantInit
<1>3. WInv /\ [Next]_vars => WInv'
  BY InvariantStep
<1> QED
  BY <1>1, <1>2, <1>3, PTL DEF Spec
=============================================================================
