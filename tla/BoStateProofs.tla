---------------------------- MODULE BoStateProofs ----------------------------
(***************************************************************************)
(* Proofs about BoState for any number of executions, loops and tunings,   *)
(* however they overlap and wherever they are killed, in whatever          *)
(* environments: who writes the state file, what a killed writer leaves    *)
(* behind, and that no row is ever stored twice.                           *)
(***************************************************************************)
EXTENDS BoState, FiniteSetTheorems, SequenceTheorems, TLAPS

\* The stages between the creation and the removal of the lock file.
WriteStages == {"locked", "writing", "written"}

(***************************************************************************)
(* The inductive invariant: a writing execution implies the lock file, and *)
(* excludes every other one.  The converse does not hold: a crash leaves   *)
(* the lock file behind without a writer.                                  *)
(***************************************************************************)
LockInv ==
  /\ pc \in [Procs -> Stages]
  /\ \A p \in Procs : pc[p] \in WriteStages => lock = TRUE
  /\ \A p, q \in Procs : (pc[p] \in WriteStages /\ pc[q] \in WriteStages) => p = q

\* The actions of an execution that leave the lock file alone.
LEMMA LockInvKept ==
  ASSUME LockInv, NEW p \in Procs, lock' = lock,
         NEW s \in Stages, pc' = [pc EXCEPT ![p] = s],
         s \in WriteStages => pc[p] \in WriteStages
  PROVE  LockInv'
BY DEF LockInv

\* Every step preserves the invariant.
LEMMA LockInvStep == LockInv /\ [Next]_vars => LockInv'
<1> SUFFICES ASSUME LockInv, [Next]_vars PROVE LockInv'
  OBVIOUS
<1> USE DEF procvars, Stages, WriteStages
<1>1. ASSUME NEW p \in Procs, Start(p) PROVE LockInv'
  BY <1>1, LockInvKept DEF Start
<1>2. ASSUME NEW p \in Procs, StartFails(p) PROVE LockInv'
  BY <1>2 DEF StartFails, LockInv
<1>3. ASSUME NEW p \in Procs, NEW l \in Loops, NEW n, Execute(p, l, n) PROVE LockInv'
  BY <1>3 DEF Execute, LockInv
<1>4. ASSUME NEW p \in Procs, Exit(p) PROVE LockInv'
  BY <1>4, LockInvKept DEF Exit
<1>5. ASSUME NEW p \in Procs, Lock(p) PROVE LockInv'
  BY <1>5 DEF Lock, LockInv
<1>6. ASSUME NEW p \in Procs, LockBusy(p) PROVE LockInv'
  BY <1>6, LockInvKept DEF LockBusy
<1>7. ASSUME NEW p \in Procs, Truncate(p) PROVE LockInv'
  BY <1>7, LockInvKept DEF Truncate
<1>8. ASSUME NEW p \in Procs, Write(p) PROVE LockInv'
  BY <1>8, LockInvKept DEF Write
<1>9. ASSUME NEW p \in Procs, Unlock(p) PROVE LockInv'
  BY <1>9 DEF Unlock, LockInv
<1>10. ASSUME NEW p \in Procs, Crash(p) PROVE LockInv'
  BY <1>10, LockInvKept DEF Crash
<1>11. ASSUME Tune \/ TuneCrash PROVE LockInv'
  BY <1>11 DEF Tune, TuneRead, TuneFails, TuneTruncate, TuneWrite, TuneCrash, LockInv
<1>12. CASE UNCHANGED vars
  BY <1>12 DEF vars, LockInv
<1> QED
  BY <1>1, <1>2, <1>3, <1>4, <1>5, <1>6, <1>7, <1>8, <1>9, <1>10, <1>11, <1>12
     DEF Next, Step, Finished

\* Initially no execution is under way.
LEMMA LockInvInit == Init => LockInv
BY DEF Init, LockInv, Stages, WriteStages

(***************************************************************************)
(* However many executions, tunings and crashes overlap, bo_save_data      *)
(* never writes the state file from two processes at once.                 *)
(***************************************************************************)
THEOREM OneWriter == Spec => []WritersExclude
<1>1. LockInv => WritersExclude
  BY DEF LockInv, WritersExclude, WriteStages
<1> QED
  BY <1>1, LockInvInit, LockInvStep, PTL DEF Spec

-----------------------------------------------------------------------------
(***************************************************************************)
(* Before the first tuning, an incomplete file comes with a lock file: the *)
(* file is torn only while its writer holds the lock, and a writer that    *)
(* dies there leaves the lock behind for ever.                             *)
(***************************************************************************)
NotTuned ==
  /\ tuner.pc = "off"
  /\ file.kind = "torn" => lock = TRUE /\ \A p \in Procs : pc[p] # "written"

TornInv ==
  /\ LockInv
  /\ tunings \in Nat
  /\ tunings = 0 => NotTuned

\* Executions do not touch the tuner.
LEMMA TornInvKept ==
  ASSUME TornInv, LockInv', tuner' = tuner, tunings' = tunings,
         NotTuned => NotTuned'
  PROVE  TornInv'
BY DEF TornInv

\* Every step preserves it: a tuning that starts is counted.
LEMMA TornInvStep == TornInv /\ [Next]_vars => TornInv'
<1> SUFFICES ASSUME TornInv, [Next]_vars PROVE TornInv'
  OBVIOUS
<1> USE DEF procvars, Stages, WriteStages
<1>0. LockInv /\ LockInv'
  BY LockInvStep DEF TornInv
<1>1. ASSUME NEW p \in Procs, Start(p) PROVE TornInv'
  BY <1>0, <1>1, TornInvKept DEF Start, MayStart, NotTuned, LockInv
<1>2. ASSUME NEW p \in Procs, StartFails(p) PROVE TornInv'
  BY <1>0, <1>2, TornInvKept DEF StartFails, NotTuned
<1>3. ASSUME NEW p \in Procs, NEW l \in Loops, NEW n, Execute(p, l, n) PROVE TornInv'
  BY <1>0, <1>3, TornInvKept DEF Execute, NotTuned
<1>4. ASSUME NEW p \in Procs, Exit(p) PROVE TornInv'
  BY <1>0, <1>4, TornInvKept DEF Exit, NotTuned, LockInv
<1>5. ASSUME NEW p \in Procs, Lock(p) PROVE TornInv'
  BY <1>0, <1>5, TornInvKept DEF Lock, NotTuned, LockInv
<1>6. ASSUME NEW p \in Procs, LockBusy(p) PROVE TornInv'
  BY <1>0, <1>6, TornInvKept DEF LockBusy, NotTuned, LockInv
<1>7. ASSUME NEW p \in Procs, Truncate(p) PROVE TornInv'
  BY <1>0, <1>7, TornInvKept DEF Truncate, NotTuned, LockInv, Torn
<1>8. ASSUME NEW p \in Procs, Write(p) PROVE TornInv'
  <2>1. file'.kind = "whole"
    BY <1>8 DEF Write, Whole
  <2> QED
    BY <1>0, <1>8, <2>1, TornInvKept DEF Write, NotTuned
<1>9. ASSUME NEW p \in Procs, Unlock(p) PROVE TornInv'
  BY <1>0, <1>9, TornInvKept DEF Unlock, NotTuned
<1>10. ASSUME NEW p \in Procs, Crash(p) PROVE TornInv'
  BY <1>0, <1>10, TornInvKept DEF Crash, NotTuned, LockInv
<1>11. ASSUME Tune \/ TuneCrash PROVE TornInv'
  <2>1. CASE TuneRead \/ TuneFails
    BY <1>0, <2>1 DEF TuneRead, TuneFails, TornInv
  <2>2. CASE TuneTruncate \/ TuneWrite \/ TuneCrash
    BY <1>0, <2>2 DEF TuneTruncate, TuneWrite, TuneCrash, TornInv, NotTuned
  <2> QED
    BY <1>11, <2>1, <2>2 DEF Tune
<1>12. CASE UNCHANGED vars
  BY <1>0, <1>12 DEF vars, TornInv, NotTuned
<1> QED
  BY <1>1, <1>2, <1>3, <1>4, <1>5, <1>6, <1>7, <1>8, <1>9, <1>10, <1>11, <1>12
     DEF Next, Step, Finished

(***************************************************************************)
(* A process that is killed inside bo_save_data leaves at most a file that *)
(* the lock file gives away; as long as no tuning has been started, no     *)
(* torn file is unmarked.                                                  *)
(***************************************************************************)
THEOREM TornFilesAreMarked == Spec => []TornFileIsLocked
<1>1. Init => TornInv
  BY LockInvInit DEF Init, TornInv, NotTuned, Absent
<1>2. TornInv => TornFileIsLocked
  BY DEF TornInv, NotTuned, TornFileIsLocked
<1> QED
  BY <1>1, <1>2, TornInvStep, PTL DEF Spec

-----------------------------------------------------------------------------
(* The rows of the file: none is stored twice, although stale memory is    *)
(* written back and loops are missed or have no iterations.                *)

\* The stages of an execution that has something to save.
Saving == {"saving", "locked", "writing"}

\* How many of a list's rows are not holes.
Full(rows) == Cardinality(RowsIn(rows))

\* A collection of loops with no more rows of any than were observed.
Bounded(ls, S) ==
  /\ DOMAIN ls \subseteq Loops
  /\ \A l \in DOMAIN ls : ls[l] \in S /\ Count(ls[l]) <= total[l]

(***************************************************************************)
(* The inductive invariant.  Nowhere (in the file, in the memory of an     *)
(* execution, however old, in the tuner) are there more rows of a loop     *)
(* than were observed; and before an execution saves, what it has observed *)
(* itself is counted in total but not yet in its memory.                   *)
(***************************************************************************)
RowInv ==
  /\ pc \in [Procs -> Stages]
  /\ env \in [Procs -> Environments]
  /\ fresh \in [Procs -> BOOLEAN]
  /\ mem = [p \in Procs |-> mem[p]]
  /\ total \in [Loops -> Nat]
  /\ Bounded(file.loops, FileLoop)
  /\ Bounded(tuner.loops, FileLoop)
  /\ \A p \in Procs :
       /\ Bounded(mem[p], MemLoop)
       /\ pc[p] \in Saving =>
            \A l \in Ran(p) : Count(mem[p][l]) + 1 <= total[l]

-----------------------------------------------------------------------------
\* Counting the rows of a list.
LEMMA FullFacts ==
  ASSUME NEW a \in Rows
  PROVE  /\ Len(a) \in Nat /\ DOMAIN a = 1 .. Len(a)
         /\ RowsIn(a) \in SUBSET (1 .. Len(a))
         /\ IsFiniteSet(RowsIn(a)) /\ Full(a) \in Nat
<1>1. Len(a) \in Nat /\ DOMAIN a = 1 .. Len(a) /\ RowsIn(a) \in SUBSET (1 .. Len(a))
  BY DEF Rows, RowsIn
<1>2. IsFiniteSet(1 .. Len(a))
  BY <1>1, FS_Interval
<1>3. IsFiniteSet(RowsIn(a))
  BY <1>1, <1>2, FS_Subset
<1> QED
  BY <1>1, <1>3, FS_CardinalityType DEF Full

\* Appending to a list.
LEMMA FullAppend ==
  ASSUME NEW a \in Rows
  PROVE  /\ Append(a, "row") \in Rows /\ Full(Append(a, "row")) = Full(a) + 1
         /\ Append(a, "hole") \in Rows /\ Full(Append(a, "hole")) = Full(a)
<1> DEFINE n == Len(a) + 1
<1>0. /\ Len(a) \in Nat /\ DOMAIN a = 1 .. Len(a)
      /\ RowsIn(a) \in SUBSET (1 .. Len(a)) /\ IsFiniteSet(RowsIn(a))
  BY FullFacts
<1>1. ASSUME NEW x \in {"row", "hole"}
      PROVE  /\ Append(a, x) \in Rows /\ DOMAIN Append(a, x) = 1 .. n
             /\ Append(a, x)[n] = x /\ \A i \in 1 .. Len(a) : Append(a, x)[i] = a[i]
  BY DEF Rows
<1>2. RowsIn(Append(a, "row")) = RowsIn(a) \cup {n}
  BY <1>0, <1>1 DEF RowsIn
<1>3. RowsIn(Append(a, "hole")) = RowsIn(a)
  BY <1>0, <1>1 DEF RowsIn
<1>4. n \notin RowsIn(a)
  BY <1>0
<1> QED
  BY <1>0, <1>1, <1>2, <1>3, <1>4, FS_AddElement DEF Full

\* Joining two lists.
LEMMA FullConcat ==
  ASSUME NEW a \in Rows, NEW b \in Rows
  PROVE  a \o b \in Rows /\ Full(a \o b) = Full(a) + Full(b)
<1> DEFINE m == Len(a)
           c == a \o b
           Shifted == {i \in m + 1 .. m + Len(b) : b[i - m] = "row"}
           f == [i \in RowsIn(b) |-> i + m]
<1>0. /\ m \in Nat /\ Len(b) \in Nat /\ DOMAIN a = 1 .. m /\ DOMAIN b = 1 .. Len(b)
      /\ RowsIn(a) \in SUBSET (1 .. m) /\ RowsIn(b) \in SUBSET (1 .. Len(b))
      /\ IsFiniteSet(RowsIn(a)) /\ IsFiniteSet(RowsIn(b))
      /\ Full(a) \in Nat /\ Full(b) \in Nat
  BY FullFacts
<1>1. /\ c \in Rows /\ DOMAIN c = 1 .. m + Len(b)
      /\ \A i \in 1 .. m + Len(b) : c[i] = IF i <= m THEN a[i] ELSE b[i - m]
  BY DEF Rows
<1>2. RowsIn(c) = RowsIn(a) \cup Shifted
  BY <1>0, <1>1 DEF RowsIn
<1>3. RowsIn(a) \cap Shifted = {}
  BY <1>0
<1>4. f \in Surjection(RowsIn(b), Shifted) /\ f \in Injection(RowsIn(b), Shifted)
  <2>1. \A i \in RowsIn(b) : i \in 1 .. Len(b) /\ b[i] = "row"
    BY <1>0 DEF RowsIn
  <2>2. \A i \in RowsIn(b) : f[i] \in Shifted
    BY <1>0, <2>1
  <2>3. ASSUME NEW j \in Shifted PROVE \E i \in RowsIn(b) : f[i] = j
    <3>1. j - m \in 1 .. Len(b) /\ b[j - m] = "row" /\ (j - m) + m = j
      BY <1>0
    <3>2. j - m \in RowsIn(b)
      BY <1>0, <3>1 DEF RowsIn
    <3> QED
      BY <3>1, <3>2
  <2>4. \A i, j \in RowsIn(b) : f[i] = f[j] => i = j
    BY <1>0, <2>1
  <2> QED
    BY <2>2, <2>3, <2>4 DEF Surjection, Injection, IsInjective
<1>5. IsFiniteSet(Shifted) /\ Cardinality(Shifted) = Full(b)
  BY <1>0, <1>4, FS_Surjection DEF Full
<1>6. Cardinality(RowsIn(a) \cup Shifted) = Full(a) + Full(b)
  <2> HIDE DEF Shifted
  <2>1. Cardinality(RowsIn(a) \cup Shifted) =
          Cardinality(RowsIn(a)) + Cardinality(Shifted) - Cardinality(RowsIn(a) \cap Shifted)
    BY <1>0, <1>5, FS_Union
  <2>2. Cardinality(RowsIn(a) \cap Shifted) = 0
    BY <1>3, FS_EmptySet
  <2> QED
    BY <1>0, <1>5, <2>1, <2>2 DEF Full
<1> QED
  BY <1>1, <1>2, <1>6 DEF Full

\* What Count adds up.
LEMMA CountIsNat ==
  ASSUME NEW e, e.obs \in Rows, e.hist \in Rows
  PROVE  Count(e) = Full(e.obs) + Full(e.hist) /\ Count(e) \in Nat
BY FullFacts DEF Count, Full

\* Loading adds no row.
LEMMA LoadedCount ==
  ASSUME NEW e \in FileLoop
  PROVE  Loaded(e) \in MemLoop /\ Count(Loaded(e)) = Count(e) /\ ~Loaded(e).ran
BY DEF Loaded, FileLoop, MemLoop, Count

\* Executing a loop adds no row to memory.
LEMMA ExecutedCount ==
  ASSUME NEW e \in MemLoop, NEW p \in Procs, fresh[p] \in BOOLEAN, NEW n \in {"zero", "real"}
  PROVE  Executed(p, e, n) \in MemLoop /\ Count(Executed(p, e, n)) = Count(e)
BY ZenonT(30) DEF Executed, MemLoop, Count

\* Saving adds the row of this execution, if it executed the loop.
LEMMA SavedCount ==
  ASSUME NEW e \in MemLoop
  PROVE  Saved(e) \in FileLoop /\ Count(Saved(e)) = Count(e) + (IF e.ran THEN 1 ELSE 0)
<1>1. e.obs \in Rows /\ e.hist \in Rows /\ e.ran \in BOOLEAN
      /\ e.warm \in BOOLEAN /\ e.tuned \in BOOLEAN
  BY DEF MemLoop
<1>2. /\ Saved(e).obs \in Rows /\ Saved(e).hist = e.hist
      /\ Full(Saved(e).obs) = Full(e.obs) + (IF e.ran THEN 1 ELSE 0)
  <2>1. CASE e.ran
    <3>1. Saved(e).obs = Append(e.obs, "row") /\ Saved(e).hist = e.hist
      BY <2>1 DEF Saved
    <3> QED
      BY <1>1, <2>1, <3>1, FullAppend
  <2>2. CASE ~e.ran
    <3>1. Saved(e).obs = Append(e.obs, "hole") /\ Saved(e).hist = e.hist
      BY <2>2 DEF Saved
    <3>2. Full(e.obs) \in Nat
      BY <1>1, FullFacts
    <3> QED
      BY <1>1, <2>2, <3>1, <3>2, FullAppend
  <2> QED
    BY <1>1, <2>1, <2>2
<1>3. Saved(e) \in FileLoop
  BY <1>1, <1>2 DEF Saved, FileLoop
<1> QED
  BY <1>1, <1>2, <1>3, CountIsNat, FullFacts

\* The tuner moves rows and adds none.
LEMMA TunedCount ==
  ASSUME NEW e \in FileLoop
  PROVE  Tuned(e) \in FileLoop /\ Count(Tuned(e)) = Count(e)
<1>1. e.obs \in Rows /\ e.hist \in Rows
  BY DEF FileLoop
<1>2. <<>> \in Rows /\ Full(<<>>) = 0
  <2>1. <<>> \in Rows /\ RowsIn(<<>>) = {}
    BY DEF Rows, RowsIn
  <2> QED
    BY <2>1, FS_EmptySet DEF Full
<1>3. e.hist \o e.obs \in Rows /\ Full(e.hist \o e.obs) = Full(e.hist) + Full(e.obs)
  BY <1>1, FullConcat
<1>4. /\ Tuned(e).obs = <<>> /\ Tuned(e).hist = e.hist \o e.obs
      /\ Tuned(e) \in FileLoop
  BY <1>1, <1>2, <1>3 DEF Tuned, Updated, FileLoop
<1>5. Count(e) = Full(e.obs) + Full(e.hist) /\ Full(e.obs) \in Nat /\ Full(e.hist) \in Nat
  BY <1>1, CountIsNat, FullFacts
<1>6. Count(Tuned(e)) = Full(<<>>) + Full(e.hist \o e.obs)
  BY <1>4 DEF Count, Full
<1> QED
  BY <1>2, <1>3, <1>4, <1>5, <1>6

-----------------------------------------------------------------------------
\* A collection that nobody touches stays within its bounds while total grows.
LEMMA StaysBounded ==
  ASSUME NEW ls, NEW S, Bounded(ls, S),
         \A l \in Loops : total[l] \in Nat /\ total'[l] \in Nat /\ total[l] <= total'[l],
         \A e \in S : e.obs \in Rows /\ e.hist \in Rows
  PROVE  /\ DOMAIN ls \subseteq Loops
         /\ \A l \in DOMAIN ls : ls[l] \in S /\ Count(ls[l]) <= total'[l]
<1>1. DOMAIN ls \subseteq Loops /\ \A l \in DOMAIN ls : ls[l] \in S /\ Count(ls[l]) <= total[l]
  BY DEF Bounded
<1>2. ASSUME NEW l \in DOMAIN ls PROVE Count(ls[l]) <= total'[l]
  <2>1. Count(ls[l]) \in Nat
    BY <1>1, CountIsNat
  <2> QED
    BY <1>1, <2>1
<1> QED
  BY <1>1, <1>2

\* Memory that has been given up.
LEMMA NothingHeld == \A S : Bounded(NoLoops, S)
BY DEF Bounded, NoLoops

\* No observation counted, nothing loaded, saved or tuned: one execution changes its stage.
LEMMA StageChange ==
  ASSUME RowInv, NEW p \in Procs, NEW s \in Stages, pc' = [pc EXCEPT ![p] = s],
         s \in Saving => pc[p] \in Saving,
         mem' = mem \/ mem' = [mem EXCEPT ![p] = NoLoops],
         env' = env, fresh' = fresh, total' = total,
         tuner' = tuner, file' = file \/ file' = Torn
  PROVE  RowInv'
<1>1. Bounded(file'.loops, FileLoop)
  BY NothingHeld DEF RowInv, Torn
<1>2. \A q \in Procs : mem'[q] = mem[q] \/ mem'[q] = NoLoops
  BY DEF RowInv
<1>3. \A q \in Procs : Bounded(mem'[q], MemLoop)
  BY <1>2, NothingHeld DEF RowInv
<1>4. mem' = [q \in Procs |-> mem'[q]]
  BY DEF RowInv
<1>5. \A q \in Procs : pc'[q] \in Saving => pc[q] \in Saving
  BY DEF RowInv
<1>6. ASSUME NEW q \in Procs, pc'[q] \in Saving, NEW l \in Ran(q)'
      PROVE  Count(mem'[q][l]) + 1 <= total[l]
  <2>1. mem'[q] = mem[q]
    BY <1>2, <1>6 DEF Ran, NoLoops
  <2>2. l \in Ran(q) /\ pc[q] \in Saving
    BY <1>5, <1>6, <2>1 DEF Ran
  <2> QED
    BY <2>1, <2>2 DEF RowInv
<1>7. pc' \in [Procs -> Stages]
  BY DEF RowInv
<1> QED
  BY <1>1, <1>3, <1>4, <1>6, <1>7 DEF RowInv, Bounded

\* bo_load_data: memory is what the file holds now.
LEMMA StartKeeps ==
  ASSUME RowInv, NEW p \in Procs, Start(p), Envs \subseteq Environments
  PROVE  RowInv'
<1> DEFINE new == [l \in DOMAIN file.loops |-> Loaded(file.loops[l])]
<1>1. /\ pc' = [pc EXCEPT ![p] = "run"]
      /\ env' \in {[env EXCEPT ![p] = e] : e \in Envs}
      /\ fresh' = [fresh EXCEPT ![p] = file.kind = "absent"]
      /\ mem' = [mem EXCEPT ![p] = new]
      /\ file' = file /\ tuner' = tuner /\ total' = total
  BY DEF Start, history
<1>2. Bounded(new, MemLoop)
  <2>1. DOMAIN file.loops \subseteq Loops
    BY DEF RowInv, Bounded
  <2>2. ASSUME NEW l \in DOMAIN file.loops
        PROVE  new[l] \in MemLoop /\ Count(new[l]) <= total[l]
    <3>1. file.loops[l] \in FileLoop /\ Count(file.loops[l]) <= total[l]
      BY DEF RowInv, Bounded
    <3> QED
      BY <3>1, LoadedCount
  <2> QED
    BY <2>1, <2>2 DEF Bounded
<1>3. /\ mem' = [q \in Procs |-> mem'[q]] /\ mem'[p] = new
      /\ \A q \in Procs : q # p => mem'[q] = mem[q]
  BY <1>1 DEF RowInv
<1>4. /\ pc' \in [Procs -> Stages] /\ env' \in [Procs -> Environments]
      /\ fresh' \in [Procs -> BOOLEAN]
  BY <1>1 DEF RowInv, Stages
<1>5. \A q \in Procs : pc'[q] \in Saving => q # p /\ pc[q] \in Saving
  BY <1>1 DEF RowInv, Saving
<1>6. \A q \in Procs : Bounded(mem'[q], MemLoop)
  BY <1>2, <1>3 DEF RowInv
<1>7. ASSUME NEW q \in Procs, pc'[q] \in Saving, NEW l \in Ran(q)'
      PROVE  Count(mem'[q][l]) + 1 <= total[l]
  <2>1. mem'[q] = mem[q] /\ l \in Ran(q) /\ pc[q] \in Saving
    BY <1>3, <1>5, <1>7 DEF Ran
  <2> QED
    BY <2>1 DEF RowInv
<1> QED
  BY <1>1, <1>3, <1>4, <1>6, <1>7 DEF RowInv, Bounded

\* bo_schedule_parameter, bo_schedule_begin, bo_schedule_end.
LEMMA ExecuteKeeps ==
  ASSUME RowInv, NEW p \in Procs, NEW l \in Loops, NEW n \in {"zero", "real"}, Execute(p, l, n)
  PROVE  RowInv'
<1> DEFINE e == IF l \in DOMAIN mem[p] THEN mem[p][l] ELSE NewLoop
           new == [k \in DOMAIN mem[p] \cup {l} |->
                     IF k = l THEN Executed(p, e, n) ELSE mem[p][k]]
<1>1. /\ pc[p] = "run" /\ mem' = [mem EXCEPT ![p] = new]
      /\ pc' = pc /\ env' = env /\ fresh' = fresh /\ file' = file /\ tuner' = tuner
      /\ total' = total
  BY DEF Execute, history
<1>2. Bounded(mem[p], MemLoop) /\ total[l] \in Nat /\ fresh[p] \in BOOLEAN
  BY DEF RowInv
<1>3. e \in MemLoop /\ Count(e) <= total[l]
  <2>1. CASE l \in DOMAIN mem[p]
    BY <1>2, <2>1 DEF Bounded
  <2>2. CASE l \notin DOMAIN mem[p]
    <3>1. <<>> \in Rows /\ RowsIn(<<>>) = {}
      BY DEF Rows, RowsIn
    <3>2. NewLoop \in MemLoop
      BY <3>1 DEF NewLoop, MemLoop
    <3>3. Count(NewLoop) = 0 + 0
      BY <3>1, FS_EmptySet DEF Count, NewLoop
    <3> QED
      BY <1>2, <2>2, <3>2, <3>3
  <2> QED
    BY <2>1, <2>2
<1>4. Bounded(new, MemLoop)
  <2>1. ASSUME NEW k \in DOMAIN new PROVE new[k] \in MemLoop /\ Count(new[k]) <= total[k]
    <3> HIDE DEF e
    <3>1. CASE k = l
      BY <1>2, <1>3, <3>1, ExecutedCount
    <3>2. CASE k # l
      BY <1>2, <3>2 DEF Bounded
    <3> QED
      BY <3>1, <3>2
  <2>2. DOMAIN new \subseteq Loops
    BY <1>2 DEF Bounded
  <2> QED
    BY <2>1, <2>2 DEF Bounded
<1> HIDE DEF e, new
<1>5. /\ mem' = [q \in Procs |-> mem'[q]] /\ mem'[p] = new
      /\ \A q \in Procs : q # p => mem'[q] = mem[q]
  BY <1>1 DEF RowInv
<1>6. \A q \in Procs : Bounded(mem'[q], MemLoop)
  BY <1>4, <1>5 DEF RowInv
<1>7. ASSUME NEW q \in Procs, pc'[q] \in Saving, NEW k \in Ran(q)'
      PROVE  Count(mem'[q][k]) + 1 <= total[k]
  <2>1. q # p
    BY <1>1, <1>7 DEF Saving
  <2>2. mem'[q] = mem[q] /\ k \in Ran(q) /\ pc[q] \in Saving
    BY <1>1, <1>5, <1>7, <2>1 DEF Ran
  <2> QED
    BY <2>2 DEF RowInv
<1> QED
  BY <1>1, <1>5, <1>6, <1>7 DEF RowInv, Bounded

\* bo_save_data is entered: what was observed counts from now on.
LEMMA ExitKeeps ==
  ASSUME RowInv, NEW p \in Procs, Exit(p)
  PROVE  RowInv'
<1>1. /\ pc[p] = "run" /\ file' = file /\ env' = env /\ fresh' = fresh /\ tuner' = tuner
  BY DEF Exit
<1>2. CASE /\ pc' = [pc EXCEPT ![p] = "off"]
           /\ mem' = [mem EXCEPT ![p] = NoLoops]
           /\ total' = total
  BY <1>1, <1>2, StageChange DEF Stages, Saving
<1>3. CASE /\ pc' = [pc EXCEPT ![p] = "saving"]
           /\ total' = [l \in Loops |-> IF l \in Ran(p) THEN total[l] + 1 ELSE total[l]]
           /\ mem' = mem
  <2>1. \A l \in Loops : total[l] \in Nat /\ total'[l] \in Nat /\ total[l] <= total'[l]
    BY <1>3 DEF RowInv
  <2>2. \A l \in Ran(p) : l \in Loops /\ total'[l] = total[l] + 1
    BY <1>3 DEF RowInv, Bounded, Ran
  <2>3. /\ \A e \in FileLoop : e.obs \in Rows /\ e.hist \in Rows
        /\ \A e \in MemLoop : e.obs \in Rows /\ e.hist \in Rows
    BY DEF FileLoop, MemLoop
  <2>4. Bounded(file.loops, FileLoop)' /\ Bounded(tuner.loops, FileLoop)'
    <3>1. Bounded(file.loops, FileLoop) /\ Bounded(tuner.loops, FileLoop)
      BY DEF RowInv
    <3>2. /\ DOMAIN file.loops \subseteq Loops
          /\ \A l \in DOMAIN file.loops :
               file.loops[l] \in FileLoop /\ Count(file.loops[l]) <= total'[l]
      BY <2>1, <2>3, <3>1, StaysBounded
    <3>3. /\ DOMAIN tuner.loops \subseteq Loops
          /\ \A l \in DOMAIN tuner.loops :
               tuner.loops[l] \in FileLoop /\ Count(tuner.loops[l]) <= total'[l]
      BY <2>1, <2>3, <3>1, StaysBounded
    <3> QED
      BY <1>1, <3>2, <3>3 DEF Bounded
  <2>5. ASSUME NEW q \in Procs PROVE Bounded(mem[q], MemLoop)'
    <3>1. Bounded(mem[q], MemLoop)
      BY DEF RowInv
    <3>2. /\ DOMAIN mem[q] \subseteq Loops
          /\ \A l \in DOMAIN mem[q] : mem[q][l] \in MemLoop /\ Count(mem[q][l]) <= total'[l]
      BY <2>1, <2>3, <3>1, StaysBounded
    <3> QED
      BY <1>3, <3>2 DEF Bounded
  <2>6. ASSUME NEW q \in Procs, pc'[q] \in Saving, NEW l \in Ran(q)'
        PROVE  Count(mem'[q][l]) + 1 <= total'[l]
    <3>1. l \in Ran(q) /\ mem'[q] = mem[q] /\ Bounded(mem[q], MemLoop)
      BY <1>3, <2>6 DEF Ran, RowInv
    <3>2. l \in Loops /\ mem[q][l] \in MemLoop /\ Count(mem[q][l]) <= total[l]
      BY <3>1 DEF Ran, Bounded
    <3>3. Count(mem[q][l]) \in Nat
      BY <2>3, <3>2, CountIsNat
    <3>4. CASE q = p
      BY <2>1, <2>2, <3>1, <3>2, <3>3, <3>4
    <3>5. CASE q # p
      <4>1. pc[q] \in Saving
        BY <1>3, <2>6, <3>5 DEF RowInv
      <4>2. Count(mem[q][l]) + 1 <= total[l]
        BY <3>1, <4>1 DEF RowInv
      <4> QED
        BY <2>1, <3>1, <3>2, <3>3, <4>2
    <3> QED
      BY <3>4, <3>5
  <2>7. pc' \in [Procs -> Stages] /\ total' \in [Loops -> Nat]
    BY <1>3, <2>1 DEF RowInv, Stages
  <2> QED
    BY <1>1, <1>3, <2>4, <2>5, <2>6, <2>7 DEF RowInv
<1> QED
  BY <1>2, <1>3 DEF Exit

\* write_state and the end of the output stream.
LEMMA WriteKeeps ==
  ASSUME RowInv, NEW p \in Procs, Write(p)
  PROVE  RowInv'
<1>1. /\ pc[p] = "writing" /\ pc' = [pc EXCEPT ![p] = "written"]
      /\ mem' = [mem EXCEPT ![p] = NoLoops]
      /\ env' = env /\ fresh' = fresh /\ total' = total /\ tuner' = tuner
  BY DEF Write, history
<1>2. PICK kept \in SUBSET DOMAIN mem[p] : file' = Whole([l \in kept |-> Saved(mem[p][l])])
  <2>1. PICK zero : file' = Whole([l \in {k \in DOMAIN mem[p] : mem[p][k].N # "zero"} \ zero |->
                                     Saved(mem[p][l])])
    BY DEF Write
  <2> QED
    BY <2>1
<1>3. file'.loops = [l \in kept |-> Saved(mem[p][l])]
  BY <1>2 DEF Whole
<1>4. Bounded(mem[p], MemLoop)
  BY DEF RowInv
<1>5. ASSUME NEW l \in kept
      PROVE  Saved(mem[p][l]) \in FileLoop /\ Count(Saved(mem[p][l])) <= total[l]
  <2>1. mem[p][l] \in MemLoop /\ Count(mem[p][l]) <= total[l] /\ l \in Loops
    BY <1>4 DEF Bounded
  <2>2. /\ Saved(mem[p][l]) \in FileLoop
        /\ Count(Saved(mem[p][l])) = Count(mem[p][l]) + (IF mem[p][l].ran THEN 1 ELSE 0)
    BY <2>1, SavedCount
  <2>3. Count(mem[p][l]) \in Nat /\ total[l] \in Nat
    BY <2>1, CountIsNat DEF MemLoop, RowInv
  <2>4. CASE mem[p][l].ran
    <3>1. Count(mem[p][l]) + 1 <= total[l]
      BY <1>1, <2>4 DEF RowInv, Saving, Ran
    <3> QED
      BY <2>2, <2>4, <3>1
  <2>5. CASE ~mem[p][l].ran
    BY <2>1, <2>2, <2>3, <2>5
  <2> QED
    BY <2>4, <2>5
<1>6. Bounded(file.loops, FileLoop)'
  BY <1>1, <1>3, <1>4, <1>5 DEF Bounded
<1>7. /\ mem' = [q \in Procs |-> mem'[q]] /\ mem'[p] = NoLoops
      /\ \A q \in Procs : q # p => mem'[q] = mem[q]
  BY <1>1 DEF RowInv
<1>8. \A q \in Procs : Bounded(mem'[q], MemLoop)
  BY <1>7, NothingHeld DEF RowInv
<1>9. ASSUME NEW q \in Procs, pc'[q] \in Saving, NEW l \in Ran(q)'
      PROVE  Count(mem'[q][l]) + 1 <= total[l]
  <2>1. q # p
    BY <1>1, <1>9 DEF RowInv, Saving
  <2>2. mem'[q] = mem[q] /\ l \in Ran(q) /\ pc[q] \in Saving
    BY <1>1, <1>7, <1>9, <2>1 DEF Ran, RowInv
  <2> QED
    BY <2>2 DEF RowInv
<1>10. pc' \in [Procs -> Stages]
  BY <1>1 DEF RowInv, Stages
<1> QED
  BY <1>1, <1>6, <1>7, <1>8, <1>9, <1>10 DEF RowInv, Bounded

\* The tuner: it reads, and later writes, rows that were in the file.
LEMMA TuneKeeps ==
  ASSUME RowInv, Tune \/ TuneCrash
  PROVE  RowInv'
<1>1. /\ pc' = pc /\ env' = env /\ fresh' = fresh /\ mem' = mem /\ total' = total
  BY DEF Tune, TuneRead, TuneFails, TuneTruncate, TuneWrite, TuneCrash, procvars, history
<1>2. Bounded(file.loops, FileLoop) /\ Bounded(tuner.loops, FileLoop)
  BY DEF RowInv
<1>3. Bounded(file'.loops, FileLoop)
  <2>1. file' = file \/ file'.loops = NoLoops \/ file'.loops = tuner.loops
    BY DEF Tune, TuneRead, TuneFails, TuneTruncate, TuneWrite, TuneCrash, Torn, Whole
  <2> QED
    BY <1>2, <2>1, NothingHeld
<1>4. Bounded(tuner'.loops, FileLoop)
  <2>1. CASE TuneRead
    <3>1. tuner'.loops = [l \in DOMAIN file.loops |-> Tuned(file.loops[l])]
      BY <2>1 DEF TuneRead
    <3>2. ASSUME NEW l \in DOMAIN file.loops
          PROVE  Tuned(file.loops[l]) \in FileLoop /\ Count(Tuned(file.loops[l])) <= total[l]
      BY <1>2, TunedCount DEF Bounded
    <3> QED
      BY <1>2, <3>1, <3>2 DEF Bounded
  <2>2. CASE ~TuneRead
    <3>1. tuner'.loops = tuner.loops \/ tuner'.loops = NoLoops
      <4>1. CASE TuneTruncate
        BY <4>1 DEF TuneTruncate
      <4>2. CASE TuneFails \/ TuneWrite \/ TuneCrash
        BY <4>2 DEF TuneFails, TuneWrite, TuneCrash
      <4> QED
        BY <2>2, <4>1, <4>2 DEF Tune
    <3> QED
      BY <1>2, <3>1, NothingHeld
  <2> QED
    BY <2>1, <2>2
<1>5. \A q \in Procs : Ran(q)' = Ran(q)
  BY <1>1 DEF Ran
<1> QED
  BY <1>1, <1>3, <1>4, <1>5 DEF RowInv, Bounded

-----------------------------------------------------------------------------
\* Every step keeps the invariant.
LEMMA StepInvariant == RowInv /\ [Next]_vars => RowInv'
<1> SUFFICES ASSUME RowInv, [Next]_vars PROVE RowInv'
  OBVIOUS
<1> USE DEF Stages, Saving, history
<1>1. ASSUME NEW p \in Procs, Step(p) PROVE RowInv'
  <2>1. CASE Start(p)
    BY <2>1, StartKeeps, BoStateAssumption
  <2>2. CASE StartFails(p)
    BY <2>2 DEF StartFails, procvars, RowInv, Bounded, Ran
  <2>3. CASE \E l \in Loops, n \in {"zero", "real"} : Execute(p, l, n)
    BY <2>3, ExecuteKeeps
  <2>4. CASE Exit(p)
    BY <2>4, ExitKeeps
  <2>5. CASE Lock(p)
    BY <2>5, StageChange DEF Lock
  <2>6. CASE LockBusy(p)
    BY <2>6, StageChange DEF LockBusy
  <2>7. CASE Truncate(p)
    BY <2>7, StageChange DEF Truncate
  <2>8. CASE Write(p)
    BY <2>8, WriteKeeps
  <2>9. CASE Unlock(p)
    BY <2>9, StageChange DEF Unlock
  <2> QED
    BY <1>1, <2>1, <2>2, <2>3, <2>4, <2>5, <2>6, <2>7, <2>8, <2>9 DEF Step
<1>2. ASSUME NEW p \in Procs, Crash(p) PROVE RowInv'
  BY <1>2, StageChange DEF Crash
<1>3. CASE Tune \/ TuneCrash
  BY <1>3, TuneKeeps
<1>4. CASE UNCHANGED vars
  BY <1>4 DEF vars, RowInv, Bounded, Ran
<1> QED
  BY <1>1, <1>2, <1>3, <1>4 DEF Next, Finished

LEMMA InitRows ==
  ASSUME Init
  PROVE  RowInv
<1>1. \A p \in Procs : pc[p] = "off" /\ mem[p] = NoLoops
  BY DEF Init
<1>2. Bounded(file.loops, FileLoop) /\ Bounded(tuner.loops, FileLoop)
  BY NothingHeld DEF Init, Absent
<1> QED
  BY <1>1, <1>2, NothingHeld DEF Init, RowInv, Stages, Saving, Environments

(***************************************************************************)
(* The state file never holds more rows of a loop than executions of it    *)
(* that were observed.  bo_save_data writes back what bo_load_data read,   *)
(* possibly long ago, and update_dataset moves rows; neither, nor a crash  *)
(* between any two steps of several of them, makes a row count twice.      *)
(***************************************************************************)
THEOREM NoRowTwice == Spec => []NoInventedRows
<1>1. Init => RowInv
  BY InitRows
<1>2. RowInv => NoInventedRows
  BY DEF RowInv, Bounded, NoInventedRows, Recorded
<1> QED
  BY <1>1, <1>2, StepInvariant, PTL DEF Spec

-----------------------------------------------------------------------------
(* The bounds: an execution is counted at most once for a loop.            *)

Running == {p \in Procs : pc[p] = "run"}

RangeInv ==
  /\ RowInv
  /\ file.kind \in {"absent", "torn", "whole"} /\ lock \in BOOLEAN
  /\ tuner = [pc |-> tuner.pc, loops |-> tuner.loops]
  /\ tuner.pc \in {"off", "tuning", "writing"}
  /\ runs \in 0 .. MaxRuns /\ tunings \in 0 .. MaxTunings
  /\ tuned \subseteq Loops /\ failed \in BOOLEAN
  /\ \A l \in Loops : total[l] + Cardinality(Running) <= runs

\* How many executions are running.
LEMMA RunningFacts ==
  /\ Running \in SUBSET Procs /\ IsFiniteSet(Running) /\ Cardinality(Running) \in Nat
  /\ \A p \in Procs : IsFiniteSet(Running \ {p}) /\ IsFiniteSet(Running \cup {p})
<1>1. Running \in SUBSET Procs /\ IsFiniteSet(Procs)
  BY BoStateAssumption DEF Running
<1>2. IsFiniteSet(Running) /\ Cardinality(Running) \in Nat
  BY <1>1, FS_Subset, FS_CardinalityType
<1> QED
  BY <1>1, <1>2, FS_AddElement, FS_RemoveElement

LEMMA RunningNext ==
  ASSUME pc \in [Procs -> Stages], NEW p \in Procs, NEW s \in Stages,
         pc' = [pc EXCEPT ![p] = s]
  PROVE  /\ Cardinality(Running)' \in Nat
         /\ s = "run" => Cardinality(Running)' <= Cardinality(Running) + 1
         /\ s # "run" => Cardinality(Running)' <= Cardinality(Running)
         /\ s # "run" /\ pc[p] = "run" => Cardinality(Running)' + 1 = Cardinality(Running)
<1>1. /\ s = "run" => Running' = Running \cup {p}
      /\ s # "run" => Running' = Running \ {p}
  BY DEF Running
<1>2. /\ Cardinality(Running \cup {p}) =
           IF p \in Running THEN Cardinality(Running) ELSE Cardinality(Running) + 1
      /\ Cardinality(Running \ {p}) =
           IF p \in Running THEN Cardinality(Running) - 1 ELSE Cardinality(Running)
  BY RunningFacts, FS_AddElement, FS_RemoveElement
<1>3. Cardinality(Running \cup {p}) \in Nat /\ Cardinality(Running \ {p}) \in Nat
  BY RunningFacts, FS_CardinalityType
<1>4. pc[p] = "run" => p \in Running
  BY DEF Running
<1>5. Cardinality(Running) \in Nat
  BY RunningFacts
<1>6. CASE s = "run"
  <2>1. Cardinality(Running)' = Cardinality(Running \cup {p})
    BY <1>1, <1>6
  <2> QED
    BY <1>2, <1>3, <1>5, <1>6, <2>1
<1>7. CASE s # "run"
  <2>1. Cardinality(Running)' = Cardinality(Running \ {p})
    BY <1>1, <1>7
  <2> QED
    BY <1>2, <1>3, <1>4, <1>5, <1>7, <2>1
<1> QED
  BY <1>6, <1>7

\* The actions of an execution that start none and count none.
LEMMA RangeKept ==
  ASSUME RangeInv, RowInv', NEW p \in Procs, NEW s \in Stages \ {"run"},
         pc' = [pc EXCEPT ![p] = s],
         file' = file \/ file' = Torn \/ file' = Whole(file'.loops), lock' \in BOOLEAN,
         UNCHANGED <<tuner, runs, tunings, total, tuned, failed>>
  PROVE  RangeInv'
<1>1. Cardinality(Running)' \in Nat /\ Cardinality(Running)' <= Cardinality(Running)
  BY RunningNext DEF RangeInv, RowInv
<1>2. \A l \in Loops : total[l] \in Nat /\ total[l] + Cardinality(Running) <= runs
  BY DEF RangeInv, RowInv
<1>3. \A l \in Loops : total'[l] + Cardinality(Running)' <= runs'
  BY <1>1, <1>2, RunningFacts, BoStateAssumption DEF RangeInv
<1>4. file'.kind \in {"absent", "torn", "whole"}
  BY DEF RangeInv, Torn, Whole
<1>5. /\ tuner' = [pc |-> tuner'.pc, loops |-> tuner'.loops]
      /\ tuner'.pc \in {"off", "tuning", "writing"}
  BY DEF RangeInv
<1>6. runs' \in 0 .. MaxRuns /\ tunings' \in 0 .. MaxTunings
  BY DEF RangeInv
<1>7. tuned' \subseteq Loops /\ failed' \in BOOLEAN
  BY DEF RangeInv
<1> QED
  BY <1>3, <1>4, <1>5, <1>6, <1>7 DEF RangeInv

LEMMA RangeStep == RangeInv /\ [Next]_vars => RangeInv'
<1> SUFFICES ASSUME RangeInv, [Next]_vars PROVE RangeInv'
  OBVIOUS
<1>0. /\ RowInv' /\ RowInv /\ pc \in [Procs -> Stages] /\ Cardinality(Running) \in Nat
      /\ MaxRuns \in Nat /\ MaxTunings \in Nat
      /\ \A l \in Loops : total[l] \in Nat /\ total[l] + Cardinality(Running) <= runs
  BY StepInvariant, RunningFacts, BoStateAssumption DEF RangeInv, RowInv
<1>1. ASSUME NEW p \in Procs, Step(p) PROVE RangeInv'
  <2>1. CASE Start(p)
    <3>1. /\ pc' = [pc EXCEPT ![p] = "run"] /\ runs' = runs + 1 /\ runs < MaxRuns
          /\ UNCHANGED <<file, lock, tuner, tunings, total, tuned, failed>>
      BY <2>1 DEF Start, MayStart, history
    <3>2. Cardinality(Running)' \in Nat /\ Cardinality(Running)' <= Cardinality(Running) + 1
      BY <1>0, <3>1, RunningNext DEF Stages
    <3>3. \A l \in Loops : total'[l] + Cardinality(Running)' <= runs'
      BY <1>0, <3>1, <3>2 DEF RangeInv
    <3> QED
      BY <1>0, <3>1, <3>3 DEF RangeInv
  <2>2. CASE StartFails(p)
    <3>1. Running' = Running /\ runs' = runs + 1 /\ runs < MaxRuns
      BY <2>2 DEF StartFails, MayStart, procvars, Running
    <3>2. \A l \in Loops : total'[l] + Cardinality(Running)' <= runs'
      BY <1>0, <2>2, <3>1 DEF StartFails, RangeInv
    <3> QED
      BY <1>0, <2>2, <3>1, <3>2 DEF StartFails, RangeInv
  <2>3. CASE \E l \in Loops, n \in {"zero", "real"} : Execute(p, l, n)
    <3>1. UNCHANGED <<file, lock, pc, tuner, runs, tunings, total, tuned, failed>>
      BY <2>3 DEF Execute, history
    <3> QED
      BY <1>0, <3>1 DEF RangeInv, Running
  <2>4. CASE Exit(p)
    <3>1. /\ pc[p] = "run"
          /\ UNCHANGED <<file, lock, tuner, runs, tunings, tuned, failed>>
          /\ pc' = [pc EXCEPT ![p] = "off"] \/ pc' = [pc EXCEPT ![p] = "saving"]
      BY <2>4 DEF Exit
    <3>2. \A l \in Loops : total'[l] = total[l] \/ total'[l] = total[l] + 1
      BY <2>4 DEF Exit
    <3>3. Cardinality(Running)' + 1 = Cardinality(Running) /\ Cardinality(Running)' \in Nat
      BY <1>0, <3>1, RunningNext DEF Stages
    <3>4. \A l \in Loops : total'[l] + Cardinality(Running)' <= runs'
      BY <1>0, <3>1, <3>2, <3>3 DEF RangeInv
    <3> QED
      BY <1>0, <3>1, <3>4 DEF RangeInv
  <2>5. CASE Lock(p) \/ LockBusy(p) \/ Truncate(p) \/ Unlock(p)
    BY <1>0, <2>5, RangeKept DEF Lock, LockBusy, Truncate, Unlock, Stages, history, RangeInv
  <2>6. CASE Write(p)
    <3>1. file' = Whole(file'.loops)
      BY <2>6 DEF Write, Whole
    <3> QED
      BY <1>0, <2>6, <3>1, RangeKept DEF Write, Stages, history, RangeInv
  <2> QED
    BY <1>1, <2>1, <2>2, <2>3, <2>4, <2>5, <2>6 DEF Step
<1>2. ASSUME NEW p \in Procs, Crash(p) PROVE RangeInv'
  BY <1>0, <1>2, RangeKept DEF Crash, Stages, history, RangeInv
<1>3. CASE Tune \/ TuneCrash
  <2>1. UNCHANGED <<lock, pc, runs, total, failed>> /\ Running' = Running
    BY <1>3 DEF Tune, TuneRead, TuneFails, TuneTruncate, TuneWrite, TuneCrash, procvars,
       history, Running
  <2>2. file'.kind \in {"absent", "torn", "whole"}
    BY <1>3 DEF Tune, TuneRead, TuneFails, TuneTruncate, TuneWrite, TuneCrash, Torn, Whole,
       RangeInv
  <2>3. /\ tuner' = [pc |-> tuner'.pc, loops |-> tuner'.loops]
        /\ tuner'.pc \in {"off", "tuning", "writing"}
    BY <1>3 DEF Tune, TuneRead, TuneFails, TuneTruncate, TuneWrite, TuneCrash, RangeInv
  <2>4. tunings' \in 0 .. MaxTunings
    BY <1>0, <1>3 DEF Tune, TuneRead, TuneFails, TuneTruncate, TuneWrite, TuneCrash, MayTune,
       RangeInv
  <2>5. tuned' \subseteq Loops
    <3>1. tuned' = tuned \/ tuned' = DOMAIN tuner.loops
      BY <1>3 DEF Tune, TuneRead, TuneFails, TuneTruncate, TuneWrite, TuneCrash, history
    <3>2. tuned \subseteq Loops /\ DOMAIN tuner.loops \subseteq Loops
      BY DEF RangeInv, RowInv, Bounded
    <3> QED
      BY <3>1, <3>2
  <2> QED
    BY <1>0, <2>1, <2>2, <2>3, <2>4, <2>5 DEF RangeInv
<1>4. CASE UNCHANGED vars
  BY <1>0, <1>4 DEF vars, RangeInv, Running
<1> QED
  BY <1>1, <1>2, <1>3, <1>4 DEF Next, Finished

(***************************************************************************)
(* Whatever overlaps and is killed: only loops of the target are stored,   *)
(* every list is one of rows and holes, and no loop has been observed more *)
(* often than the target was started.                                      *)
(***************************************************************************)
THEOREM StateFileTypes == Spec => []TypeOK
<1>1. Init => RangeInv
  <2> SUFFICES ASSUME Init PROVE RangeInv
    OBVIOUS
  <2>1. Running = {} /\ Cardinality(Running) = 0
    BY FS_EmptySet DEF Init, Running
  <2>2. \A l \in Loops : total[l] + Cardinality(Running) <= runs
    BY <2>1 DEF Init
  <2>3. /\ file.kind = "absent" /\ lock = FALSE /\ tuned = {} /\ failed = FALSE
        /\ tuner = [pc |-> tuner.pc, loops |-> tuner.loops] /\ tuner.pc = "off"
    BY DEF Init, Absent
  <2>4. runs \in 0 .. MaxRuns /\ tunings \in 0 .. MaxTunings
    BY BoStateAssumption DEF Init
  <2> QED
    BY <2>2, <2>3, <2>4, InitRows DEF RangeInv
<1>2. RangeInv => TypeOK
  <2> SUFFICES ASSUME RangeInv PROVE TypeOK
    OBVIOUS
  <2>1. total \in [Loops -> 0 .. MaxRuns]
    <3>1. \A l \in Loops : total[l] \in 0 .. MaxRuns
      BY RunningFacts, BoStateAssumption DEF RangeInv, RowInv
    <3> QED
      BY <3>1 DEF RangeInv, RowInv
  <2> QED
    BY <2>1 DEF RangeInv, RowInv, Bounded, TypeOK, LoopsOver
<1> QED
  BY <1>1, <1>2, RangeStep, PTL DEF Spec
=============================================================================
