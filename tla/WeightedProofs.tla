---------------------------- MODULE WeightedProofs ----------------------------
(***************************************************************************)
(* Proofs about Weighted for every number of threads, every number of      *)
(* loops and whatever the weights and the maps of BinLPT are.              *)
(***************************************************************************)
EXTENDS Weighted, BinLPTProofs

(***************************************************************************)
(* A condition on the plans: nowait loops agree in their number of         *)
(* iterations, so that __ntasks fits whichever loop a thread is in, and    *)
(* HSS loops start at 0.  Without it both iterators go wrong.              *)
(***************************************************************************)
Calm ==
  \A p \in Plans :
    /\ p.nowait => \A l, m \in 1 .. p.len : p.loops[l].n = p.loops[m].n
    /\ p.sched = "hss" => \A l \in 1 .. p.len : p.loops[l].start = 0

Types ==
  /\ plan \in Plans
  /\ opened \in 0 .. plan.len
  /\ at \in [Threads -> 0 .. opened]
  /\ away \in [Loops -> SUBSET Threads]
  /\ loopStart \in [Loops -> Nat]
  /\ threadStart \in [Loops -> [Threads -> Nat]]
  /\ exec = [l \in Loops |-> [i \in Iterations(l) |-> exec[l][i]]]

\* A loop that has not been initialised is untouched.
Ahead ==
  \A l \in Loops : l > opened =>
    /\ away[l] = {} /\ loopStart[l] = plan.loops[l].start
    /\ \A t \in Threads : threadStart[l][t] = 0

(***************************************************************************)
(* __ntasks belongs to the loop that was initialised last; with barriers   *)
(* no thread is in an earlier one.                                         *)
(***************************************************************************)
Globals ==
  /\ opened > 0 => ntasks = N(opened)
  /\ ~plan.nowait => \A l \in Loops : l < opened => away[l] = Threads

Base == Types /\ Ahead /\ Globals

\* What a BinLPT thread has executed lies before its thread_start.
BinlptDone ==
  \A l \in Loops :
    /\ \A t \in Threads : threadStart[l][t] <= N(l)
    /\ \A i \in Iterations(l) :
         LET t == taskmap[l][i] IN
         /\ exec[l][i] = IF t \in Threads /\ i < threadStart[l][t] THEN 1 ELSE 0
         /\ t \in away[l] => i < threadStart[l][t]

\* What an HSS team has executed lies before loop_start.
HssDone ==
  \A l \in Loops :
    /\ loopStart[l] <= N(l)
    /\ away[l] # {} => loopStart[l] = N(l)
    /\ \A i \in Iterations(l) : exec[l][i] = IF i < loopStart[l] THEN 1 ELSE 0

PInv ==
  /\ Types /\ Ahead /\ Globals
  /\ plan.sched = "binlpt" => BinlptDone
  /\ plan.sched = "hss" => HssDone

-----------------------------------------------------------------------------
\* The plan that is executed keeps to the assumptions.
LEMMA PlanFacts ==
  ASSUME plan \in Plans
  PROVE  /\ P \in Nat \ {0} /\ 0 \in Threads
         /\ plan.sched \in {"binlpt", "hss"} /\ plan.nowait \in BOOLEAN /\ plan.len \in Nat
         /\ \A l \in Loops : N(l) \in Nat \ {0} /\ plan.loops[l].start \in Nat
BY WeightedAssumption DEF Loops, N, Threads

\* A thread that is in a loop finds the right number of iterations in __ntasks.
LEMMA RightNumber ==
  ASSUME Calm, PInv, NEW t \in Threads, InLoop(t)
  PROVE  at[t] \in Loops /\ at[t] <= opened /\ ntasks = N(at[t])
<1>1. /\ opened \in 0 .. plan.len /\ at[t] \in 0 .. opened /\ plan \in Plans
      /\ plan.len \in Nat
  BY PlanFacts DEF PInv, Types
<1>2. at[t] > 0 /\ t \notin away[at[t]]
  BY DEF InLoop
<1>3. at[t] \in Loops /\ opened \in Loops /\ at[t] <= opened /\ ntasks = N(opened)
  BY <1>1, <1>2 DEF Loops, PInv, Globals
<1>4. CASE plan.nowait
  <2>1. N(at[t]) = N(opened)
    BY <1>1, <1>3, <1>4 DEF Calm, N, Loops
  <2> QED
    BY <1>3, <2>1
<1>5. CASE ~plan.nowait
  <2>1. ~(at[t] < opened)
    BY <1>2, <1>3, <1>5 DEF PInv, Globals
  <2> QED
    BY <1>1, <1>3, <2>1
<1> QED
  BY <1>4, <1>5

-----------------------------------------------------------------------------
\* The invariant holds before the first loop.
LEMMA InitInvariant == ASSUME Calm, Init PROVE PInv
<1>1. plan \in Plans /\ opened = 0
  BY DEF Init
<1>2. Types
  BY <1>1, PlanFacts DEF Init, Types, Loops
<1>3. Ahead /\ Globals
  BY <1>1, PlanFacts DEF Init, Ahead, Globals, Loops
<1>4. BinlptDone
  BY <1>1, PlanFacts DEF Init, BinlptDone, Iterations
<1>5. plan.sched = "hss" => HssDone
  <2>1. \A l \in Loops : plan.sched = "hss" => loopStart[l] = 0
    BY <1>1 DEF Init, Calm, Loops
  <2> QED
    BY <1>1, <2>1, PlanFacts DEF Init, HssDone, Iterations
<1> QED
  BY <1>2, <1>3, <1>4, <1>5 DEF PInv

\* What no step changes.
LEMMA PlanStays ==
  ASSUME [Next]_vars
  PROVE  /\ plan' = plan /\ taskmap' = taskmap /\ Loops' = Loops
         /\ \A l : N(l)' = N(l) /\ Iterations(l)' = Iterations(l)
<1>1. plan' = plan /\ taskmap' = taskmap
  BY DEF Next, Step, Finished, vars, Enter, BinlptBlock, BinlptEnd, HssBlock, HssEnd
<1> QED
  BY <1>1 DEF Loops, N, Iterations

\* Entering a loop, and preparing it when it is the first thread.
LEMMA EnterBase ==
  ASSUME Base, NEW t \in Threads, Enter(t)
  PROVE  Base' /\ loopStart' = loopStart /\ threadStart' = threadStart
<1> DEFINE l == at[t] + 1
<1>1. /\ plan' = plan /\ taskmap' = taskmap /\ Loops' = Loops
      /\ \A m : N(m)' = N(m) /\ Iterations(m)' = Iterations(m)
  BY PlanStays DEF Next, Step
<1>2. /\ MayEnter(t, l) /\ at' = [at EXCEPT ![t] = l]
      /\ away' = away /\ exec' = exec
      /\ IF opened < l THEN InitLoop(l) ELSE UNCHANGED <<opened, ntasks, shared>>
  BY DEF Enter
<1>3. /\ plan \in Plans /\ plan.len \in Nat /\ opened \in 0 .. plan.len
      /\ at[t] \in 0 .. opened /\ l \in Loops
  BY <1>2, PlanFacts DEF Base, Types, MayEnter
<1>4. CASE ~(opened < l)
  <2>1. opened' = opened /\ ntasks' = ntasks /\ loopStart' = loopStart /\ threadStart' = threadStart
    BY <1>2, <1>4 DEF shared
  <2>2. at' \in [Threads -> 0 .. opened']
    BY <1>2, <1>3, <1>4, <2>1 DEF Base, Types
  <2> QED
    BY <1>1, <1>2, <2>1, <2>2 DEF Base, Types, Ahead, Globals
<1>5. CASE opened < l
  <2>1. opened' = l /\ ntasks' = N(l) /\ l = opened + 1
    BY <1>2, <1>3, <1>5 DEF InitLoop
  <2>2. loopStart' = loopStart /\ threadStart' = threadStart
    <3>1. /\ away[l] = {} /\ loopStart[l] = plan.loops[l].start
          /\ \A u \in Threads : threadStart[l][u] = 0
      BY <1>3, <1>5 DEF Base, Ahead
    <3>2. loopStart' = [loopStart EXCEPT ![l] = plan.loops[l].start]
      BY <1>2, <1>5 DEF InitLoop
    <3>3. \/ threadStart' = [threadStart EXCEPT ![l] = [u \in Threads |-> 0]]
          \/ threadStart' = threadStart
      BY <1>2, <1>5 DEF InitLoop
    <3>4. threadStart[l] = [u \in Threads |-> 0]
      BY <1>3, <3>1 DEF Base, Types
    <3> QED
      BY <1>3, <3>1, <3>2, <3>3, <3>4 DEF Base, Types
  <2>3. at' \in [Threads -> 0 .. opened'] /\ opened' \in 0 .. plan.len
    BY <1>2, <1>3, <2>1 DEF Base, Types, Loops
  <2>4. Types'
    BY <1>1, <1>2, <2>2, <2>3 DEF Base, Types
  <2>5. Ahead'
    BY <1>1, <1>2, <1>3, <2>1, <2>2 DEF Base, Ahead, Loops
  <2>6. Globals'
    <3>1. ~plan.nowait => \A m \in Loops : m < l => away[m] = Threads
      <4> SUFFICES ASSUME ~plan.nowait, NEW m \in Loops, m < l PROVE away[m] = Threads
        OBVIOUS
      <4>1. CASE m < opened
        BY <4>1 DEF Base, Globals
      <4>2. CASE ~(m < opened)
        <5>1. m = l - 1 /\ l > 1
          BY <1>3, <2>1, <4>2 DEF Loops
        <5> QED
          BY <1>2, <5>1 DEF MayEnter
      <4> QED
        BY <4>1, <4>2
    <3> QED
      BY <1>1, <1>2, <2>1, <3>1 DEF Globals
  <2> QED
    BY <2>2, <2>4, <2>5, <2>6 DEF Base
<1> QED
  BY <1>4, <1>5

LEMMA EnterKeeps ==
  ASSUME Calm, PInv, NEW t \in Threads, Enter(t)
  PROVE  PInv'
<1>1. /\ plan' = plan /\ taskmap' = taskmap /\ Loops' = Loops
      /\ \A m : N(m)' = N(m) /\ Iterations(m)' = Iterations(m)
  BY PlanStays DEF Next, Step
<1>2. away' = away /\ exec' = exec
  BY DEF Enter
<1>3. Base' /\ loopStart' = loopStart /\ threadStart' = threadStart
  BY EnterBase DEF PInv, Base
<1>4. plan.sched = "binlpt" => BinlptDone'
  BY <1>1, <1>2, <1>3 DEF PInv, BinlptDone
<1>5. plan.sched = "hss" => HssDone'
  BY <1>1, <1>2, <1>3 DEF PInv, HssDone
<1> QED
  BY <1>1, <1>3, <1>4, <1>5 DEF PInv, Base

\* The block lo .. hi - 1 of a loop, whose iterations had not been executed.
LEMMA ExecuteOnce ==
  ASSUME Types, NEW l \in Loops, NEW lo \in Int, NEW hi \in Int, Execute(l, lo, hi),
         \A i \in Iterations(l) : lo <= i /\ i < hi => exec[l][i] = 0,
         Loops' = Loops, \A m : Iterations(m)' = Iterations(m)
  PROVE  /\ exec' = [m \in Loops |-> [i \in Iterations(m) |-> exec'[m][i]]]
         /\ \A i \in Iterations(l) : exec'[l][i] = IF lo <= i /\ i < hi THEN 1 ELSE exec[l][i]
         /\ \A m \in Loops : m # l => exec'[m] = exec[m]
<1> DEFINE new == [i \in Iterations(l) |->
                     IF lo <= i /\ i < hi THEN OneMore(exec[l][i]) ELSE exec[l][i]]
<1>1. exec' = [exec EXCEPT ![l] = new]
  BY DEF Execute
<1>2. exec'[l] = new /\ \A m \in Loops : m # l => exec'[m] = exec[m]
  BY <1>1 DEF Types
<1>3. \A m \in Loops : exec[m] = [i \in Iterations(m) |-> exec[m][i]]
  BY DEF Types
<1>4. \A m \in Loops : exec'[m] = [i \in Iterations(m) |-> exec'[m][i]]
  BY <1>2, <1>3
<1>5. exec' = [m \in Loops |-> exec'[m]]
  BY <1>1 DEF Types
<1>6. exec' = [m \in Loops |-> [i \in Iterations(m) |-> exec'[m][i]]]
  BY <1>4, <1>5
<1>7. \A i \in Iterations(l) : exec'[l][i] = IF lo <= i /\ i < hi THEN 1 ELSE exec[l][i]
  BY <1>2 DEF OneMore
<1> QED
  BY <1>2, <1>6, <1>7

(***************************************************************************)
(* BinLPT: the block that is found is the first run of iterations of this  *)
(* thread at or behind its thread_start.                                   *)
(***************************************************************************)
LEMMA BinlptBlockKeeps ==
  ASSUME Calm, PInv, NEW t \in Threads, BinlptBlock(t)
  PROVE  PInv'
<1> DEFINE l   == at[t]
           lo  == Least(Mine(t))
           Others == {i \in lo + 1 .. ntasks - 1 : taskmap[l][i] # t}
           hi  == Least({ntasks} \cup Others)
           old == threadStart[l][t]
<1>1. /\ plan' = plan /\ taskmap' = taskmap /\ Loops' = Loops
      /\ \A m : N(m)' = N(m) /\ Iterations(m)' = Iterations(m)
  BY PlanStays DEF Next, Step
<1>2. /\ InLoop(t) /\ plan.sched = "binlpt" /\ Mine(t) # {}
      /\ threadStart' = [threadStart EXCEPT ![l][t] = hi]
      /\ Execute(l, lo, hi)
      /\ opened' = opened /\ ntasks' = ntasks /\ loopStart' = loopStart
      /\ at' = at /\ away' = away
  BY DEF BinlptBlock
<1>3. /\ Types /\ BinlptDone /\ l \in Loops /\ l <= opened
      /\ ntasks = N(l) /\ N(l) \in Nat /\ t \notin away[l] /\ old \in Nat
  BY <1>2, RightNumber, PlanFacts DEF PInv, Types, InLoop
<1>4. /\ lo \in old .. ntasks - 1 /\ taskmap[l][lo] = t
      /\ \A i \in old .. lo - 1 : taskmap[l][i] # t
  <2>1. Mine(t) \in SUBSET Nat
    BY <1>3 DEF Mine
  <2>2. lo \in Mine(t) /\ \A i \in Mine(t) : lo <= i
    BY <1>2, <2>1, LeastIsLeast
  <2> HIDE DEF lo
  <2> QED
    BY <1>3, <2>2 DEF Mine
<1>5. hi \in lo + 1 .. ntasks /\ \A i \in lo .. hi - 1 : taskmap[l][i] = t
  <2> DEFINE S == {ntasks} \cup Others
  <2> HIDE DEF lo
  <2>1. S \in SUBSET Nat /\ S # {}
    BY <1>3, <1>4
  <2>2. hi \in S /\ \A i \in S : hi <= i
    BY <2>1, LeastIsLeast
  <2> HIDE DEF hi
  <2>3. hi \in lo + 1 .. ntasks
    BY <1>3, <1>4, <2>2
  <2>4. ASSUME NEW i \in lo .. hi - 1 PROVE taskmap[l][i] = t
    <3>1. CASE i = lo
      BY <1>4, <3>1
    <3>2. CASE i # lo
      <4>1. i \in lo + 1 .. ntasks - 1 /\ ~(hi <= i)
        BY <1>3, <1>4, <2>3, <3>2
      <4> QED
        BY <2>2, <4>1
    <3> QED
      BY <3>1, <3>2
  <2> QED
    BY <2>3, <2>4
<1> HIDE DEF lo, hi
<1>6. /\ exec' = [m \in Loops |-> [i \in Iterations(m) |-> exec'[m][i]]]
      /\ \A i \in Iterations(l) : exec'[l][i] = IF lo <= i /\ i < hi THEN 1 ELSE exec[l][i]
      /\ \A m \in Loops : m # l => exec'[m] = exec[m]
  <2>1. ASSUME NEW i \in Iterations(l), lo <= i, i < hi PROVE exec[l][i] = 0
    <3>1. taskmap[l][i] = t /\ ~(i < old)
      BY <1>3, <1>4, <1>5, <2>1 DEF Iterations
    <3> QED
      BY <1>3, <3>1 DEF BinlptDone
  <2>2. lo \in Int /\ hi \in Int
    BY <1>3, <1>4, <1>5
  <2> QED
    BY <1>1, <1>2, <1>3, <2>1, <2>2, ExecuteOnce
<1>7. /\ threadStart' \in [Loops -> [Threads -> Nat]]
      /\ threadStart'[l][t] = hi
      /\ \A m \in Loops, u \in Threads :
           m # l \/ u # t => threadStart'[m][u] = threadStart[m][u]
  <2>1. hi \in Nat
    BY <1>3, <1>4, <1>5
  <2> QED
    BY <1>2, <1>3, <2>1 DEF Types
<1>8. Types' /\ Ahead' /\ Globals'
  <2>1. Types'
    BY <1>1, <1>2, <1>3, <1>6, <1>7 DEF Types
  <2>2. Ahead'
    <3>1. \A m \in Loops : m > opened => m # l
      BY <1>3 DEF Types, Loops
    <3> QED
      BY <1>1, <1>2, <1>7, <3>1 DEF PInv, Ahead
  <2> QED
    BY <1>1, <1>2, <2>1, <2>2 DEF PInv, Globals
<1>9. BinlptDone'
  <2>1. \A m \in Loops, u \in Threads : threadStart'[m][u] <= N(m)
    BY <1>3, <1>4, <1>5, <1>7 DEF BinlptDone
  <2>2. ASSUME NEW m \in Loops, NEW i \in Iterations(m)
        PROVE  LET u == taskmap[m][i] IN
               /\ exec'[m][i] = IF u \in Threads /\ i < threadStart'[m][u] THEN 1 ELSE 0
               /\ u \in away[m] => i < threadStart'[m][u]
    <3> DEFINE u == taskmap[m][i]
    <3>0. /\ exec[m][i] = IF u \in Threads /\ i < threadStart[m][u] THEN 1 ELSE 0
          /\ u \in away[m] => i < threadStart[m][u]
          /\ u \in away[m] => u \in Threads
      BY <1>3 DEF BinlptDone, Types
    <3>1. CASE m # l
      BY <1>6, <1>7, <3>0, <3>1
    <3>2. CASE m = l /\ u # t
      <4>1. ~(lo <= i /\ i < hi)
        BY <1>3, <1>4, <1>5, <3>2 DEF Iterations
      <4> QED
        BY <1>6, <1>7, <3>0, <3>2, <4>1
    <3>3. CASE m = l /\ u = t
      <4>1. i \in Nat /\ (old <= i => lo <= i)
        BY <1>3, <1>4, <3>3 DEF Iterations
      <4>2. i < hi <=> (i < old \/ (lo <= i /\ i < hi))
        BY <1>3, <1>4, <1>5, <4>1
      <4> QED
        BY <1>3, <1>6, <1>7, <3>0, <3>3, <4>2
    <3> QED
      BY <3>1, <3>2, <3>3
  <2> QED
    BY <1>1, <1>2, <2>1, <2>2 DEF BinlptDone
<1> QED
  BY <1>1, <1>2, <1>8, <1>9 DEF PInv

\* BinLPT: a thread that finds nothing has executed all of its iterations.
LEMMA BinlptEndKeeps ==
  ASSUME Calm, PInv, NEW t \in Threads, BinlptEnd(t)
  PROVE  PInv'
<1> DEFINE l == at[t]
<1>1. /\ plan' = plan /\ taskmap' = taskmap /\ Loops' = Loops
      /\ \A m : N(m)' = N(m) /\ Iterations(m)' = Iterations(m)
  BY PlanStays DEF Next, Step
<1>2. /\ InLoop(t) /\ plan.sched = "binlpt" /\ Mine(t) = {}
      /\ away' = [away EXCEPT ![l] = @ \cup {t}]
      /\ opened' = opened /\ ntasks' = ntasks /\ loopStart' = loopStart
      /\ threadStart' = threadStart /\ at' = at /\ exec' = exec
  BY DEF BinlptEnd, TurnAway, shared
<1>3. /\ Types /\ BinlptDone /\ l \in Loops /\ l <= opened
      /\ ntasks = N(l) /\ N(l) \in Nat /\ threadStart[l][t] \in Nat
  BY <1>2, RightNumber, PlanFacts DEF PInv, Types
<1>4. /\ away' \in [Loops -> SUBSET Threads] /\ away'[l] = away[l] \cup {t}
      /\ \A m \in Loops : m # l => away'[m] = away[m]
  BY <1>2, <1>3 DEF Types
<1>5. \A i \in Iterations(l) : taskmap[l][i] = t => i < threadStart[l][t]
  BY <1>2, <1>3 DEF Mine, Iterations
<1>6. Types' /\ Ahead' /\ Globals'
  <2>1. Types'
    BY <1>1, <1>2, <1>3, <1>4 DEF Types
  <2>2. \A m \in Loops : m > opened => m # l
    BY <1>3 DEF Types, Loops
  <2>3. Ahead'
    BY <1>1, <1>2, <1>4, <2>2 DEF PInv, Ahead
  <2>4. Globals'
    <3>1. \A m \in Loops : away[m] = Threads => away'[m] = Threads
      BY <1>3, <1>4
    <3> QED
      BY <1>1, <1>2, <3>1 DEF PInv, Globals
  <2> QED
    BY <2>1, <2>3, <2>4
<1>7. BinlptDone'
  BY <1>1, <1>2, <1>3, <1>4, <1>5 DEF BinlptDone
<1> QED
  BY <1>1, <1>2, <1>6, <1>7 DEF PInv

(***************************************************************************)
(* HSS: the block starts at loop_start, is not empty, and ends no later    *)
(* than the loop.                                                          *)
(***************************************************************************)
LEMMA HssBlockKeeps ==
  ASSUME Calm, PInv, NEW t \in Threads, HssBlock(t)
  PROVE  PInv'
<1> DEFINE l  == at[t]
           lo == loopStart[l]
           Ends == {i + 1 : i \in {j \in lo .. ntasks - 1 : Fits(l, lo, j)}}
           hi == HssEndOf(l, lo)
<1>1. /\ plan' = plan /\ taskmap' = taskmap /\ Loops' = Loops
      /\ \A m : N(m)' = N(m) /\ Iterations(m)' = Iterations(m)
  BY PlanStays DEF Next, Step
<1>2. /\ InLoop(t) /\ plan.sched = "hss" /\ lo # ntasks
      /\ loopStart' = [loopStart EXCEPT ![l] = hi]
      /\ Execute(l, lo - plan.loops[l].start,
                    (IF lo < hi THEN hi ELSE lo + 1) - plan.loops[l].start)
      /\ opened' = opened /\ ntasks' = ntasks /\ threadStart' = threadStart
      /\ at' = at /\ away' = away
  BY DEF HssBlock
<1>3. /\ Types /\ HssDone /\ l \in Loops /\ l <= opened
      /\ ntasks = N(l) /\ N(l) \in Nat /\ lo \in Nat
  BY <1>2, RightNumber, PlanFacts DEF PInv, Types
<1>4. lo < ntasks /\ away[l] = {} /\ plan.loops[l].start = 0
  <2>1. lo <= ntasks /\ away[l] = {}
    BY <1>2, <1>3 DEF HssDone
  <2>2. plan.loops[l].start = 0
    BY <1>2, <1>3 DEF Calm, Types, Loops
  <2> QED
    BY <1>2, <1>3, <2>1, <2>2
<1>5. hi \in lo + 1 .. ntasks
  <2>1. hi = Least({ntasks} \cup Ends)
    BY <1>4 DEF HssEndOf
  <2>0. ntasks \in Nat /\ lo \in Nat /\ lo < ntasks
    BY <1>3, <1>4
  <2> HIDE DEF lo
  <2>2. Ends \subseteq lo + 1 .. ntasks
    BY <2>0
  <2> HIDE DEF Ends, hi
  <2>3. {ntasks} \cup Ends \in SUBSET Nat
    BY <2>0, <2>2
  <2>4. hi \in {ntasks} \cup Ends
    BY <2>1, <2>3, LeastIsLeast
  <2> QED
    BY <2>0, <2>2, <2>4
<1> HIDE DEF lo, hi
<1>6. /\ exec' = [m \in Loops |-> [i \in Iterations(m) |-> exec'[m][i]]]
      /\ \A i \in Iterations(l) : exec'[l][i] = IF lo <= i /\ i < hi THEN 1 ELSE exec[l][i]
      /\ \A m \in Loops : m # l => exec'[m] = exec[m]
  <2>1. Execute(l, lo, hi)
    BY <1>2, <1>3, <1>4, <1>5
  <2>2. ASSUME NEW i \in Iterations(l), lo <= i, i < hi PROVE exec[l][i] = 0
    <3>1. ~(i < loopStart[l])
      BY <1>3, <2>2 DEF Iterations, lo
    <3> QED
      BY <1>3, <3>1 DEF HssDone
  <2>3. lo \in Int /\ hi \in Int
    BY <1>3, <1>5
  <2> QED
    BY <1>1, <1>3, <2>1, <2>2, <2>3, ExecuteOnce
<1>7. /\ loopStart' \in [Loops -> Nat] /\ loopStart'[l] = hi
      /\ \A m \in Loops : m # l => loopStart'[m] = loopStart[m]
  <2>1. hi \in Nat
    BY <1>3, <1>5
  <2> QED
    BY <1>2, <1>3, <2>1 DEF Types
<1>8. Types' /\ Ahead' /\ Globals'
  <2>1. Types'
    BY <1>1, <1>2, <1>3, <1>6, <1>7 DEF Types
  <2>2. \A m \in Loops : m > opened => m # l
    BY <1>3 DEF Types, Loops
  <2>3. Ahead'
    BY <1>1, <1>2, <1>7, <2>2 DEF PInv, Ahead
  <2> QED
    BY <1>1, <1>2, <2>1, <2>3 DEF PInv, Globals
<1>9. HssDone'
  <2>1. ASSUME NEW m \in Loops
        PROVE  /\ loopStart'[m] <= N(m)
               /\ away[m] # {} => loopStart'[m] = N(m)
               /\ \A i \in Iterations(m) : exec'[m][i] = IF i < loopStart'[m] THEN 1 ELSE 0
    <3>1. CASE m # l
      BY <1>3, <1>6, <1>7, <3>1 DEF HssDone
    <3>2. CASE m = l
      <4>1. ASSUME NEW i \in Iterations(l) PROVE exec'[l][i] = IF i < hi THEN 1 ELSE 0
        <5>1. exec[l][i] = IF i < lo THEN 1 ELSE 0
          BY <1>3 DEF HssDone, lo
        <5>2. i \in Nat
          BY <1>3 DEF Iterations
        <5> QED
          BY <1>3, <1>5, <1>6, <5>1, <5>2
      <4> QED
        BY <1>3, <1>4, <1>5, <1>7, <3>2, <4>1
    <3> QED
      BY <3>1, <3>2
  <2> QED
    BY <1>1, <1>2, <2>1 DEF HssDone
<1> QED
  BY <1>1, <1>2, <1>8, <1>9 DEF PInv

\* HSS: a thread is turned away when loop_start has reached the end.
LEMMA HssEndKeeps ==
  ASSUME Calm, PInv, NEW t \in Threads, HssEnd(t)
  PROVE  PInv'
<1> DEFINE l == at[t]
<1>1. /\ plan' = plan /\ taskmap' = taskmap /\ Loops' = Loops
      /\ \A m : N(m)' = N(m) /\ Iterations(m)' = Iterations(m)
  BY PlanStays DEF Next, Step
<1>2. /\ InLoop(t) /\ plan.sched = "hss" /\ loopStart[l] = ntasks
      /\ away' = [away EXCEPT ![l] = @ \cup {t}]
      /\ opened' = opened /\ ntasks' = ntasks /\ loopStart' = loopStart
      /\ threadStart' = threadStart /\ at' = at /\ exec' = exec
  BY DEF HssEnd, TurnAway, shared
<1>3. /\ Types /\ HssDone /\ l \in Loops /\ l <= opened /\ ntasks = N(l)
  BY <1>2, RightNumber DEF PInv
<1>4. /\ away' \in [Loops -> SUBSET Threads] /\ away'[l] = away[l] \cup {t}
      /\ \A m \in Loops : m # l => away'[m] = away[m]
  BY <1>2, <1>3 DEF Types
<1>5. Types' /\ Ahead' /\ Globals'
  <2>1. Types'
    BY <1>1, <1>2, <1>3, <1>4 DEF Types
  <2>2. \A m \in Loops : m > opened => m # l
    BY <1>3 DEF Types, Loops
  <2>3. Ahead'
    BY <1>1, <1>2, <1>4, <2>2 DEF PInv, Ahead
  <2>4. \A m \in Loops : away[m] = Threads => away'[m] = Threads
    BY <1>3, <1>4
  <2>5. Globals'
    BY <1>1, <1>2, <2>4 DEF PInv, Globals
  <2> QED
    BY <2>1, <2>3, <2>5
<1>6. HssDone'
  BY <1>1, <1>2, <1>3, <1>4 DEF HssDone
<1> QED
  BY <1>1, <1>2, <1>5, <1>6 DEF PInv

-----------------------------------------------------------------------------
\* Every step keeps the invariant.
LEMMA StepInvariant ==
  ASSUME Calm, PInv, [Next]_vars
  PROVE  PInv'
<1>1. ASSUME NEW t \in Threads, Step(t) PROVE PInv'
  BY <1>1, EnterKeeps, BinlptBlockKeeps, BinlptEndKeeps, HssBlockKeeps, HssEndKeeps DEF Step
<1>2. CASE UNCHANGED vars
  <2>1. /\ plan' = plan /\ taskmap' = taskmap /\ Loops' = Loops
        /\ \A l : N(l)' = N(l) /\ Iterations(l)' = Iterations(l)
    BY PlanStays
  <2>2. /\ opened' = opened /\ ntasks' = ntasks /\ loopStart' = loopStart
        /\ threadStart' = threadStart /\ at' = at /\ away' = away /\ exec' = exec
    BY <1>2 DEF vars
  <2>3. Types' /\ Ahead' /\ Globals'
    BY <2>1, <2>2 DEF PInv, Types, Ahead, Globals
  <2>4. (plan.sched = "binlpt" => BinlptDone') /\ (plan.sched = "hss" => HssDone')
    BY <2>1, <2>2 DEF PInv, BinlptDone, HssDone
  <2> QED
    BY <2>1, <2>3, <2>4 DEF PInv
<1> QED
  BY <1>1, <1>2 DEF Next, Finished

(***************************************************************************)
(* Each iteration once.  gomp_iter_binlpt_next and gomp_iter_hss_next give *)
(* no iteration to two threads and lose none, whatever the weights and the *)
(* map are, if the loops that may overlap have equally many iterations and *)
(* HSS loops start at 0 (for other loops see AllWorkAssigned).             *)
(***************************************************************************)
THEOREM EachOnce ==
  ASSUME Calm
  PROVE  Spec => []EachIterationOnce
<1>1. Init => PInv
  BY InitInvariant
<1>2. PInv /\ [Next]_vars => PInv'
  BY StepInvariant
<1>3. PInv => EachIterationOnce
  <2> SUFFICES ASSUME PInv, NEW l \in Loops, NEW i \in Iterations(l)
               PROVE  /\ exec[l][i] <= 1
                      /\ away[l] = Threads => exec[l][i] = IF Taken(l, i) THEN 1 ELSE 0
    BY DEF EachIterationOnce
  <2>1. plan \in Plans /\ Types
    BY DEF PInv, Types
  <2>2. plan.sched \in {"binlpt", "hss"} /\ 0 \in Threads
    BY <2>1, PlanFacts
  <2>3. CASE plan.sched = "binlpt"
    BY <2>3 DEF PInv, BinlptDone, Taken
  <2>4. CASE plan.sched = "hss"
    <3>1. exec[l][i] = IF i < loopStart[l] THEN 1 ELSE 0
      BY <2>4 DEF PInv, HssDone
    <3>2. away[l] = Threads => loopStart[l] = N(l)
      BY <2>2, <2>4 DEF PInv, HssDone
    <3>3. i < N(l)
      BY <2>1, PlanFacts DEF Iterations
    <3> QED
      BY <2>4, <3>1, <3>2, <3>3 DEF Taken
  <2> QED
    BY <2>2, <2>3, <2>4
<1> QED
  BY <1>1, <1>2, <1>3, PTL DEF Spec

-----------------------------------------------------------------------------
(* The bounds, without the condition on the plans.                         *)

Sizes ==
  /\ ntasks \in Nat /\ wremaining \in [Loops -> 0 .. Wrap - 1]
  /\ \A l \in Loops :
       /\ DOMAIN taskmap[l] = Iterations(l)
       /\ \A t \in Threads : threadStart[l][t] <= N(l)
       /\ \A i \in Iterations(l) : exec[l][i] \in 0 .. 2

\* With nowait the number of iterations never grows from loop to loop.
LEMMA Shrinking ==
  ASSUME plan \in Plans, plan.nowait, NEW l \in Loops, NEW m \in Loops, l <= m
  PROVE  N(m) <= N(l)
<1> DEFINE Good(k) == N(k) <= N(l)
           Bad == {k \in l .. plan.len : ~Good(k)}
<1>1. l \in Nat \ {0} /\ plan.len \in Nat /\ m \in l .. plan.len
  BY PlanFacts DEF Loops
<1>2. /\ Bad \in SUBSET Nat /\ \A k \in l .. plan.len : k \in Bad \/ Good(k)
      /\ \A k \in Bad : k \in l .. plan.len /\ ~Good(k)
  <2> HIDE DEF Good
  <2> QED
    BY <1>1
<1> HIDE DEF Bad
<1> SUFFICES ASSUME Bad # {} PROVE FALSE
  BY <1>1, <1>2
<1>3. PICK k \in Bad : \A j \in Bad : k <= j
  BY <1>2, LeastIsLeast
<1>4. k \in l .. plan.len /\ ~(N(k) <= N(l))
  BY <1>2
<1>5. N(l) \in Nat /\ N(k) \in Nat
  BY <1>1, <1>4, PlanFacts DEF Loops
<1>6. k # l
  BY <1>4, <1>5
<1>7. k - 1 \in l .. plan.len /\ k - 1 \notin Bad /\ k \in 1 .. plan.len /\ 1 < k
  BY <1>1, <1>3, <1>4, <1>6
<1>8. N(k - 1) <= N(l) /\ N(k - 1) \in Nat
  BY <1>1, <1>2, <1>7, PlanFacts DEF Loops
<1>9. N(k) <= N(k - 1)
  BY <1>7, WeightedAssumption DEF N
<1> QED
  BY <1>4, <1>5, <1>8, <1>9

\* __ntasks is at most the number of iterations of a loop that a thread is in.
LEMMA NumberFits ==
  ASSUME Base, NEW t \in Threads, InLoop(t)
  PROVE  /\ at[t] \in Loops /\ at[t] <= opened /\ opened \in Loops
         /\ ntasks = N(opened) /\ ntasks \in Nat \ {0} /\ ntasks <= N(at[t])
<1>1. /\ opened \in 0 .. plan.len /\ at[t] \in 0 .. opened /\ plan \in Plans
      /\ plan.len \in Nat
  BY PlanFacts DEF Base, Types
<1>2. at[t] > 0 /\ t \notin away[at[t]]
  BY DEF InLoop
<1>3. at[t] \in Loops /\ opened \in Loops /\ at[t] <= opened /\ ntasks = N(opened)
  BY <1>1, <1>2 DEF Loops, Base, Globals
<1>4. ntasks \in Nat \ {0}
  BY <1>1, <1>3, PlanFacts
<1>5. CASE plan.nowait
  BY <1>1, <1>3, <1>4, <1>5, Shrinking
<1>6. CASE ~plan.nowait
  <2>1. ~(at[t] < opened)
    BY <1>2, <1>3, <1>6 DEF Base, Globals
  <2>2. at[t] = opened
    BY <1>1, <1>3, <2>1
  <2> QED
    BY <1>3, <1>4, <2>2
<1> QED
  BY <1>3, <1>4, <1>5, <1>6

\* A call in loop l leaves the other loops alone.
LEMMA BaseKept ==
  ASSUME Base, NEW l \in Loops, l <= opened,
         plan' = plan, Loops' = Loops,
         \A m : N(m)' = N(m) /\ Iterations(m)' = Iterations(m),
         opened' = opened, ntasks' = ntasks, at' = at,
         loopStart' \in [Loops -> Nat], threadStart' \in [Loops -> [Threads -> Nat]],
         away' \in [Loops -> SUBSET Threads], \A m \in Loops : away[m] \subseteq away'[m],
         exec' = [m \in Loops |-> [i \in Iterations(m) |-> exec'[m][i]]],
         \A m \in Loops : m # l => /\ loopStart'[m] = loopStart[m]
                                   /\ threadStart'[m] = threadStart[m]
                                   /\ away'[m] = away[m]
  PROVE  Base'
<1>1. Types'
  BY DEF Base, Types
<1>2. Ahead'
  <2>1. \A m \in Loops : m > opened => m # l
    BY DEF Base, Types, Loops
  <2> QED
    BY <2>1, SMTT(20) DEF Base, Ahead
<1>3. Globals'
  <2>1. \A m \in Loops : away[m] = Threads => away'[m] = Threads
    OBVIOUS
  <2> QED
    BY <2>1 DEF Base, Globals
<1> QED
  BY <1>1, <1>2, <1>3 DEF Base

\* What the execution of a block does to the counters.
LEMMA ExecuteCounts ==
  ASSUME Types, Sizes, NEW l \in Loops, NEW lo \in Int, NEW hi \in Int, Execute(l, lo, hi)
  PROVE  /\ exec' = [m \in Loops |-> [i \in Iterations(m) |-> exec'[m][i]]]
         /\ \A m \in Loops : \A i \in Iterations(m) : exec'[m][i] \in 0 .. 2
<1> DEFINE new == [i \in Iterations(l) |->
                     IF lo <= i /\ i < hi THEN OneMore(exec[l][i]) ELSE exec[l][i]]
<1>1. exec' = [exec EXCEPT ![l] = new]
  BY DEF Execute
<1>2. exec'[l] = new /\ \A m \in Loops : m # l => exec'[m] = exec[m]
  BY <1>1 DEF Types
<1>3. \A m \in Loops : exec[m] = [i \in Iterations(m) |-> exec[m][i]]
  BY DEF Types
<1>4. \A m \in Loops : exec'[m] = [i \in Iterations(m) |-> exec'[m][i]]
  BY <1>2, <1>3
<1>5. exec' = [m \in Loops |-> exec'[m]]
  BY <1>1 DEF Types
<1>6. exec' = [m \in Loops |-> [i \in Iterations(m) |-> exec'[m][i]]]
  BY <1>4, <1>5
<1>7. \A i \in Iterations(l) : new[i] \in 0 .. 2
  BY DEF OneMore, Sizes
<1>8. \A m \in Loops : \A i \in Iterations(m) : exec'[m][i] \in 0 .. 2
  BY <1>2, <1>7 DEF Sizes
<1> QED
  BY <1>6, <1>8

LEMMA InitSized == Init => Base /\ Sizes
<1> SUFFICES ASSUME Init PROVE Base /\ Sizes
  OBVIOUS
<1>1. plan \in Plans /\ opened = 0
  BY DEF Init
<1>2. Types
  BY <1>1, PlanFacts DEF Init, Types, Loops
<1>3. Ahead /\ Globals
  BY <1>1, PlanFacts DEF Init, Ahead, Globals, Loops
<1>4. \A l \in Loops : DOMAIN taskmap[l] = Iterations(l)
  <2>1. ASSUME NEW l \in Loops PROVE DOMAIN BinlptMap(l) = Iterations(l)
    <3>1. DOMAIN TaskMap(Task(l), N(l), plan.maxThreads) = Iterations(l)
      BY DEF TaskMap, Iterations
    <3>2. plan.loops[l].map \in [{} -> Nat] \cup [0 .. N(l) - 1 -> Nat]
      BY <1>1, WeightedAssumption DEF Loops, N
    <3> QED
      BY <3>1, <3>2 DEF BinlptMap, MapIsMade, Iterations
  <2> QED
    BY <2>1 DEF Init
<1>5. 0 \in 0 .. Wrap - 1
  BY WeightedAssumption
<1>6. wremaining \in [Loops -> 0 .. Wrap - 1]
  BY <1>5 DEF Init
<1>7. \A l \in Loops : \A t \in Threads : threadStart[l][t] <= N(l)
  BY <1>1, PlanFacts DEF Init
<1>8. \A l \in Loops : \A i \in Iterations(l) : exec[l][i] \in 0 .. 2
  BY DEF Init
<1>9. ntasks \in Nat
  BY DEF Init
<1> QED
  BY <1>2, <1>3, <1>4, <1>6, <1>7, <1>8, <1>9 DEF Base, Sizes

\* The weights of the loops of the plan.
LEMMA WeightFacts ==
  ASSUME plan \in Plans, NEW l \in Loops
  PROVE  /\ Task(l) \in [0 .. N(l) - 1 -> Nat] /\ N(l) \in Nat \ {0}
         /\ \A i \in 0 .. N(l) : Sum(Task(l), N(l))[i] \in Nat
         /\ \A i \in 1 .. N(l) :
              Sum(Task(l), N(l))[i] = Sum(Task(l), N(l))[i - 1] + Task(l)[i - 1]
<1>1. Task(l) \in [0 .. N(l) - 1 -> Nat] /\ N(l) \in Nat \ {0}
  BY WeightedAssumption DEF Loops, Task, N
<1> QED
  BY <1>1, SumSteps

LEMMA EnterSized ==
  ASSUME Base, Sizes, NEW t \in Threads, Enter(t)
  PROVE  Base' /\ Sizes'
<1> DEFINE l == at[t] + 1
<1>1. /\ plan' = plan /\ taskmap' = taskmap /\ Loops' = Loops
      /\ \A m : N(m)' = N(m) /\ Iterations(m)' = Iterations(m)
  BY PlanStays DEF Next, Step
<1>2. /\ Base' /\ loopStart' = loopStart /\ threadStart' = threadStart /\ exec' = exec
      /\ l \in Loops
  BY EnterBase DEF Enter, MayEnter
<1>3. wremaining' \in [Loops -> 0 .. Wrap - 1]
  <2> DEFINE s == Sum(Task(l), N(l))[N(l)]
  <2>1. s \in Nat
    BY <1>2, WeightFacts DEF Base, Types
  <2>2. wremaining' = wremaining \/ wremaining' = [wremaining EXCEPT ![l] = s % Wrap]
    BY DEF Enter, InitLoop, shared
  <2> HIDE DEF s
  <2>3. s % Wrap \in 0 .. Wrap - 1
    BY <2>1, WeightedAssumption
  <2> QED
    BY <2>2, <2>3 DEF Sizes
<1>4. ntasks' \in Nat
  <2>1. N(l) \in Nat
    BY <1>2, WeightFacts DEF Base, Types
  <2> QED
    BY <2>1 DEF Enter, InitLoop, Sizes
<1> QED
  BY <1>1, <1>2, <1>3, <1>4 DEF Sizes

LEMMA BinlptBlockSized ==
  ASSUME Base, Sizes, NEW t \in Threads, BinlptBlock(t)
  PROVE  Base' /\ Sizes'
<1> DEFINE l   == at[t]
           lo  == Least(Mine(t))
           Others == {i \in lo + 1 .. ntasks - 1 : taskmap[l][i] # t}
           hi  == Least({ntasks} \cup Others)
<1>1. /\ plan' = plan /\ taskmap' = taskmap /\ Loops' = Loops
      /\ \A m : N(m)' = N(m) /\ Iterations(m)' = Iterations(m)
  BY PlanStays DEF Next, Step
<1>2. /\ InLoop(t) /\ Mine(t) # {}
      /\ threadStart' = [threadStart EXCEPT ![l][t] = hi]
      /\ Execute(l, lo, hi)
      /\ opened' = opened /\ ntasks' = ntasks /\ loopStart' = loopStart
      /\ at' = at /\ away' = away /\ wremaining' = wremaining
  BY DEF BinlptBlock
<1>3. /\ Types /\ l \in Loops /\ l <= opened
      /\ ntasks \in Nat /\ ntasks <= N(l) /\ N(l) \in Nat /\ threadStart[l][t] \in Nat
  BY <1>2, NumberFits, PlanFacts DEF Base, Types
<1>4. lo \in Nat
  <2>1. Mine(t) \in SUBSET Nat
    BY <1>3 DEF Mine
  <2>2. lo \in Mine(t)
    BY <1>2, <2>1, LeastIsLeast
  <2> QED
    BY <2>1, <2>2
<1> HIDE DEF lo
<1>5. hi \in Nat /\ hi <= N(l)
  <2> DEFINE S == {ntasks} \cup Others
  <2>1. S \in SUBSET Nat /\ S # {}
    BY <1>3, <1>4
  <2>2. ntasks \in S
    OBVIOUS
  <2> HIDE DEF S
  <2>3. Least(S) \in S /\ Least(S) <= ntasks
    BY <2>1, <2>2, LeastIsLeast
  <2>4. Least(S) \in Nat
    BY <2>1, <2>3
  <2>5. ntasks \in Nat /\ N(l) \in Nat /\ ntasks <= N(l)
    BY <1>3
  <2> HIDE DEF l
  <2>6. Least(S) <= N(l)
    BY <2>3, <2>4, <2>5
  <2> QED
    BY <2>4, <2>6 DEF S
<1> HIDE DEF hi, Others
<1>6. /\ exec' = [m \in Loops |-> [i \in Iterations(m) |-> exec'[m][i]]]
      /\ \A m \in Loops : \A i \in Iterations(m) : exec'[m][i] \in 0 .. 2
  BY <1>2, <1>3, <1>4, <1>5, ExecuteCounts
<1>7. /\ threadStart' \in [Loops -> [Threads -> Nat]]
      /\ \A m \in Loops : m # l => threadStart'[m] = threadStart[m]
      /\ \A m \in Loops, u \in Threads : threadStart'[m][u] <= N(m)
  BY <1>2, <1>3, <1>5 DEF Types, Sizes
<1>8. Base'
  BY <1>1, <1>2, <1>3, <1>6, <1>7, BaseKept DEF Types
<1> QED
  BY <1>1, <1>2, <1>6, <1>7, <1>8 DEF Sizes

LEMMA EndSized ==
  ASSUME Base, Sizes, NEW t \in Threads, BinlptEnd(t) \/ HssEnd(t)
  PROVE  Base' /\ Sizes'
<1> DEFINE l == at[t]
<1>1. /\ plan' = plan /\ taskmap' = taskmap /\ Loops' = Loops
      /\ \A m : N(m)' = N(m) /\ Iterations(m)' = Iterations(m)
  BY PlanStays DEF Next, Step
<1>2. /\ InLoop(t) /\ away' = [away EXCEPT ![l] = @ \cup {t}]
      /\ opened' = opened /\ ntasks' = ntasks /\ loopStart' = loopStart
      /\ threadStart' = threadStart /\ wremaining' = wremaining /\ at' = at /\ exec' = exec
  BY DEF BinlptEnd, HssEnd, TurnAway, shared
<1>3. Types /\ l \in Loops /\ l <= opened
  BY <1>2, NumberFits DEF Base
<1>4. /\ away' \in [Loops -> SUBSET Threads] /\ \A m \in Loops : away[m] \subseteq away'[m]
      /\ \A m \in Loops : m # l => away'[m] = away[m]
  BY <1>2, <1>3 DEF Types
<1>5. Base'
  BY <1>1, <1>2, <1>3, <1>4, BaseKept DEF Types
<1> QED
  BY <1>1, <1>2, <1>5 DEF Sizes

\* HSS: where the block ends, whatever the weights are.
LEMMA EndOfBlock ==
  ASSUME NEW l, NEW lo \in Nat, ntasks \in Nat
  PROVE  /\ HssEndOf(l, lo) \in Nat
         /\ lo < ntasks => HssEndOf(l, lo) \in lo + 1 .. ntasks
         /\ ~(lo < ntasks) => HssEndOf(l, lo) = lo
         /\ \A i \in lo .. ntasks - 1 : i + 1 < HssEndOf(l, lo) => ~Fits(l, lo, i)
<1> DEFINE Ends == {i + 1 : i \in {j \in lo .. ntasks - 1 : Fits(l, lo, j)}}
           hi == HssEndOf(l, lo)
<1>1. CASE ~(lo < ntasks)
  <2>1. hi = lo
    BY <1>1 DEF HssEndOf
  <2> HIDE DEF hi
  <2>2. \A i \in lo .. ntasks - 1 : FALSE
    BY <1>1
  <2> QED
    BY <1>1, <2>1, <2>2 DEF hi
<1>2. CASE lo < ntasks
  <2>1. hi = Least({ntasks} \cup Ends)
    BY <1>2 DEF HssEndOf
  <2>2. /\ Ends \subseteq lo + 1 .. ntasks
        /\ \A i \in lo .. ntasks - 1 : Fits(l, lo, i) => i + 1 \in Ends
    OBVIOUS
  <2> HIDE DEF Ends, hi
  <2>3. {ntasks} \cup Ends \in SUBSET Nat
    BY <2>2
  <2>4. hi \in {ntasks} \cup Ends /\ \A y \in {ntasks} \cup Ends : hi <= y
    BY <2>1, <2>3, LeastIsLeast
  <2>5. hi \in lo + 1 .. ntasks
    BY <1>2, <2>2, <2>4
  <2>6. \A i \in lo .. ntasks - 1 : i + 1 < hi => ~Fits(l, lo, i)
    <3> SUFFICES ASSUME NEW i \in lo .. ntasks - 1, i + 1 < hi, Fits(l, lo, i) PROVE FALSE
      OBVIOUS
    <3>1. hi <= i + 1
      BY <2>2, <2>4
    <3> QED
      BY <2>5, <3>1
  <2> QED
    BY <1>2, <2>5, <2>6 DEF hi
<1> QED
  BY <1>1, <1>2

LEMMA HssBlockSized ==
  ASSUME Base, Sizes, NEW t \in Threads, HssBlock(t)
  PROVE  Base' /\ Sizes'
<1> DEFINE l  == at[t]
           lo == loopStart[l]
           hi == HssEndOf(l, lo)
           first == plan.loops[l].start
           end == (IF lo < hi THEN hi ELSE lo + 1) - first
<1>1. /\ plan' = plan /\ taskmap' = taskmap /\ Loops' = Loops
      /\ \A m : N(m)' = N(m) /\ Iterations(m)' = Iterations(m)
  BY PlanStays DEF Next, Step
<1>2. /\ InLoop(t)
      /\ loopStart' = [loopStart EXCEPT ![l] = hi]
      /\ wremaining' = [wremaining EXCEPT ![l] = IF lo < hi THEN (@ - Weight(lo, hi)) % Wrap ELSE @]
      /\ Execute(l, lo - first, end)
      /\ opened' = opened /\ ntasks' = ntasks /\ threadStart' = threadStart
      /\ at' = at /\ away' = away
  BY DEF HssBlock
<1>3. /\ Types /\ l \in Loops /\ l <= opened /\ opened \in Loops
      /\ ntasks = N(opened) /\ ntasks \in Nat /\ lo \in Nat /\ first \in Nat
  BY <1>2, NumberFits, PlanFacts DEF Base, Types
<1>4. hi \in Nat /\ (lo < hi => lo \in 0 .. ntasks /\ hi \in 0 .. ntasks)
  <2> HIDE DEF lo
  <2> QED
    BY <1>3, EndOfBlock
<1> HIDE DEF hi
<1>5. lo - first \in Int /\ end \in Int
  BY <1>3, <1>4
<1>6. /\ exec' = [m \in Loops |-> [i \in Iterations(m) |-> exec'[m][i]]]
      /\ \A m \in Loops : \A i \in Iterations(m) : exec'[m][i] \in 0 .. 2
  <2> HIDE DEF lo, first, end
  <2> QED
    BY <1>2, <1>3, <1>5, ExecuteCounts
<1>7. loopStart' \in [Loops -> Nat] /\ \A m \in Loops : m # l => loopStart'[m] = loopStart[m]
  BY <1>2, <1>3, <1>4 DEF Types
<1>8. Base'
  BY <1>1, <1>2, <1>3, <1>6, <1>7, BaseKept DEF Types
<1>9. wremaining' \in [Loops -> 0 .. Wrap - 1]
  <2> DEFINE w == (wremaining[l] - Weight(lo, hi)) % Wrap
  <2>1. lo < hi => Weight(lo, hi) \in Int
    <3>1. \A i \in 0 .. ntasks : Sum(Task(opened), ntasks)[i] \in Nat
      BY <1>3, WeightFacts DEF Types
    <3> QED
      BY <1>4, <3>1 DEF Weight
  <2>2. wremaining[l] \in 0 .. Wrap - 1 /\ Wrap \in Nat \ {0}
    BY <1>3, WeightedAssumption DEF Sizes
  <2>3. lo < hi => w \in 0 .. Wrap - 1
    BY <2>1, <2>2
  <2>4. /\ lo < hi => wremaining' = [wremaining EXCEPT ![l] = w]
        /\ ~(lo < hi) => wremaining' = [wremaining EXCEPT ![l] = wremaining[l]]
    BY <1>2
  <2> HIDE DEF w, lo
  <2> QED
    BY <2>2, <2>3, <2>4 DEF Sizes
<1> QED
  BY <1>1, <1>2, <1>6, <1>8, <1>9 DEF Sizes

LEMMA StepSized ==
  ASSUME Base, Sizes, [Next]_vars
  PROVE  Base' /\ Sizes'
<1>1. ASSUME NEW t \in Threads, Step(t) PROVE Base' /\ Sizes'
  BY <1>1, EnterSized, BinlptBlockSized, EndSized, HssBlockSized DEF Step
<1>2. CASE UNCHANGED vars
  <2>1. /\ plan' = plan /\ taskmap' = taskmap /\ Loops' = Loops
        /\ \A l : N(l)' = N(l) /\ Iterations(l)' = Iterations(l)
    BY PlanStays
  <2>2. /\ opened' = opened /\ ntasks' = ntasks /\ loopStart' = loopStart
        /\ threadStart' = threadStart /\ wremaining' = wremaining
        /\ at' = at /\ away' = away /\ exec' = exec
    BY <1>2 DEF vars
  <2>3. Base'
    BY <2>1, <2>2 DEF Base, Types, Ahead, Globals
  <2>4. Sizes'
    BY <2>1, <2>2 DEF Sizes
  <2> QED
    BY <2>3, <2>4
<1> QED
  BY <1>1, <1>2 DEF Next, Finished

(***************************************************************************)
(* Whatever the plan is: thread_start never passes the end of its loop,    *)
(* although the search for its value ends at __ntasks, which may be of     *)
(* another loop, and wremaining never leaves the range of an unsigned.     *)
(***************************************************************************)
THEOREM WeightedTypes == Spec => []TypeOK
<1>1. Base /\ Sizes => TypeOK
  <2> SUFFICES ASSUME Base, Sizes PROVE TypeOK
    OBVIOUS
  <2>1. plan \in Plans /\ Types
    BY DEF Base, Types
  <2>2. opened \in 0 .. plan.len /\ ntasks \in Nat
    BY <2>1 DEF Types, Sizes
  <2>3. at \in [Threads -> 0 .. plan.len]
    <3>1. \A t \in Threads : at[t] \in 0 .. plan.len
      BY <2>1, <2>2, PlanFacts DEF Types
    <3> QED
      BY <2>1, <3>1 DEF Types
  <2>4. ASSUME NEW l \in Loops PROVE threadStart[l] \in [Threads -> 0 .. N(l)]
    <3>1. \A t \in Threads : threadStart[l][t] \in 0 .. N(l)
      BY <2>1, PlanFacts DEF Types, Sizes
    <3> QED
      BY <2>1, <3>1 DEF Types
  <2>5. ASSUME NEW l \in Loops PROVE exec[l] \in [Iterations(l) -> 0 .. 2]
    <3>1. exec[l] = [i \in Iterations(l) |-> exec[l][i]]
      BY <2>1 DEF Types
    <3> QED
      BY <3>1 DEF Sizes
  <2> QED
    BY <2>1, <2>2, <2>3, <2>4, <2>5 DEF TypeOK, Types, Sizes
<1> QED
  BY <1>1, InitSized, StepSized, PTL DEF Spec

-----------------------------------------------------------------------------
(* How heavy a block of HSS is.                                            *)

\* The weight of a block grows by that of its last iteration.
LEMMA LastWeight ==
  ASSUME plan \in Plans, opened \in Loops, ntasks = N(opened),
         NEW lo \in 0 .. ntasks, NEW i \in 1 .. ntasks
  PROVE  /\ Weight(lo, i) \in Int /\ Weight(lo, i - 1) \in Int
         /\ Weight(lo, i) = Weight(lo, i - 1) + Task(opened)[i - 1]
<1> DEFINE s == Sum(Task(opened), ntasks)
<1>1. /\ s[lo] \in Nat /\ s[i] \in Nat /\ s[i - 1] \in Nat
      /\ Task(opened)[i - 1] \in Nat /\ s[i] = s[i - 1] + Task(opened)[i - 1]
  <2>1. /\ Task(opened) \in [0 .. ntasks - 1 -> Nat] /\ ntasks \in Nat \ {0}
        /\ \A k \in 0 .. ntasks : s[k] \in Nat
        /\ \A k \in 1 .. ntasks : s[k] = s[k - 1] + Task(opened)[k - 1]
    BY WeightFacts
  <2> HIDE DEF s
  <2> QED
    BY <2>1, SMTT(20)
<1>2. \A k : Weight(lo, k) = s[k] - s[lo]
  BY DEF Weight
<1> HIDE DEF s
<1> QED
  BY <1>1, <1>2

LEMMA HeaviestIsHeaviest ==
  ASSUME plan \in Plans, NEW l \in Loops, NEW i \in Iterations(l)
  PROVE  Heaviest(l) \in Nat /\ Task(l)[i] \in Nat /\ Task(l)[i] <= Heaviest(l)
<1> DEFINE W == {Task(l)[j] : j \in Iterations(l)}
<1>1. Task(l) \in [0 .. N(l) - 1 -> Nat] /\ N(l) \in Nat \ {0}
  BY WeightFacts
<1>2. \E w \in W : \A j \in Iterations(l) : Task(l)[j] <= w
  BY <1>1, HeaviestExists DEF Iterations
<1>3. Heaviest(l) \in W /\ \A j \in Iterations(l) : Task(l)[j] <= Heaviest(l)
  BY <1>2 DEF Heaviest
<1>4. W \subseteq Nat /\ Task(l)[i] \in W
  BY <1>1 DEF Iterations
<1> QED
  BY <1>3, <1>4

\* Where an HSS block of more than one iteration ends, it had to.
LEMMA BlockIsFit ==
  ASSUME Base, Sizes, NEW t \in Threads, InLoop(t),
         NEW lo \in Nat, NEW hi, hi = HssEndOf(at[t], lo), hi > lo + 1
  PROVE  2 * (Weight(lo, hi) - ChunkSize(at[t])) <= Heaviest(opened)
<1> DEFINE l == at[t]
           C == ChunkSize(l)
           w1 == Weight(lo, hi - 1)
           w2 == Weight(lo, hi)
<1>1. /\ plan \in Plans /\ l \in Loops /\ opened \in Loops
      /\ ntasks = N(opened) /\ ntasks \in Nat
  BY NumberFits DEF Base, Types
<1>2. lo < ntasks
  BY <1>1, EndOfBlock
<1>3. hi \in lo + 2 .. ntasks
  BY <1>1, <1>2, EndOfBlock
<1>4. ~Fits(l, lo, hi - 2)
  <2>1. hi - 2 \in lo .. ntasks - 1 /\ (hi - 2) + 1 < hi
    BY <1>1, <1>3
  <2> QED
    BY <1>1, <2>1, EndOfBlock
<1>5. C \in Int
  <2>1. wremaining[l] \in Nat /\ P \in Nat \ {0}
    BY <1>1, WeightedAssumption DEF Sizes
  <2>2. 2 * wremaining[l] \in Nat /\ 3 * P \in Nat \ {0}
    BY <2>1
  <2>3. Ceil(2 * wremaining[l], 3 * P) \in Int
    BY <2>2 DEF Ceil
  <2> QED
    BY <2>3 DEF ChunkSize
<1>6. ~(w2 > C /\ (w1 >= C \/ w2 - C > C - w1))
  <2>1. (hi - 2) + 1 = hi - 1 /\ (hi - 2) + 2 = hi /\ hi - 1 < ntasks
    BY <1>1, <1>3
  <2> HIDE DEF C
  <2> QED
    BY <1>4, <2>1 DEF Fits, C
<1>7. /\ w1 \in Int /\ w2 \in Int /\ w2 = w1 + Task(opened)[hi - 1]
  <2>1. lo \in 0 .. ntasks /\ hi \in 1 .. ntasks
    BY <1>1, <1>2, <1>3
  <2> QED
    BY <1>1, <2>1, LastWeight
<1>8. Heaviest(opened) \in Nat /\ Task(opened)[hi - 1] \in Nat
      /\ Task(opened)[hi - 1] <= Heaviest(opened)
  <2>1. hi - 1 \in Iterations(opened)
    BY <1>1, <1>3 DEF Iterations
  <2> QED
    BY <1>1, <2>1, HeaviestIsHeaviest
<1> DEFINE last == Task(opened)[hi - 1]
           most == Heaviest(opened)
<1> HIDE DEF C, w1, w2, last, most
<1>9. 2 * (w2 - C) <= most
  <2>1. w1 \in Int /\ w2 \in Int /\ C \in Int /\ last \in Nat /\ most \in Nat
        /\ w2 = w1 + last /\ last <= most
    BY <1>5, <1>7, <1>8 DEF last, most
  <2> QED
    BY <1>6, <2>1
<1> QED
  BY <1>9 DEF C, w2, most

(***************************************************************************)
(* An HSS block of more than one iteration exceeds its share of what       *)
(* remains by at most half an iteration, in every loop, also when          *)
(* wremaining has wrapped around, and for a thread of an earlier loop.     *)
(***************************************************************************)
THEOREM BlocksFitTheirShare == Spec => BlockFitsShare
<1> DEFINE Fit == \A l \in Loops :
              loopStart'[l] > loopStart[l] + 1 =>
                2 * (Weight(loopStart[l], loopStart'[l]) - ChunkSize(l)) <= Heaviest(opened)
<1>1. ASSUME Base, Sizes, [Next]_vars PROVE Fit
  <2>0. \A l \in Loops : loopStart[l] \in Nat
    BY <1>1 DEF Base, Types
  <2>1. CASE loopStart' = loopStart
    <3>1. \A l \in Loops : ~(loopStart'[l] > loopStart[l] + 1)
      BY <2>0, <2>1
    <3> QED
      BY <3>1
  <2>2. ASSUME NEW t \in Threads, HssBlock(t) PROVE Fit
    <3> DEFINE l  == at[t]
               hi == HssEndOf(l, loopStart[l])
    <3>1. InLoop(t) /\ loopStart' = [loopStart EXCEPT ![l] = hi]
      BY <2>2 DEF HssBlock
    <3>2. l \in Loops /\ loopStart[l] \in Nat
      BY <1>1, <2>0, <3>1, NumberFits
    <3>3. loopStart'[l] = hi /\ \A m \in Loops : m # l => loopStart'[m] = loopStart[m]
      BY <1>1, <3>1, <3>2 DEF Base, Types
    <3>4. \A m \in Loops : m # l => ~(loopStart'[m] > loopStart[m] + 1)
      BY <2>0, <3>3
    <3>5. hi > loopStart[l] + 1 =>
            2 * (Weight(loopStart[l], hi) - ChunkSize(l)) <= Heaviest(opened)
      BY <1>1, <3>1, <3>2, BlockIsFit
    <3> HIDE DEF l, hi
    <3> QED
      BY <3>3, <3>4, <3>5
  <2>3. ASSUME NEW t \in Threads, Step(t), ~HssBlock(t) PROVE loopStart' = loopStart
    BY <1>1, <2>3, EnterBase DEF Step, BinlptBlock, BinlptEnd, HssEnd, shared
  <2>4. CASE UNCHANGED vars
    BY <2>1, <2>4 DEF vars
  <2> QED
    BY <1>1, <2>1, <2>2, <2>3, <2>4 DEF Next, Finished
<1> QED
  BY <1>1, InitSized, StepSized, PTL DEF Spec, BlockFitsShare

-----------------------------------------------------------------------------
(* The maps of binlpt_balance, and what comes of them.                     *)

\* The map a loop may have already gives iterations to threads of the team only.
OwnMaps ==
  \A p \in Plans : \A l \in 1 .. p.len :
    \A i \in DOMAIN p.loops[l].map : p.loops[l].map[i] \in Threads

\* The maps in the work shares give iterations to threads of the team only.
MapsFitTeam ==
  /\ plan \in Plans
  /\ plan.sched = "binlpt" => \A l \in Loops : \A i \in Iterations(l) : taskmap[l][i] \in Threads

\* When a team is through with a loop, every iteration has been executed once.
LoopsAreComplete ==
  \A l \in Loops : away[l] = Threads => \A i \in Iterations(l) : exec[l][i] = 1

(***************************************************************************)
(* A team of at least omp_get_max_threads threads, the usual one, executes *)
(* every iteration of every BinLPT and HSS loop exactly once, if the maps  *)
(* it does not make itself (from the state file, or from an execution with *)
(* another number of threads) fit it: nothing is given to a thread that it *)
(* does not have.  The maps that the tuner writes do not fit: they number  *)
(* the threads from 1.                                                     *)
(***************************************************************************)
THEOREM FullTeamsComplete ==
  ASSUME Calm, OwnMaps, \A p \in Plans : p.maxThreads <= P
  PROVE  Spec => []LoopsAreComplete
<1>1. ASSUME Init PROVE MapsFitTeam
  <2>1. plan \in Plans /\ plan.maxThreads \in Nat \ {0} /\ plan.maxThreads <= P /\ P \in Nat
    BY <1>1, WeightedAssumption DEF Init
  <2>2. ASSUME plan.sched = "binlpt", NEW l \in Loops, NEW i \in Iterations(l)
        PROVE  taskmap[l][i] \in Threads
    <3>1. taskmap[l] = BinlptMap(l)
      BY <1>1, <2>2 DEF Init
    <3>2. CASE MapIsMade(l)
      <4>1. Task(l) \in [0 .. N(l) - 1 -> Nat] /\ N(l) \in Nat
        BY <2>1, WeightFacts
      <4>2. TaskMap(Task(l), N(l), plan.maxThreads) \in
              [0 .. N(l) - 1 -> 0 .. plan.maxThreads - 1]
        BY <2>1, <4>1, MapReachesThreads, Zenon
      <4>3. taskmap[l][i] \in 0 .. plan.maxThreads - 1
        BY <3>1, <3>2, <4>2 DEF BinlptMap, Iterations
      <4> QED
        BY <2>1, <4>3 DEF Threads
    <3>3. CASE ~MapIsMade(l)
      <4>1. plan.loops[l].map \in [{} -> Nat] \cup [0 .. N(l) - 1 -> Nat]
        BY <2>1, WeightedAssumption DEF Loops, N
      <4>2. i \in DOMAIN plan.loops[l].map /\ taskmap[l][i] = plan.loops[l].map[i]
        BY <3>1, <3>3, <4>1 DEF BinlptMap, MapIsMade, Iterations
      <4> QED
        BY <2>1, <4>2 DEF OwnMaps, Loops
    <3> QED
      BY <3>2, <3>3
  <2> QED
    BY <2>1, <2>2 DEF MapsFitTeam
<1>2. ASSUME MapsFitTeam, [Next]_vars PROVE MapsFitTeam'
  BY <1>2, PlanStays DEF MapsFitTeam
<1>3. ASSUME PInv, MapsFitTeam PROVE LoopsAreComplete
  <2> SUFFICES ASSUME NEW l \in Loops, away[l] = Threads, NEW i \in Iterations(l)
               PROVE  exec[l][i] = 1
    BY DEF LoopsAreComplete
  <2>1. plan \in Plans /\ plan.sched \in {"binlpt", "hss"} /\ 0 \in Threads
    BY <1>3, PlanFacts DEF MapsFitTeam
  <2>2. CASE plan.sched = "binlpt"
    <3>1. taskmap[l][i] \in Threads
      BY <1>3, <2>2 DEF MapsFitTeam
    <3> QED
      BY <1>3, <2>2, <3>1 DEF PInv, BinlptDone
  <2>3. CASE plan.sched = "hss"
    <3>1. loopStart[l] = N(l) /\ exec[l][i] = IF i < loopStart[l] THEN 1 ELSE 0
      BY <1>3, <2>1, <2>3 DEF PInv, HssDone
    <3>2. i < N(l)
      BY <2>1, PlanFacts DEF Iterations
    <3> QED
      BY <3>1, <3>2
  <2> QED
    BY <2>1, <2>2, <2>3
<1> QED
  BY <1>1, <1>2, <1>3, InitInvariant, StepInvariant, PTL DEF Spec

(***************************************************************************)
(* HSS keeps the promise of the comment in loop.c that a call returns      *)
(* false only when all work is assigned, if loops start at 0 and those     *)
(* that may overlap agree in length.  (A BinLPT call returns false when    *)
(* the map has nothing more for this thread.)                              *)
(***************************************************************************)
THEOREM HssAssignsAll ==
  ASSUME Calm, \A p \in Plans : p.sched = "hss"
  PROVE  Spec => []AllWorkAssigned
<1>1. ASSUME PInv PROVE AllWorkAssigned
  <2> SUFFICES ASSUME NEW l \in Loops, away[l] # {}, NEW i \in Iterations(l)
               PROVE  exec[l][i] > 0
    BY DEF AllWorkAssigned
  <2>1. plan \in Plans /\ plan.sched = "hss"
    BY <1>1 DEF PInv, Types
  <2>2. loopStart[l] = N(l) /\ exec[l][i] = IF i < loopStart[l] THEN 1 ELSE 0
    BY <1>1, <2>1 DEF PInv, HssDone
  <2>3. i < N(l)
    BY <2>1, PlanFacts DEF Iterations
  <2> QED
    BY <2>2, <2>3
<1> QED
  BY <1>1, InitInvariant, StepInvariant, PTL DEF Spec

\* A map that bo_binlpt_load_loop makes is the one of the loop's workload.
MapsAreMade ==
  /\ plan \in Plans
  /\ plan.sched = "binlpt" =>
       \A l \in Loops : MapIsMade(l) => taskmap[l] = TaskMap(Task(l), N(l), plan.maxThreads)

(***************************************************************************)
(* Graham's bound for every workload and every number of threads: a map    *)
(* that binlpt_balance makes (chunks of compute_chunks, sorted by sort, dealt from *)
(* the heaviest to the thread least loaded so far) keeps no thread longer  *)
(* busy than 4/3 - 1/(3 m) of what the busiest thread has in any other     *)
(* distribution of the same 2 m chunks.                                    *)
(***************************************************************************)
THEOREM MapsAreNearBest == Spec => []MapNearBest
<1>1. ASSUME Init PROVE MapsAreMade
  BY <1>1 DEF Init, MapsAreMade, BinlptMap
<1>2. ASSUME MapsAreMade, [Next]_vars PROVE MapsAreMade'
  BY <1>2, PlanStays DEF MapsAreMade, Task, MapIsMade
<1>3. ASSUME MapsAreMade PROVE MapNearBest
  <2> DEFINE m == plan.maxThreads
             c == 2 * m
             Team == 0 .. m - 1
  <2> SUFFICES ASSUME plan.sched = "binlpt", NEW l \in Loops, MapIsMade(l),
                      NEW best \in [0 .. c - 1 -> Team], NEW t \in Team
               PROVE  \E u \in Team :
                        3 * m * Part(Task(l), taskmap[l], t, N(l)) <=
                          (4 * m - 1) * Part(Chunks(Task(l), N(l), c), best, u, c)
    BY DEF MapNearBest
  <2>1. plan \in Plans /\ m \in Nat \ {0}
    BY <1>3, WeightedAssumption DEF MapsAreMade
  <2>2. Task(l) \in [0 .. N(l) - 1 -> Nat] /\ N(l) \in Nat
    BY <2>1, WeightFacts
  <2>3. taskmap[l] = TaskMap(Task(l), N(l), m)
    BY <1>3 DEF MapsAreMade
  <2>4. \E u \in 0 .. m - 1 :
          3 * m * Total(Of(Task(l), TaskMap(Task(l), N(l), m), t, N(l)), N(l)) <=
            (4 * m - 1) * Total(Of(Chunks(Task(l), N(l), 2 * m), best, u, 2 * m), 2 * m)
    <3> HIDE DEF m
    <3> QED
      BY <2>1, <2>2, MapNearBestMap, Zenon
  <2> QED
    BY <2>3, <2>4, Zenon DEF Part, Total, Of
<1> QED
  BY <1>1, <1>2, <1>3, PTL DEF Spec
=============================================================================
