------------------------- MODULE SelfSchedulingProofs -------------------------
(***************************************************************************)
(* Proofs about SelfScheduling for every team, every word size and every   *)
(* set of loops: the iterators of dynamic, css, guided, tss and tape.  The *)
(* theorems ask that the loops are Protected.                              *)
(***************************************************************************)
EXTENDS SelfScheduling, FiniteSetTheorems, TLAPS

\* The threads that have been turned away.
Away == {t \in Threads : pc[t] = "done"}

\* The iterations below next have been handed out once, the others not at all.
Cover ==
  /\ \A i \in Iterations : exec[i] = IF i < next THEN 1 ELSE 0
  /\ \A t \in Threads : pc[t] = "done" => Iters <= next

\* What the local variables of a thread say about next.
LocalsOK ==
  \A t \in Threads :
    /\ start[t] <= next
    /\ pc[t] \in {"load", "head"} => ~Adding
    /\ pc[t] \in {"load", "head"} /\ loop.sched = "tss" => 0 < chunk[t]

(***************************************************************************)
(* How far next can get: every thread that was turned away has added one   *)
(* chunk too many.                                                         *)
(***************************************************************************)
Room ==
  IF Adding THEN next < Iters + loop.chunk * (1 + Cardinality(Away)) ELSE next <= Iters

IInv == Protected(loop) /\ TypeOK /\ Cover /\ LocalsOK /\ Room

-----------------------------------------------------------------------------
\* The size of the team.
LEMMA TeamSize == P \in Nat \ {0}
BY SelfSchedulingAssumption, FS_CardinalityType, FS_EmptySet DEF P

\* The last place of a word is a number, and the edge is not beyond it.
LEMMA WordSize ==
  /\ Wrap \in Nat /\ 1 < Wrap
  /\ Last(loop) \in Int /\ Edge(loop) \in Int /\ Edge(loop) <= Last(loop)
<1>1. ASSUME NEW h \in Nat \ {0} PROVE (2 * h) * (2 * h) \in Nat /\ 1 < (2 * h) * (2 * h)
  OBVIOUS
<1>2. Wrap \in Nat /\ 1 < Wrap
  BY <1>1, SelfSchedulingAssumption
<1>3. Wrap \div 2 \in Int /\ Wrap \div 2 - 1 \in Int /\ Wrap - 1 \in Int
  BY <1>2
<1>4. Last(loop) \in {Wrap \div 2 - 1, Wrap \div 2, Wrap - 1}
  BY DEF Last
<1>5. Last(loop) \in Int
  BY <1>3, <1>4
<1>6. Edge(loop) = Last(loop) - 1 \/ Edge(loop) = Last(loop)
  BY DEF Edge
<1> QED
  BY <1>2, <1>5, <1>6

\* A loop that may be started.
LEMMA LoopFacts ==
  ASSUME loop \in Loops
  PROVE  /\ Iters \in Nat /\ NumTasks \in Nat
         /\ NumTasks <= Iters /\ Iters <= NumTasks + 1
         /\ loop.sched \in {"dynamic", "guided", "tss", "tape3"}
         /\ loop.chunk \in Nat /\ loop.delta \in Nat /\ loop.base \in Nat
         /\ loop.nthreads \in Nat \ {0}
         /\ loop.sched \in {"dynamic", "guided"} => 0 < loop.chunk
         /\ loop.base + Iters <= Last(loop)
<1>1. /\ loop \in Loop /\ (loop.ragged => loop.iters > 0)
      /\ loop.sched \in {"dynamic", "guided"} => loop.chunk > 0
  BY SelfSchedulingAssumption
<1>2. loop.base + loop.iters <= Last(loop)
  BY SelfSchedulingAssumption, Zenon
<1>3. loop.base + Iters <= Last(loop)
  BY <1>2 DEF Iters
<1>4. /\ loop.iters \in Nat /\ loop.ragged \in BOOLEAN /\ loop.chunk \in Nat
      /\ loop.delta \in Nat /\ loop.base \in Nat /\ loop.nthreads \in Nat \ {0}
      /\ loop.sched \in {"dynamic", "guided", "tss", "tape3"}
  BY <1>1 DEF Loop
<1>5. NumTasks \in Nat /\ NumTasks <= Iters /\ Iters <= NumTasks + 1
  BY <1>1, <1>4 DEF Iters, NumTasks
<1> QED
  BY <1>1, <1>3, <1>4, <1>5 DEF Iters

\* A chunk of tss is never 0.
LEMMA TssChunkPositive ==
  ASSUME loop \in Loops, NEW n \in Nat
  PROVE  TssChunk(n) \in Nat /\ 0 < TssChunk(n)
<1>1. loop.chunk - n * loop.delta \in Int
  BY LoopFacts
<1>2. (loop.chunk - n * loop.delta) % Wrap \in Nat
  BY <1>1, WordSize
<1> QED
  BY <1>2 DEF TssChunk

\* A chunk of tape is never 0.
LEMMA TapeChunkPositive ==
  ASSUME NEW T \in Nat
  PROVE  Tape3K(T) \in Nat /\ 0 < Tape3K(T)
<1> DEFINE AtMost(k) == 2 * k <= 2 * T + 9 /\ (2 * T + 9 - 2 * k) ^ 2 >= 9 * (8 * T + 9)
           fits == {k \in 1 .. T : AtMost(k)}
<1>1. fits \in SUBSET (1 .. T)
  OBVIOUS
<1>2. Tape3K(T) = IF T \in 2 .. 5 THEN Wrap - 1 ELSE LargerOf(1, Cardinality(fits))
  BY DEF Tape3K
<1> HIDE DEF fits
<1>3. IsFiniteSet(1 .. T)
  BY FS_Interval
<1>4. Cardinality(fits) \in Nat
  BY <1>1, <1>3, FS_Subset, FS_CardinalityType
<1>5. LargerOf(1, Cardinality(fits)) \in Nat /\ 0 < LargerOf(1, Cardinality(fits))
  BY <1>4 DEF LargerOf
<1> QED
  BY <1>2, <1>5, WordSize

\* Cutting a block off at the end of the loop.
LEMMA CutInside ==
  ASSUME loop \in Loops, NEW s \in 0 .. Iters, s # Iters, NEW c \in Nat, 0 < c
  PROVE  Cut(s, c) \in s + 1 .. Iters
<1>1. R(s) \in Int /\ s + R(s) <= Iters
  BY LoopFacts DEF R
<1>2. Iters \in Nat /\ s \in Nat /\ s < Iters
  BY LoopFacts
<1>3. CASE c < R(s)
  BY <1>1, <1>2, <1>3 DEF Cut
<1>4. CASE ~(c < R(s))
  BY <1>1, <1>2, <1>4 DEF Cut
<1> QED
  BY <1>3, <1>4

\* An even share of what is left.
LEMMA GuidedInside ==
  ASSUME loop \in Loops, loop.sched = "guided", NEW s \in 0 .. Iters, s # Iters
  PROVE  Guided(s) \in s + 1 .. Iters
<1>1. R(s) \in Nat /\ s + R(s) <= Iters /\ 0 < loop.chunk /\ loop.chunk \in Nat
  BY LoopFacts DEF R
<1>2. (R(s) + P - 1) \div P \in Nat
  BY <1>1, TeamSize
<1>3. /\ LargerOf((R(s) + P - 1) \div P, loop.chunk) \in Nat
      /\ 0 < LargerOf((R(s) + P - 1) \div P, loop.chunk)
  BY <1>1, <1>2 DEF LargerOf
<1> QED
  BY <1>1, <1>3, LoopFacts DEF Guided

\* The block a thread swaps in is not empty and ends inside the loop.
LEMMA Block ==
  ASSUME IInv, NEW t \in Threads, pc[t] = "head", start[t] # Iters
  PROVE  NEnd(t) \in start[t] + 1 .. Iters
<1>1. loop \in Loops /\ start[t] \in 0 .. Iters /\ chunk[t] \in Nat
  BY DEF IInv, TypeOK
<1>2. CASE loop.sched = "dynamic"
  BY <1>1, <1>2, LoopFacts DEF NEnd, SmallerOf
<1>3. CASE loop.sched = "guided"
  BY <1>1, <1>3, GuidedInside DEF NEnd
<1>4. CASE loop.sched = "tss"
  <2>1. 0 < chunk[t]
    BY <1>4 DEF IInv, LocalsOK
  <2> QED
    BY <1>1, <1>4, <2>1, CutInside DEF NEnd
<1>5. CASE loop.sched = "tape3"
  <2>1. R(start[t]) \in Nat
    BY <1>1, LoopFacts DEF R
  <2>2. (2 * R(start[t]) + P) \div (2 * P) \in Nat
    BY <2>1, TeamSize
  <2>3. Tape3Chunk(start[t]) \in Nat /\ 0 < Tape3Chunk(start[t])
    BY <2>2, TapeChunkPositive DEF Tape3Chunk
  <2> QED
    BY <1>1, <1>5, <2>3, CutInside DEF NEnd
<1> QED
  BY <1>1, <1>2, <1>3, <1>4, <1>5, LoopFacts

-----------------------------------------------------------------------------
\* The work share that gomp_loop_init leaves behind satisfies the invariant.
LEMMA InitInvariant ==
  ASSUME Init, \A l \in Loops : Protected(l)
  PROVE  IInv
<1> USE DEF Init
<1>0. Iters \in Nat /\ loop.chunk \in Nat /\ (Adding => 0 < loop.chunk)
  BY LoopFacts DEF Adding, Fetches
<1>1. TypeOK
  BY <1>0 DEF TypeOK
<1>2. Cover
  BY <1>0 DEF Cover, Iterations
<1>3. LocalsOK
  BY DEF LocalsOK
<1>4. Room
  <2>1. Away = {}
    BY DEF Away
  <2>2. Cardinality(Away) = 0
    BY <2>1, FS_EmptySet
  <2> QED
    BY <1>0, <2>2 DEF Room
<1>5. Protected(loop)
  OBVIOUS
<1> QED
  BY <1>1, <1>2, <1>3, <1>4, <1>5 DEF IInv

\* The loop is never replaced.
LEMMA LoopStays ==
  ASSUME [Next]_vars
  PROVE  /\ loop' = loop /\ Iters' = Iters /\ Iterations' = Iterations
         /\ Adding' = Adding /\ Protected(loop)' = Protected(loop)
<1>1. loop' = loop
  BY DEF Next, Step, Over, vars, FetchAdd, CountCall, Load, ReturnFalse, CasOk, CasFail
<1>2. Iters' = Iters
  BY <1>1 DEF Iters
<1>3. Iterations' = Iterations
  BY <1>2 DEF Iterations
<1>4. Adding' = Adding
  BY <1>1 DEF Adding, Fetches, Mode, Edge, Last
<1>5. Protected(loop)' = Protected(loop)
  BY <1>1 DEF Protected, Fetches, Mode, Edge, Last
<1> QED
  BY <1>1, <1>2, <1>3, <1>4, <1>5

\* Turning a thread away makes Away larger by one.
LEMMA AwayGrows ==
  ASSUME TypeOK, NEW t \in Threads, pc[t] # "done", Goto(t, "done")
  PROVE  /\ Cardinality(Away) \in Nat
         /\ Cardinality(Away') = Cardinality(Away) + 1
<1>1. IsFiniteSet(Away)
  BY SelfSchedulingAssumption, FS_Subset DEF Away
<1>2. Away' = Away \cup {t} /\ t \notin Away
  BY DEF Away, Goto, TypeOK
<1> QED
  BY <1>1, <1>2, FS_AddElement, FS_CardinalityType

(***************************************************************************)
(* A loop that uses fetch-and-add has room for P + 1 chunks above its end: *)
(* Mode has left it for nthreads + 1, or the loop is protected.            *)
(***************************************************************************)
LEMMA RoomAboveEnd ==
  ASSUME loop \in Loops, Protected(loop), Adding
  PROVE  /\ (P + 1) * loop.chunk \in Nat
         /\ loop.base + Iters + (P + 1) * loop.chunk < Last(loop)
<1>0. /\ Iters \in Nat /\ loop.chunk \in Nat /\ loop.base \in Nat
      /\ loop.nthreads \in Nat \ {0} /\ P \in Nat \ {0}
      /\ Last(loop) \in Int /\ Edge(loop) \in Int /\ Edge(loop) <= Last(loop)
  BY LoopFacts, WordSize, TeamSize
<1>1. (P + 1) * loop.chunk \in Nat /\ (loop.nthreads + 1) * loop.chunk \in Nat
  BY <1>0
<1>2. loop.base + Iters < Edge(loop) - (P + 1) * loop.chunk
  <2>1. CASE loop.nthreads < P
    BY <2>1 DEF Adding, Protected, Iters
  <2>2. CASE ~(loop.nthreads < P)
    <3>1. ASSUME NEW c \in Nat, NEW n \in Nat, NEW m \in Nat, n <= m
          PROVE  (n + 1) * c <= (m + 1) * c
      BY <3>1
    <3>2. (P + 1) * loop.chunk <= (loop.nthreads + 1) * loop.chunk
      BY <1>0, <2>2, <3>1
    <3>3. loop.base + Iters < Edge(loop) - (loop.nthreads + 1) * loop.chunk
      BY DEF Adding, Fetches, Mode, Iters
    <3> QED
      BY <1>0, <1>1, <3>2, <3>3
  <2> QED
    BY <2>1, <2>2
<1> QED
  BY <1>0, <1>1, <1>2

\* No addition wraps round: the caller itself has not been turned away yet.
LEMMA NoWrap ==
  ASSUME IInv, NEW t \in Threads, FetchAdd(t)
  PROVE  next' = next + loop.chunk
<1>0. /\ loop \in Loops /\ Protected(loop) /\ Adding
      /\ next \in Nat /\ Iters \in Nat /\ loop.chunk \in Nat /\ loop.base \in Nat
      /\ next < Iters + loop.chunk * (1 + Cardinality(Away))
      /\ Last(loop) \in Int
  BY LoopFacts, WordSize DEF IInv, TypeOK, Room, FetchAdd
<1>1. Cardinality(Away) \in Nat /\ P \in Nat /\ Cardinality(Away) + 1 <= P
  <2>1. IsFiniteSet(Away) /\ t \notin Away /\ Away \cup {t} \subseteq Threads
    BY SelfSchedulingAssumption, FS_Subset DEF Away, FetchAdd
  <2>2. Cardinality(Away \cup {t}) = Cardinality(Away) + 1
    BY <2>1, FS_AddElement
  <2>3. Cardinality(Away \cup {t}) <= Cardinality(Threads)
    BY <2>1, SelfSchedulingAssumption, FS_Subset
  <2> QED
    BY <2>1, <2>2, <2>3, TeamSize, FS_CardinalityType DEF P
<1>2. ASSUME NEW c \in Nat, NEW n \in Nat, NEW m \in Nat, n + 1 <= m
      PROVE  c * (1 + n) \in Nat /\ c * (1 + n) + c <= (m + 1) * c
  <2>1. PICK d \in Nat : m = n + 1 + d
    <3>1. m - (n + 1) \in Nat /\ m = n + 1 + (m - (n + 1))
      BY <1>2
    <3> QED
      BY <3>1
  <2>2. (m + 1) * c = c * (1 + n) + c + d * c /\ d * c \in Nat
    BY <2>1
  <2> QED
    BY <2>2
<1>3. /\ loop.chunk * (1 + Cardinality(Away)) \in Nat
      /\ loop.chunk * (1 + Cardinality(Away)) + loop.chunk <= (P + 1) * loop.chunk
  BY <1>0, <1>1, <1>2
<1>4. /\ (P + 1) * loop.chunk \in Nat
      /\ loop.base + Iters + (P + 1) * loop.chunk < Last(loop)
  BY <1>0, RoomAboveEnd
<1>5. loop.base + (next + loop.chunk) <= Last(loop)
  BY <1>0, <1>3, <1>4
<1>6. next' = Wrapped(next + loop.chunk)
  BY DEF FetchAdd
<1> QED
  BY <1>5, <1>6 DEF Wrapped

\* Any other move leaves it alone.
LEMMA AwayStays ==
  ASSUME TypeOK, NEW t \in Threads, pc[t] # "done",
         NEW label \in {"call", "load", "head"}, Goto(t, label)
  PROVE  Away' = Away
BY DEF Away, Goto, TypeOK

\* A granted block is inside the loop and starts at next.
LEMMA GrantKeeps ==
  ASSUME IInv, NEW t \in Threads, pc[t] # "done", [Next]_vars,
         NEW hi \in next + 1 .. Iters, Grant(t, next, hi),
         next' \in Nat, hi = SmallerOf(next', Iters)
  PROVE  /\ range' \in [Threads -> (0 .. Iters) \X (0 .. Iters)]
         /\ exec' \in [Iterations -> Nat]
         /\ pc' \in [Threads -> {"call", "load", "head", "done"}]
         /\ Cover'
<1>0. Iters \in Nat /\ next \in Nat /\ next < Iters
  BY LoopFacts DEF IInv, TypeOK
<1>1. range' \in [Threads -> (0 .. Iters) \X (0 .. Iters)]
  BY <1>0 DEF Grant, IInv, TypeOK
<1>2. exec' \in [Iterations -> Nat]
  BY DEF Grant, IInv, TypeOK
<1>3. pc' \in [Threads -> {"call", "load", "head", "done"}]
  BY DEF Grant, Goto, IInv, TypeOK
<1>4. ASSUME NEW i \in Iterations PROVE exec'[i] = IF i < next' THEN 1 ELSE 0
  <2>1. exec'[i] = IF next <= i /\ i < hi THEN exec[i] + 1 ELSE exec[i]
    BY DEF Grant
  <2>2. exec[i] = IF i < next THEN 1 ELSE 0
    BY DEF IInv, Cover
  <2>3. i \in Nat /\ i < Iters
    BY <1>0 DEF Iterations
  <2> QED
    BY <1>0, <2>1, <2>2, <2>3 DEF SmallerOf
<1>5. ASSUME NEW u \in Threads PROVE pc'[u] # "done"
  BY <1>0 DEF Grant, Goto, IInv, TypeOK, Cover
<1> QED
  BY <1>1, <1>2, <1>3, <1>4, <1>5, LoopStays DEF Cover

\* Every step of every thread preserves the invariant.
LEMMA StepInvariant ==
  ASSUME IInv, [Next]_vars
  PROVE  IInv'
<1>0. /\ loop' = loop /\ Iters' = Iters /\ Iterations' = Iterations /\ Adding' = Adding
      /\ Protected(loop)'
      /\ loop \in Loops /\ Iters \in Nat /\ loop.chunk \in Nat
      /\ Adding => 0 < loop.chunk /\ loop.sched = "dynamic"
  BY LoopStays, LoopFacts DEF IInv, TypeOK, Adding, Fetches
<1>a. TypeOK /\ Cover /\ LocalsOK /\ Room
  BY DEF IInv
<1>1. ASSUME NEW t \in Threads, FetchAdd(t) PROVE IInv'
  <2>0. /\ Adding /\ pc[t] = "call" /\ next' = next + loop.chunk
        /\ next \in Nat /\ UNCHANGED <<loop, count, start, chunk>>
    BY <1>1, <1>a, NoWrap DEF FetchAdd, TypeOK
  <2>1. CASE next >= Iters
    <3>0. Goto(t, "done") /\ UNCHANGED <<range, exec>>
      BY <1>1, <2>1 DEF FetchAdd
    <3>1. TypeOK'
      BY <1>0, <1>a, <2>0, <3>0 DEF TypeOK, Goto
    <3>2. Cover'
      BY <1>0, <1>a, <2>0, <2>1, <3>0 DEF TypeOK, Goto, Cover, Iterations
    <3>3. LocalsOK'
      BY <1>0, <1>a, <2>0, <3>0 DEF TypeOK, Goto, LocalsOK
    <3>4. Room'
      <4>1. /\ Cardinality(Away) \in Nat /\ Cardinality(Away') = Cardinality(Away) + 1
        BY <1>a, <2>0, <3>0, AwayGrows
      <4>2. next < Iters + loop.chunk * (1 + Cardinality(Away))
        BY <1>a, <2>0 DEF Room
      <4>3. ASSUME NEW c \in Nat, NEW n \in Nat
            PROVE  c * (1 + (n + 1)) = c * (1 + n) + c /\ c * (1 + n) \in Nat
        OBVIOUS
      <4>4. next' < Iters + loop.chunk * (1 + Cardinality(Away'))
        BY <1>0, <2>0, <4>1, <4>2, <4>3
      <4> QED
        BY <1>0, <2>0, <4>4 DEF Room
    <3> QED
      BY <1>0, <3>1, <3>2, <3>3, <3>4 DEF IInv
  <2>2. CASE ~(next >= Iters)
    <3> DEFINE hi == SmallerOf(next', Iters)
    <3>0. Grant(t, next, hi) /\ hi \in next + 1 .. Iters /\ next' \in Nat
      BY <1>0, <1>1, <2>0, <2>2 DEF FetchAdd, SmallerOf
    <3> HIDE DEF hi
    <3>1. /\ range' \in [Threads -> (0 .. Iters) \X (0 .. Iters)]
          /\ exec' \in [Iterations -> Nat]
          /\ pc' \in [Threads -> {"call", "load", "head", "done"}]
          /\ Cover'
      BY <2>0, <3>0, GrantKeeps DEF hi
    <3>2. TypeOK'
      BY <1>0, <1>a, <2>0, <3>0, <3>1 DEF TypeOK
    <3>3. LocalsOK'
      BY <1>0, <1>a, <2>0, <3>0 DEF TypeOK, Grant, Goto, LocalsOK
    <3>4. Room'
      <4>1. Away' = Away
        BY <1>a, <2>0, <3>0, AwayStays DEF Grant
      <4>2. Cardinality(Away) \in Nat
        BY SelfSchedulingAssumption, FS_Subset, FS_CardinalityType DEF Away
      <4>3. ASSUME NEW c \in Nat, NEW n \in Nat PROVE c <= c * (1 + n) /\ c * (1 + n) \in Nat
        OBVIOUS
      <4>4. next' < Iters + loop.chunk * (1 + Cardinality(Away))
        BY <1>0, <2>0, <2>2, <4>2, <4>3
      <4> QED
        BY <1>0, <2>0, <4>1, <4>4 DEF Room
    <3> QED
      BY <1>0, <3>1, <3>2, <3>3, <3>4 DEF IInv
  <2> QED
    BY <2>1, <2>2
<1>2. ASSUME NEW t \in Threads, CountCall(t) PROVE IInv'
  <2>0. /\ loop.sched = "tss" /\ pc[t] = "call" /\ ~Adding
        /\ TssChunk(count) \in Nat /\ 0 < TssChunk(count)
    BY <1>0, <1>2, <1>a, TssChunkPositive DEF CountCall, TypeOK
  <2> USE <1>0, <1>2, <1>a, <2>0 DEF CountCall, Goto
  <2>1. TypeOK'
    BY DEF TypeOK
  <2>2. Cover'
    BY DEF TypeOK, Cover
  <2>3. LocalsOK'
    BY DEF TypeOK, LocalsOK
  <2>4. Room'
    BY DEF Room
  <2> QED
    BY <1>0, <2>1, <2>2, <2>3, <2>4 DEF IInv
<1>3. ASSUME NEW t \in Threads, Load(t) PROVE IInv'
  <2> USE <1>0, <1>3, <1>a DEF Load, Goto
  <2>1. TypeOK'
    BY DEF TypeOK, Room
  <2>2. Cover'
    BY DEF TypeOK, Cover
  <2>3. LocalsOK'
    BY DEF TypeOK, LocalsOK
  <2>4. Room'
    BY DEF Room
  <2> QED
    BY <1>0, <2>1, <2>2, <2>3, <2>4 DEF IInv
<1>4. ASSUME NEW t \in Threads, ReturnFalse(t) PROVE IInv'
  <2>0. ~Adding
    BY <1>4, <1>a DEF ReturnFalse, LocalsOK
  <2> USE <1>0, <1>4, <1>a, <2>0 DEF ReturnFalse, Goto
  <2>1. TypeOK'
    BY DEF TypeOK
  <2>2. Cover'
    BY DEF TypeOK, Cover, LocalsOK
  <2>3. LocalsOK'
    BY DEF TypeOK, LocalsOK
  <2>4. Room'
    BY DEF Room
  <2> QED
    BY <1>0, <2>1, <2>2, <2>3, <2>4 DEF IInv
<1>5. ASSUME NEW t \in Threads, CasOk(t) PROVE IInv'
  <2>0. /\ ~Adding /\ pc[t] = "head" /\ next = start[t] /\ next' = NEnd(t)
        /\ NEnd(t) \in next + 1 .. Iters
        /\ next \in Nat /\ Grant(t, next, NEnd(t))
        /\ UNCHANGED <<loop, count, start, chunk>>
    BY <1>5, <1>a, Block DEF CasOk, LocalsOK, TypeOK, IInv
  <2>1. /\ range' \in [Threads -> (0 .. Iters) \X (0 .. Iters)]
        /\ exec' \in [Iterations -> Nat]
        /\ pc' \in [Threads -> {"call", "load", "head", "done"}]
        /\ Cover'
    <3>1. next' \in Nat /\ NEnd(t) = SmallerOf(next', Iters)
      BY <1>0, <2>0 DEF SmallerOf
    <3> QED
      BY <2>0, <3>1, GrantKeeps
  <2>2. TypeOK'
    BY <1>0, <1>a, <2>0, <2>1 DEF TypeOK
  <2>3. LocalsOK'
    BY <1>0, <1>a, <2>0 DEF TypeOK, Grant, Goto, LocalsOK
  <2>4. Room'
    BY <1>0, <2>0 DEF Room
  <2> QED
    BY <1>0, <2>1, <2>2, <2>3, <2>4 DEF IInv
<1>6. ASSUME NEW t \in Threads, CasFail(t) PROVE IInv'
  <2>0. ~Adding
    BY <1>6, <1>a DEF CasFail, LocalsOK
  <2> USE <1>0, <1>6, <1>a, <2>0 DEF CasFail
  <2>1. TypeOK'
    BY DEF TypeOK, Room
  <2>2. Cover'
    BY DEF TypeOK, Cover
  <2>3. LocalsOK'
    BY DEF TypeOK, LocalsOK
  <2>4. Room'
    BY DEF Room
  <2> QED
    BY <1>0, <2>1, <2>2, <2>3, <2>4 DEF IInv
<1>7. CASE UNCHANGED vars
  BY <1>0, <1>7 DEF vars, IInv, TypeOK, Cover, LocalsOK, Room, Away
<1> QED
  BY <1>1, <1>2, <1>3, <1>4, <1>5, <1>6, <1>7 DEF Next, Step, Over

\* No step moves ws->next backwards.
LEMMA NextGrows ==
  ASSUME IInv, [Next]_vars
  PROVE  next' >= next
<1>0. loop \in Loops /\ next \in Nat /\ loop.chunk \in Nat /\ Iters \in Nat
  BY LoopFacts DEF IInv, TypeOK
<1>1. ASSUME NEW t \in Threads, FetchAdd(t) PROVE next' >= next
  BY <1>0, <1>1, NoWrap
<1>2. ASSUME NEW t \in Threads, CasOk(t) PROVE next' >= next
  <2>1. next = start[t] /\ next' = NEnd(t) /\ NEnd(t) \in start[t] + 1 .. Iters
    BY <1>2, Block DEF CasOk
  <2> QED
    BY <1>0, <2>1
<1>3. ASSUME NEW t \in Threads, CountCall(t) \/ Load(t) \/ ReturnFalse(t) \/ CasFail(t)
      PROVE  next' >= next
  <2>1. next' = next
    BY <1>3 DEF CountCall, Load, ReturnFalse, CasFail
  <2> QED
    BY <1>0, <2>1
<1>4. CASE UNCHANGED vars
  BY <1>0, <1>4 DEF vars
<1> QED
  BY <1>1, <1>2, <1>3, <1>4 DEF Next, Step, Over

(***************************************************************************)
(* For every team, word size and protected loop: what the iterators have   *)
(* handed out is exactly the iterations below next, each once.             *)
(***************************************************************************)
THEOREM Invariance ==
  ASSUME \A l \in Loops : Protected(l)
  PROVE  Spec => [](TypeOK /\ Cover)
<1>1. Init => IInv
  BY InitInvariant
<1>2. IInv /\ [Next]_vars => IInv'
  BY StepInvariant
<1>3. IInv => TypeOK /\ Cover
  BY DEF IInv
<1> QED
  BY <1>1, <1>2, <1>3, PTL DEF Spec

(***************************************************************************)
(* The fetch-and-add of gomp_iter_dynamic_next never wraps round, for      *)
(* every team, word size and protected loop: the comparison that           *)
(* gomp_loop_init makes with its nthreads leaves enough room if that is    *)
(* the size of the team, and Protected says how much a combined loop needs *)
(* besides.                                                                *)
(***************************************************************************)
THEOREM RoomIsEnough ==
  ASSUME \A l \in Loops : Protected(l)
  PROVE  Spec => NoOverflow
<1>1. Init => IInv
  BY InitInvariant
<1>2. IInv /\ [Next]_vars => IInv'
  BY StepInvariant
<1>3. IInv /\ [Next]_vars => [next' >= next]_vars
  BY NextGrows
<1> QED
  BY <1>1, <1>2, <1>3, PTL DEF Spec, NoOverflow

(***************************************************************************)
(* A loop that is not a combined construct is protected: gomp_loop_init    *)
(* sees the team that executes it.  So is every loop that uses             *)
(* compare-and-swap, however near to the edge it ends.                     *)
(***************************************************************************)
THEOREM InsideRegionsProtected ==
  ASSUME NEW l \in Loops, l.nthreads = P \/ ~Fetches(l)
  PROVE  Protected(l)
BY TeamSize DEF Protected

(***************************************************************************)
(* The iterators implement LoopAssign: the fetch-and-add or the swap of    *)
(* next is its Take, the return of false its TurnAway; counting a call,    *)
(* loading next and losing a swap are stutters.                            *)
(***************************************************************************)
THEOREM Refinement ==
  ASSUME \A l \in Loops : Protected(l)
  PROVE  Spec => ImplementsAssign
<1>1. Init => Assign!Init
  BY LoopFacts DEF Init, Assign!Init, Iterations, Assign!Iterations, SmallerOf
<1>2. IInv /\ [Next]_vars => [Assign!Next]_(Assign!vars)
  <2> SUFFICES ASSUME IInv, [Next]_vars PROVE [Assign!Next]_(Assign!vars)
    OBVIOUS
  <2> DEFINE handed == SmallerOf(next, Iters)
             away == {t \in Threads : pc[t] = "done"}
  <2>0. /\ Iters' = Iters /\ Iters \in Nat /\ next \in Nat /\ loop \in Loops
        /\ loop.chunk \in Nat
        /\ Adding => 0 < loop.chunk
        /\ Assign!Iterations = Iterations
    BY LoopStays, LoopFacts DEF IInv, TypeOK, Adding, Fetches, Iterations, Assign!Iterations
  <2>1. ASSUME NEW t \in Threads, NEW lo \in Nat, NEW hi \in lo + 1 .. Iters,
               lo = handed, hi = handed', pc[t] # "done", Grant(t, lo, hi)
        PROVE  Assign!Take(t)
    <3>1. exec' = Assign!Handed(exec, handed, hi)
      BY <2>0, <2>1 DEF Grant, Assign!Handed
    <3>2. away' = away /\ t \notin away
      BY <2>1 DEF Grant, Goto, IInv, TypeOK
    <3>3. hi \in handed + 1 .. Iters
      BY <2>1
    <3> QED
      BY <2>0, <2>1, <3>1, <3>2, <3>3 DEF Assign!Take
  <2>2. ASSUME NEW t \in Threads, pc[t] # "done", Goto(t, "done"), Iters <= next,
               Iters <= next', next' \in Nat, exec' = exec
        PROVE  Assign!TurnAway(t)
    <3>1. handed = Iters /\ handed' = Iters
      BY <2>0, <2>2 DEF SmallerOf
    <3>2. away' = away \cup {t} /\ t \notin away
      BY <2>2 DEF Goto, IInv, TypeOK
    <3> QED
      BY <2>0, <2>2, <3>1, <3>2 DEF Assign!TurnAway
  <2>3. ASSUME NEW t \in Threads, CountCall(t) \/ Load(t) \/ CasFail(t)
        PROVE  UNCHANGED Assign!vars
    <3>1. next' = next /\ exec' = exec /\ away' = away
      BY <2>3 DEF CountCall, Load, CasFail, Goto, IInv, TypeOK
    <3> QED
      BY <2>0, <3>1 DEF Assign!vars
  <2>4. ASSUME NEW t \in Threads, FetchAdd(t) PROVE Assign!Next
    <3>0. Adding /\ pc[t] = "call" /\ next' = next + loop.chunk
      BY <2>4, NoWrap DEF FetchAdd
    <3>1. CASE next >= Iters
      <4>1. Goto(t, "done") /\ exec' = exec
        BY <2>4, <3>1 DEF FetchAdd
      <4>2. pc[t] # "done" /\ Iters <= next /\ Iters <= next' /\ next' \in Nat
        BY <2>0, <3>0, <3>1
      <4> QED
        BY <2>2, <4>1, <4>2 DEF Assign!Next
    <3>2. CASE ~(next >= Iters)
      <4> DEFINE hi == SmallerOf(next + loop.chunk, Iters)
      <4>1. Grant(t, next, hi)
        BY <2>4, <3>2 DEF FetchAdd
      <4>2. next = handed /\ handed' = hi /\ hi \in next + 1 .. Iters
        BY <2>0, <3>0, <3>2 DEF SmallerOf
      <4> QED
        BY <2>0, <2>1, <3>0, <4>1, <4>2 DEF Assign!Next
    <3> QED
      BY <3>1, <3>2
  <2>5. ASSUME NEW t \in Threads, ReturnFalse(t) PROVE Assign!Next
    <3>1. pc[t] = "head" /\ Goto(t, "done") /\ next' = next /\ exec' = exec /\ Iters <= next
      BY <2>5 DEF ReturnFalse, IInv, LocalsOK
    <3> QED
      BY <2>0, <2>2, <3>1 DEF Assign!Next
  <2>6. ASSUME NEW t \in Threads, CasOk(t) PROVE Assign!Next
    <3>1. /\ pc[t] = "head" /\ next = start[t] /\ next' = NEnd(t)
          /\ NEnd(t) \in next + 1 .. Iters /\ Grant(t, next, NEnd(t))
      BY <2>6, Block DEF CasOk
    <3>2. next = handed /\ NEnd(t) = handed'
      BY <2>0, <3>1 DEF SmallerOf
    <3> QED
      BY <2>0, <2>1, <3>1, <3>2 DEF Assign!Next
  <2>7. CASE UNCHANGED vars
    BY <2>0, <2>7 DEF vars, Assign!vars
  <2> QED
    BY <2>3, <2>4, <2>5, <2>6, <2>7 DEF Next, Step, Over
<1>3. IInv /\ [Next]_vars => IInv'
  BY StepInvariant
<1> QED
  BY <1>1, <1>2, <1>3, InitInvariant, PTL DEF Spec, ImplementsAssign, Assign!Spec
===============================================================================
