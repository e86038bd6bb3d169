--------------------------- MODULE FactoringProofs ---------------------------
(***************************************************************************)
(* Proofs about Factoring for every set of loops: every team, every loop   *)
(* length, every first chunk and every number of threads that              *)
(* gomp_loop_init may have seen.  Loops that the _ull iterators count down *)
(* are excluded: for them the properties do not hold.                      *)
(***************************************************************************)
EXTENDS Factoring, FiniteSetTheorems, TLAPS

(***************************************************************************)
(* Arithmetic of the chunk size.                                           *)
(***************************************************************************)

\* An integer quotient is a natural number that, times the divisor, fits.
LEMMA Quotient ==
  ASSUME NEW a \in Nat, NEW b \in Nat \ {0}
  PROVE  a \div b \in Nat /\ (a \div b) * b <= a
OBVIOUS

\* A smaller number has no larger quotient.
LEMMA SmallerQuotient ==
  ASSUME NEW a \in Nat, NEW c \in Nat, c <= a, NEW b \in Nat \ {0}
  PROVE  c \div b <= a \div b
OBVIOUS

\* The halved quotient of the batch rule also fits once per thread.
LEMMA HalfQuotient ==
  ASSUME NEW a \in Nat, NEW b \in Nat \ {0}
  PROVE  a \div (2 * b) \in Nat /\ (a \div (2 * b)) * b <= a
OBVIOUS

\* The team is not empty.
LEMMA TeamSize ==
  ASSUME loop \in Loops
  PROVE  P \in Nat \ {0}
BY FactoringAssumption, FS_Subset, FS_CardinalityType, FS_EmptySet DEF P, Team, Loop

\* Whole strides of the loop, and the first batch that gomp_loop_init makes.
LEMMA Strides ==
  ASSUME loop \in Loops
  PROVE  /\ NumTasks \in Nat /\ Iters \in Nat
         /\ NumTasks <= Iters /\ Iters <= NumTasks + 1
         /\ loop.ragged => Iters = NumTasks + 1
         /\ ~loop.ragged => Iters = NumTasks
         /\ loop.ragged \in BOOLEAN
         /\ loop.first \in Nat /\ loop.nthreads \in Nat \ {0}
         /\ FirstBarrier \in Nat /\ FirstBarrier <= NumTasks
         /\ FirstBarrier # 0 => FirstChunk = loop.first
<1>1. /\ NumTasks \in Nat /\ Iters \in Nat
      /\ NumTasks <= Iters /\ Iters <= NumTasks + 1
      /\ loop.ragged => Iters = NumTasks + 1
      /\ ~loop.ragged => Iters = NumTasks
      /\ loop.ragged \in BOOLEAN
  BY FactoringAssumption DEF Loop, NumTasks, WholeStrides, Iters
<1>2. loop.first \in Nat /\ loop.nthreads \in Nat \ {0}
  BY FactoringAssumption DEF Loop
<1>3. FirstBarrier \in Nat /\ FirstBarrier <= NumTasks
  BY <1>2, FactoringAssumption DEF FirstBarrier, NumTasks
<1>4. FirstBarrier # 0 => FirstChunk = loop.first
  BY <1>2, FactoringAssumption DEF FirstBarrier, FirstChunk, Loop
<1> QED
  BY <1>1, <1>2, <1>3, <1>4

\* The chunk that gomp_loop_init leaves is a natural number, 0 included.
LEMMA FirstChunkType ==
  ASSUME loop \in Loops
  PROVE  FirstChunk \in Nat
<1>1. 2 * loop.nthreads \in Nat \ {0}
  BY Strides
<1>2. NumTasks \div (2 * loop.nthreads) \in Nat
  BY <1>1, Strides, Quotient
<1> QED
  BY <1>2, Strides DEF FirstChunk

\* HalfShare is a positive number.
LEMMA Bound ==
  ASSUME loop \in Loops
  PROVE  HalfShare \in Nat /\ 1 <= HalfShare /\ NumTasks \div (2 * P) <= HalfShare
<1>1. 2 * P \in Nat \ {0}
  BY TeamSize
<1>2. NumTasks \div (2 * P) \in Nat
  BY <1>1, Quotient, Strides
<1> QED
  BY <1>2 DEF HalfShare

\* The blocks of the first batch follow each other up to its barrier.
LEMMA FirstBatch ==
  ASSUME loop \in Loops, NEW s \in FirstStarts
  PROVE  /\ s \in Nat /\ s <= FirstBarrier
         /\ s # FirstBarrier =>
              /\ s < FirstBarrier /\ loop.first # 0
              /\ s + loop.first \in FirstStarts /\ s + loop.first <= FirstBarrier
<1> DEFINE f == loop.first
           n == loop.nthreads
<1>1. f \in Nat /\ n \in Nat \ {0} /\ FirstBarrier = f * n
  BY Strides DEF FirstBarrier
<1>2. PICK k \in 0 .. n : s = k * f
  BY DEF FirstStarts
<1>3. k \in Nat /\ k <= n
  BY <1>1, <1>2
<1> HIDE DEF f, n
<1>4. PICK d \in Nat : n = k + d
  <2>1. n - k \in Nat /\ n = k + (n - k)
    BY <1>1, <1>3
  <2> QED
    BY <2>1
<1>5. k * f \in Nat /\ d * f \in Nat /\ f * n = k * f + d * f
  BY <1>1, <1>3, <1>4
<1>6. s \in Nat /\ s <= FirstBarrier
  BY <1>1, <1>2, <1>5
<1>7. ASSUME s # FirstBarrier
      PROVE  s < FirstBarrier /\ f # 0 /\ s + f \in FirstStarts /\ s + f <= FirstBarrier
  <2>1. d * f # 0
    BY <1>1, <1>2, <1>5, <1>7
  <2>2. d # 0 /\ f # 0
    BY <1>1, <1>4, <2>1
  <2>3. PICK e \in Nat : d = e + 1
    <3>1. d - 1 \in Nat /\ d = (d - 1) + 1
      BY <1>4, <2>2
    <3> QED
      BY <3>1
  <2>4. e * f \in Nat /\ d * f = e * f + f /\ (k + 1) * f = k * f + f
    BY <1>1, <1>3, <2>3
  <2>5. k + 1 \in 0 .. n
    BY <1>3, <1>4, <2>3
  <2>6. s + f \in FirstStarts
    BY <1>2, <2>4, <2>5 DEF FirstStarts, f, n
  <2> QED
    BY <1>1, <1>2, <1>5, <2>2, <2>4, <2>6
<1> QED
  BY <1>6, <1>7 DEF f

\* The chunk and the barrier that a thread at index s computes.
LEMMA BatchRule ==
  ASSUME loop \in Loops, ~loop.down, NEW s \in 0 .. Iters, s # Iters
  PROVE  /\ R(s) \in Nat
         /\ F(s) \in Nat /\ Fits(F(s))
         /\ NBarrier(s) \in 0 .. Iters
<1>1. R(s) \in Nat /\ s + R(s) <= Iters /\ R(s) <= NumTasks
  BY Strides DEF R
<1>2. RawF(s) \in Nat /\ RawF(s) * P <= R(s)
  BY <1>1, TeamSize, HalfQuotient DEF RawF
<1>3. RawF(s) * P \in Nat
  BY <1>2, TeamSize
<1>4. RawF(s) <= HalfShare
  <2>1. 2 * P \in Nat \ {0} /\ NumTasks \div (2 * P) \in Nat
    BY TeamSize, Strides, Quotient
  <2>2. R(s) \div (2 * P) <= NumTasks \div (2 * P)
    BY <1>1, <2>1, Strides, SmallerQuotient
  <2> QED
    BY <1>2, <2>1, <2>2, Bound DEF RawF
<1>5. F(s) \in Nat /\ Fits(F(s))
  BY <1>2, <1>4, Bound DEF F, Fits
<1>6. NBarrier(s) \in 0 .. Iters
  BY <1>1, <1>2, <1>3, Strides DEF NBarrier, Ahead
<1> QED
  BY <1>1, <1>5, <1>6

-----------------------------------------------------------------------------
(***************************************************************************)
(* The inductive invariant.  EachIterationOnce is not inductive by itself: *)
(* that the block swapped in is non-empty and inside the loop rests on     *)
(* StaleLocals.                                                            *)
(***************************************************************************)
IInv == ~loop.down /\ TypeOK /\ EachIterationOnce /\ NoBlockAboveShare /\ StaleLocals

\* A thread that is about to swap next has a chunk that fits, or is in the first batch.
LEMMA ChunkInUse ==
  ASSUME IInv, NEW t \in Threads, AtNext(t)
  PROVE  \/ Fits(tchunk[t])
         \/ /\ pc[t] = "head"
            /\ tchunk[t] = loop.first /\ tchunk[t] = FirstChunk /\ loop.first # 0
            /\ start[t] \in FirstStarts /\ start[t] < FirstBarrier
            /\ start[t] + loop.first \in FirstStarts
<1> SUFFICES ASSUME ~Fits(tchunk[t])
             PROVE  /\ pc[t] = "head"
                    /\ tchunk[t] = loop.first /\ tchunk[t] = FirstChunk /\ loop.first # 0
                    /\ start[t] \in FirstStarts /\ start[t] < FirstBarrier
                    /\ start[t] + loop.first \in FirstStarts
  OBVIOUS
<1>0. loop \in Loops
  BY DEF IInv, TypeOK
<1>1. /\ pc[t] = "head" /\ start[t] # Iters /\ tbarrier[t] # start[t]
      /\ tchunk[t] = FirstChunk /\ tbarrier[t] = FirstBarrier
      /\ start[t] \in FirstStarts
  BY DEF IInv, StaleLocals, AtNext, At, Committed
<1>2. /\ start[t] \in Nat /\ start[t] < FirstBarrier /\ loop.first # 0
      /\ start[t] + loop.first \in FirstStarts
  BY <1>0, <1>1, FirstBatch
<1>3. FirstChunk = loop.first
  BY <1>0, <1>2, Strides
<1> QED
  BY <1>1, <1>2, <1>3

\* The block that a thread swaps in is not empty, in the loop, and not too large.
LEMMA Block ==
  ASSUME IInv, NEW t \in Threads, AtNext(t)
  PROVE  /\ start[t] \in 0 .. Iters /\ NEnd(t) \in 0 .. Iters
         /\ start[t] < NEnd(t)
         /\ NEnd(t) = start[t] + tchunk[t] \/ NEnd(t) = Iters
         /\ \/ NEnd(t) - start[t] <= HalfShare + PartialStride
            \/ /\ start[t] < FirstBarrier
               /\ NEnd(t) - start[t] <= loop.first + PartialStride
<1>0. /\ loop \in Loops /\ ~loop.down
      /\ start[t] \in 0 .. Iters /\ start[t] # Iters /\ tchunk[t] \in Nat
  BY DEF IInv, TypeOK, StaleLocals, AtNext, At
<1>1. tchunk[t] # 0
  BY <1>0, ChunkInUse, Bound DEF Fits
<1>2. R(start[t]) = NumTasks - start[t]
  BY DEF R
<1>3. /\ start[t] < NEnd(t) /\ NEnd(t) \in 0 .. Iters
      /\ NEnd(t) - start[t] <= tchunk[t] + PartialStride
      /\ NEnd(t) = start[t] + tchunk[t] \/ NEnd(t) = Iters
  <2>1. CASE tchunk[t] < R(start[t])
    <3>1. NEnd(t) = start[t] + tchunk[t]
      BY <1>0, <2>1 DEF NEnd, Ahead
    <3> QED
      BY <1>0, <1>1, <1>2, <2>1, <3>1, Strides DEF PartialStride
  <2>2. CASE ~(tchunk[t] < R(start[t]))
    <3>1. NEnd(t) = Iters
      BY <2>2 DEF NEnd
    <3> QED
      BY <1>0, <1>2, <2>2, <3>1, Strides DEF PartialStride
  <2> QED
    BY <2>1, <2>2
<1>4. PartialStride \in Nat
  BY DEF PartialStride
<1>5. CASE Fits(tchunk[t])
  BY <1>0, <1>3, <1>4, <1>5, Bound DEF Fits
<1>6. CASE ~Fits(tchunk[t])
  BY <1>0, <1>3, <1>6, ChunkInUse
<1> QED
  BY <1>5, <1>6

\* The work share that gomp_loop_init leaves behind satisfies the invariant.
LEMMA InitInvariant ==
  ASSUME \A l \in Loops : ~l.down, Init
  PROVE  IInv
<1> USE DEF Init
<1>1. loop \in Loops /\ ~loop.down
  OBVIOUS
<1>2. chunk_size \in Nat /\ barrier \in 0 .. Iters
  BY <1>1, FirstChunkType, Strides
<1>3. TypeOK
  BY <1>2, Strides DEF TypeOK, Labels
<1>4. EachIterationOnce
  BY Strides DEF EachIterationOnce, Iterations
<1>5. NoBlockAboveShare
  BY Bound DEF NoBlockAboveShare, PartialStride
<1>6. 0 \in FirstStarts
  <2>1. 0 \in 0 .. loop.nthreads /\ 0 * loop.first = 0
    BY Strides
  <2> QED
    BY <2>1 DEF FirstStarts
<1>7. StaleLocals
  BY <1>6 DEF StaleLocals, Committed
<1> QED
  BY <1>1, <1>3, <1>4, <1>5, <1>7 DEF IInv

\* The loop is never replaced.
LEMMA LoopStays ==
  ASSUME [Next]_vars
  PROVE  loop' = loop /\ Iters' = Iters /\ NumTasks' = NumTasks
<1>1. loop' = loop
  BY DEF Next, Step, Over, vars, wsvars, Enter, LoadBarrier, LoadChunk, ReturnFalse, Trap,
     CasChunkOk, CasChunkFail, ReloadNext, ReloadBarrier, CasBarrierOk, CasBarrierFail,
     ReloadNextOnly, CasNextOk, CasNextFail
<1> QED
  BY <1>1 DEF Iters, NumTasks

\* Every step of every thread preserves the invariant.
LEMMA StepInvariant ==
  ASSUME IInv, [Next]_vars
  PROVE  IInv'
<1> USE DEF IInv, wsvars, locals, Goto, At
<1>0. /\ loop' = loop /\ Iters' = Iters /\ Iterations' = Iterations
      /\ HalfShare' = HalfShare /\ PartialStride' = PartialStride
      /\ FirstChunk' = FirstChunk /\ FirstBarrier' = FirstBarrier
      /\ FirstStarts' = FirstStarts
      /\ Iters \in Nat /\ HalfShare \in Nat
  <2>1. loop' = loop
    BY LoopStays
  <2>2. Iters' = Iters /\ Iterations' = Iterations
    BY LoopStays DEF Iterations
  <2>3. /\ HalfShare' = HalfShare /\ PartialStride' = PartialStride
        /\ FirstChunk' = FirstChunk /\ FirstBarrier' = FirstBarrier
        /\ FirstStarts' = FirstStarts
    BY <2>1 DEF HalfShare, PartialStride, FirstChunk, FirstBarrier, FirstStarts, NumTasks, P, Team
  <2> QED
    BY <2>1, <2>2, <2>3, Strides, Bound DEF TypeOK
<1>1. ASSUME NEW t \in Threads, Enter(t) PROVE IInv'
  <2> USE <1>1 DEF Enter
  <2>1. TypeOK'
    BY <1>0 DEF TypeOK, Labels
  <2>2. EachIterationOnce'
    BY <1>0 DEF TypeOK, EachIterationOnce, StaleLocals
  <2>3. NoBlockAboveShare'
    BY <1>0 DEF NoBlockAboveShare
  <2>4. StaleLocals'
    BY <1>0 DEF TypeOK, StaleLocals, Committed, Fits
  <2> QED
    BY <1>0, <2>1, <2>2, <2>3, <2>4
<1>2. ASSUME NEW t \in Threads, LoadBarrier(t) PROVE IInv'
  <2> USE <1>2 DEF LoadBarrier
  <2>1. TypeOK'
    BY <1>0 DEF TypeOK, Labels
  <2>2. EachIterationOnce'
    BY <1>0 DEF TypeOK, EachIterationOnce, StaleLocals
  <2>3. NoBlockAboveShare'
    BY <1>0 DEF NoBlockAboveShare
  <2>4. StaleLocals'
    BY <1>0 DEF TypeOK, StaleLocals, Committed, Fits
  <2> QED
    BY <1>0, <2>1, <2>2, <2>3, <2>4
<1>3. ASSUME NEW t \in Threads, LoadChunk(t) PROVE IInv'
  <2> USE <1>3 DEF LoadChunk
  <2>1. TypeOK'
    BY <1>0 DEF TypeOK, Labels
  <2>2. EachIterationOnce'
    BY <1>0 DEF TypeOK, EachIterationOnce, StaleLocals
  <2>3. NoBlockAboveShare'
    BY <1>0 DEF NoBlockAboveShare
  <2>4. StaleLocals'
    BY <1>0 DEF TypeOK, StaleLocals, Committed, Fits
  <2> QED
    BY <1>0, <2>1, <2>2, <2>3, <2>4
<1>4. ASSUME NEW t \in Threads, ReturnFalse(t) PROVE IInv'
  <2> USE <1>4 DEF ReturnFalse
  <2>1. TypeOK'
    BY <1>0 DEF TypeOK, Labels
  <2>2. EachIterationOnce'
    BY <1>0 DEF TypeOK, EachIterationOnce, StaleLocals
  <2>3. NoBlockAboveShare'
    BY <1>0 DEF NoBlockAboveShare
  <2>4. StaleLocals'
    BY <1>0 DEF TypeOK, StaleLocals, Committed, Fits
  <2> QED
    BY <1>0, <2>1, <2>2, <2>3, <2>4
<1>5. ASSUME NEW t \in Threads, Trap(t) PROVE IInv'
  <2> USE <1>5 DEF Trap, AtBarrier
  <2>1. TypeOK'
    BY <1>0 DEF TypeOK, Labels
  <2>2. EachIterationOnce'
    BY <1>0 DEF TypeOK, EachIterationOnce, StaleLocals
  <2>3. NoBlockAboveShare'
    BY <1>0 DEF NoBlockAboveShare
  <2>4. StaleLocals'
    BY <1>0 DEF TypeOK, StaleLocals, Committed, Fits
  <2> QED
    BY <1>0, <2>1, <2>2, <2>3, <2>4
<1>6. ASSUME NEW t \in Threads, CasChunkOk(t) PROVE IInv'
  <2> USE <1>6 DEF CasChunkOk, AtBarrier
  <2>0. F(start[t]) \in Nat /\ Fits(F(start[t]))
    BY BatchRule DEF TypeOK
  <2>1. TypeOK'
    BY <1>0, <2>0 DEF TypeOK, Labels
  <2>2. EachIterationOnce'
    BY <1>0 DEF TypeOK, EachIterationOnce
  <2>3. NoBlockAboveShare'
    BY <1>0 DEF NoBlockAboveShare
  <2>4. StaleLocals'
    BY <1>0, <2>0 DEF TypeOK, StaleLocals, Committed, Fits
  <2> QED
    BY <1>0, <2>1, <2>2, <2>3, <2>4
<1>7. ASSUME NEW t \in Threads, CasChunkFail(t) PROVE IInv'
  <2> USE <1>7 DEF CasChunkFail, AtBarrier
  <2>1. TypeOK'
    BY <1>0 DEF TypeOK, Labels
  <2>2. EachIterationOnce'
    BY <1>0 DEF TypeOK, EachIterationOnce, StaleLocals
  <2>3. NoBlockAboveShare'
    BY <1>0 DEF NoBlockAboveShare
  <2>4. StaleLocals'
    BY <1>0 DEF TypeOK, StaleLocals, Committed, Fits
  <2> QED
    BY <1>0, <2>1, <2>2, <2>3, <2>4
<1>8. ASSUME NEW t \in Threads, ReloadNext(t) PROVE IInv'
  <2> USE <1>8 DEF ReloadNext
  <2>1. TypeOK'
    BY <1>0 DEF TypeOK, Labels
  <2>2. EachIterationOnce'
    BY <1>0 DEF TypeOK, EachIterationOnce, StaleLocals
  <2>3. NoBlockAboveShare'
    BY <1>0 DEF NoBlockAboveShare
  <2>4. StaleLocals'
    BY <1>0 DEF TypeOK, StaleLocals, Committed, Fits
  <2> QED
    BY <1>0, <2>1, <2>2, <2>3, <2>4
<1>9. ASSUME NEW t \in Threads, ReloadBarrier(t) PROVE IInv'
  <2> USE <1>9 DEF ReloadBarrier
  <2>1. TypeOK'
    BY <1>0 DEF TypeOK, Labels
  <2>2. EachIterationOnce'
    BY <1>0 DEF TypeOK, EachIterationOnce, StaleLocals
  <2>3. NoBlockAboveShare'
    BY <1>0 DEF NoBlockAboveShare
  <2>4. StaleLocals'
    BY <1>0 DEF TypeOK, StaleLocals, Committed, Fits
  <2> QED
    BY <1>0, <2>1, <2>2, <2>3, <2>4
<1>10. ASSUME NEW t \in Threads, CasBarrierOk(t) PROVE IInv'
  <2> USE <1>10 DEF CasBarrierOk
  <2>0. NBarrier(start[t]) \in 0 .. Iters
    BY BatchRule DEF TypeOK, StaleLocals
  <2>1. TypeOK'
    BY <1>0, <2>0 DEF TypeOK, Labels
  <2>2. EachIterationOnce'
    BY <1>0 DEF TypeOK, EachIterationOnce
  <2>3. NoBlockAboveShare'
    BY <1>0 DEF NoBlockAboveShare
  <2>4. StaleLocals'
    BY <1>0, <2>0 DEF TypeOK, StaleLocals, Committed, Fits
  <2> QED
    BY <1>0, <2>1, <2>2, <2>3, <2>4
<1>11. ASSUME NEW t \in Threads, CasBarrierFail(t) PROVE IInv'
  <2> USE <1>11 DEF CasBarrierFail
  <2>1. TypeOK'
    BY <1>0 DEF TypeOK, Labels
  <2>2. EachIterationOnce'
    BY <1>0 DEF TypeOK, EachIterationOnce, StaleLocals
  <2>3. NoBlockAboveShare'
    BY <1>0 DEF NoBlockAboveShare
  <2>4. StaleLocals'
    BY <1>0 DEF TypeOK, StaleLocals, Committed, Fits
  <2> QED
    BY <1>0, <2>1, <2>2, <2>3, <2>4
<1>12. ASSUME NEW t \in Threads, ReloadNextOnly(t) PROVE IInv'
  <2> USE <1>12 DEF ReloadNextOnly
  <2>1. TypeOK'
    BY <1>0 DEF TypeOK, Labels
  <2>2. EachIterationOnce'
    BY <1>0 DEF TypeOK, EachIterationOnce, StaleLocals
  <2>3. NoBlockAboveShare'
    BY <1>0 DEF NoBlockAboveShare
  <2>4. StaleLocals'
    BY <1>0 DEF TypeOK, StaleLocals, Committed, Fits
  <2> QED
    BY <1>0, <2>1, <2>2, <2>3, <2>4
<1>13. ASSUME NEW t \in Threads, CasNextOk(t) PROVE IInv'
  <2> USE <1>13 DEF CasNextOk
  <2>0. /\ start[t] \in 0 .. Iters /\ NEnd(t) \in 0 .. Iters
        /\ start[t] < NEnd(t)
        /\ \/ NEnd(t) - start[t] <= HalfShare + PartialStride
           \/ /\ start[t] < FirstBarrier
              /\ NEnd(t) - start[t] <= loop.first + PartialStride
    BY Block
  <2>1. TypeOK'
    <3>1. next' \in 0 .. Iters
      BY <2>0
    <3>2. range' \in [Threads -> (0 .. Iters) \X (0 .. Iters)]
      BY <2>0 DEF TypeOK
    <3>3. exec' \in [Iterations -> Nat]
      BY DEF TypeOK
    <3>4. pc' \in [Threads -> Labels]
      BY DEF TypeOK, Labels
    <3> QED
      BY <1>0, <3>1, <3>2, <3>3, <3>4 DEF TypeOK
  <2>2. EachIterationOnce'
    <3>1. ASSUME NEW i \in Iterations PROVE exec'[i] = IF i < next' THEN 1 ELSE 0
      BY <1>0, <2>0, <3>1 DEF TypeOK, EachIterationOnce, Iterations
    <3>2. \A u \in Threads : pc[u] # "done"
      BY <1>0, <2>0 DEF TypeOK, EachIterationOnce
    <3>3. \A u \in Threads : pc'[u] # "done"
      BY <3>2 DEF TypeOK
    <3> QED
      BY <1>0, <3>1, <3>3 DEF EachIterationOnce
  <2>3. NoBlockAboveShare'
    BY <1>0, <2>0 DEF TypeOK, NoBlockAboveShare
  <2>4. StaleLocals'
    <3>1. ~Fits(chunk_size) => next' \in FirstStarts \cup {Iters}
      <4> SUFFICES ASSUME ~Fits(chunk_size) PROVE next' \in FirstStarts \cup {Iters}
        OBVIOUS
      <4>1. AtNext(t) /\ pc[t] = "head" /\ tchunk[t] = chunk_size
        BY DEF AtNext, StaleLocals, Committed
      <4>2. start[t] + tchunk[t] \in FirstStarts
        BY <4>1, ChunkInUse
      <4> QED
        BY <4>2, Block
    <3> QED
      BY <1>0, <2>0, <3>1 DEF TypeOK, StaleLocals, Committed, AtNext, Fits
  <2> QED
    BY <1>0, <2>1, <2>2, <2>3, <2>4
<1>14. ASSUME NEW t \in Threads, CasNextFail(t) PROVE IInv'
  <2> USE <1>14 DEF CasNextFail, AtNext
  <2>1. TypeOK'
    BY <1>0 DEF TypeOK, Labels
  <2>2. EachIterationOnce'
    BY <1>0 DEF TypeOK, EachIterationOnce, StaleLocals
  <2>3. NoBlockAboveShare'
    BY <1>0 DEF NoBlockAboveShare
  <2>4. StaleLocals'
    BY <1>0 DEF TypeOK, StaleLocals, Committed, Fits
  <2> QED
    BY <1>0, <2>1, <2>2, <2>3, <2>4
<1>15. CASE UNCHANGED vars
  BY <1>0, <1>15 DEF vars, TypeOK, EachIterationOnce, NoBlockAboveShare, StaleLocals, Fits
<1> QED
  BY <1>1, <1>2, <1>3, <1>4, <1>5, <1>6, <1>7, <1>8, <1>9, <1>10,
     <1>11, <1>12, <1>13, <1>14, <1>15 DEF Next, Step, Over

-----------------------------------------------------------------------------
(***************************************************************************)
(* The invariant holds throughout: for every team, loop, first chunk and   *)
(* size of the team that gomp_loop_init saw, no interleaving of the loads  *)
(* and swaps of bo_iter_fac2_next and bo_iter_fss_next hands an iteration  *)
(* out twice or skips one, and no block outside the first batch of fss is  *)
(* above half of an even share.                                            *)
(***************************************************************************)
THEOREM Invariance ==
  ASSUME \A l \in Loops : ~l.down
  PROVE  Spec => [](TypeOK /\ EachIterationOnce /\ NoBlockAboveShare /\ StaleLocals)
<1>1. Init => IInv
  BY InitInvariant
<1>2. IInv /\ [Next]_vars => IInv'
  BY StepInvariant
<1>3. IInv => TypeOK /\ EachIterationOnce /\ NoBlockAboveShare /\ StaleLocals
  BY DEF IInv
<1> QED
  BY <1>1, <1>2, <1>3, PTL DEF Spec

\* The actions that neither move ws->next nor return to the caller.
Internal(t) ==
  \/ Enter(t) \/ LoadBarrier(t) \/ LoadChunk(t) \/ Trap(t)
  \/ CasChunkOk(t) \/ CasChunkFail(t) \/ ReloadNext(t) \/ ReloadBarrier(t)
  \/ CasBarrierOk(t) \/ CasBarrierFail(t) \/ ReloadNextOnly(t) \/ CasNextFail(t)

\* An internal step leaves ws->next, the history and the returned calls alone.
LEMMA InternalStep ==
  ASSUME TypeOK, NEW t \in Threads, Internal(t)
  PROVE  /\ next' = next /\ exec' = exec
         /\ pc' \in [Threads -> Labels]
         /\ \A u \in Threads : pc'[u] = "call" => pc[u] = "call"
         /\ \A u \in Threads : pc'[u] = "done" <=> pc[u] = "done"
<1> USE DEF TypeOK, Internal, At, Goto, wsvars, locals, Labels, AtBarrier, AtNext
<1>1. CASE Enter(t)
  BY <1>1 DEF Enter
<1>2. CASE LoadBarrier(t)
  BY <1>2 DEF LoadBarrier
<1>3. CASE LoadChunk(t)
  BY <1>3 DEF LoadChunk
<1>4. CASE Trap(t)
  BY <1>4 DEF Trap
<1>5. CASE CasChunkOk(t)
  BY <1>5 DEF CasChunkOk
<1>6. CASE CasChunkFail(t)
  BY <1>6 DEF CasChunkFail
<1>7. CASE ReloadNext(t)
  BY <1>7 DEF ReloadNext
<1>8. CASE ReloadBarrier(t)
  BY <1>8 DEF ReloadBarrier
<1>9. CASE CasBarrierOk(t)
  BY <1>9 DEF CasBarrierOk
<1>10. CASE CasBarrierFail(t)
  BY <1>10 DEF CasBarrierFail
<1>11. CASE ReloadNextOnly(t)
  BY <1>11 DEF ReloadNextOnly
<1>12. CASE CasNextFail(t)
  BY <1>12 DEF CasNextFail
<1> QED
  BY <1>1, <1>2, <1>3, <1>4, <1>5, <1>6, <1>7, <1>8, <1>9, <1>10, <1>11, <1>12

\* A step of the loop is internal, grants a block, turns a thread away, or stutters.
LEMMA StepKinds ==
  ASSUME [Next]_vars
  PROVE  \/ \E t \in Threads : Internal(t) \/ CasNextOk(t) \/ ReturnFalse(t)
         \/ UNCHANGED vars
BY DEF Next, Step, Over, Internal

(***************************************************************************)
(* A call that returns true hands out at least one iteration, for every    *)
(* team and loop, also when gomp_loop_init left chunk_size at 0.           *)
(***************************************************************************)
THEOREM GrantsAreNotEmpty ==
  ASSUME \A l \in Loops : ~l.down
  PROVE  Spec => NoEmptyBlock
<1>1. IInv /\ [Next]_vars =>
        [\A t \in Threads : (pc[t] # "call" /\ pc'[t] = "call") => next' > next]_vars
  <2> SUFFICES ASSUME IInv, [Next]_vars, NEW u \in Threads,
                      pc[u] # "call", pc'[u] = "call"
               PROVE  next' > next
    OBVIOUS
  <2>1. ASSUME NEW t \in Threads, Internal(t) PROVE FALSE
    BY <2>1, InternalStep DEF IInv
  <2>2. ASSUME NEW t \in Threads, CasNextOk(t) PROVE next' > next
    BY <2>2, Block DEF CasNextOk
  <2>3. ASSUME NEW t \in Threads, ReturnFalse(t) PROVE FALSE
    BY <2>3 DEF ReturnFalse, Goto, IInv, TypeOK
  <2>4. CASE UNCHANGED vars
    BY <2>4 DEF vars
  <2> QED
    BY <2>1, <2>2, <2>3, <2>4, StepKinds
<1>2. IInv /\ [Next]_vars => IInv'
  BY StepInvariant
<1> QED
  BY <1>1, <1>2, InitInvariant, PTL DEF Spec, NoEmptyBlock

(***************************************************************************)
(* The iterators implement LoopAssign: the swap of ws->next is its Take,   *)
(* the return of false its TurnAway, and every other access stutters.      *)
(***************************************************************************)
THEOREM Refinement ==
  ASSUME \A l \in Loops : ~l.down
  PROVE  Spec => ImplementsAssign
<1>1. Init => Assign!Init
  BY Strides DEF Init, Assign!Init, Iterations, Assign!Iterations
<1>2. IInv /\ [Next]_vars => [Assign!Next]_(Assign!vars)
  <2> SUFFICES ASSUME IInv, [Next]_vars PROVE [Assign!Next]_(Assign!vars)
    OBVIOUS
  <2>0. Iters' = Iters
    BY LoopStays
  <2> DEFINE away == {t \in Threads : pc[t] = "done"}
  <2>1. ASSUME NEW t \in Threads, Internal(t) PROVE UNCHANGED Assign!vars
    BY <2>0, <2>1, InternalStep DEF IInv, Assign!vars
  <2>2. ASSUME NEW t \in Threads, CasNextOk(t) PROVE Assign!Take(t)
    <3>0. AtNext(t) /\ next = start[t] /\ next' = NEnd(t)
      BY <2>2 DEF CasNextOk
    <3>1. NEnd(t) \in next + 1 .. Iters
      <4>1. start[t] \in 0 .. Iters /\ NEnd(t) \in 0 .. Iters /\ start[t] < NEnd(t)
        BY <3>0, Block
      <4> QED
        BY <3>0, <4>1, Strides
    <3>2. exec' = Assign!Handed(exec, next, NEnd(t))
      BY <2>2, <3>0 DEF CasNextOk, Assign!Handed, Iterations, Assign!Iterations
    <3>3. pc[t] # "done"
      BY <2>2 DEF CasNextOk, AtNext, At
    <3>4. UNCHANGED away
      BY <2>2, <3>3 DEF CasNextOk, Goto, IInv, TypeOK
    <3> QED
      BY <2>0, <3>0, <3>1, <3>2, <3>3, <3>4 DEF Assign!Take
  <2>3. ASSUME NEW t \in Threads, ReturnFalse(t) PROVE Assign!TurnAway(t)
    <3>1. next = Iters
      BY <2>3, Strides DEF ReturnFalse, IInv, TypeOK, StaleLocals
    <3>2. pc[t] # "done" /\ away' = away \cup {t}
      BY <2>3 DEF ReturnFalse, At, Goto, IInv, TypeOK
    <3> QED
      BY <2>0, <2>3, <3>1, <3>2 DEF Assign!TurnAway, ReturnFalse, wsvars
  <2>4. CASE UNCHANGED vars
    BY <2>0, <2>4 DEF vars, Assign!vars
  <2> QED
    BY <2>1, <2>2, <2>3, <2>4, StepKinds DEF Assign!Next
<1>3. IInv /\ [Next]_vars => IInv'
  BY StepInvariant
<1> QED
  BY <1>1, <1>2, <1>3, InitInvariant, PTL DEF Spec, ImplementsAssign, Assign!Spec

-----------------------------------------------------------------------------
\* In a ragged loop no block ends one partial stride before the end.
NotAtLastStride ==
  (loop.ragged /\ NumTasks # 0) =>
     next # NumTasks /\ \A t \in Threads : start[t] # NumTasks

\* Local starts are copies of ws->next or left alone.
LEMMA StartIsCopied ==
  ASSUME TypeOK, NEW t \in Threads, Internal(t) \/ CasNextOk(t) \/ ReturnFalse(t)
  PROVE  \A u \in Threads : start'[u] \in {start[u], next}
<1> USE DEF TypeOK, wsvars, locals
<1>1. CASE Internal(t)
  BY <1>1 DEF Internal, Enter, LoadBarrier, LoadChunk, Trap, CasChunkOk, CasChunkFail,
     ReloadNext, ReloadBarrier, CasBarrierOk, CasBarrierFail, ReloadNextOnly, CasNextFail
<1>2. CASE CasNextOk(t)
  BY <1>2 DEF CasNextOk
<1>3. CASE ReturnFalse(t)
  BY <1>3 DEF ReturnFalse
<1> QED
  BY <1>1, <1>2, <1>3

\* A swap of ws->next never leaves exactly a partial stride.
LEMMA LastStrideStep ==
  ASSUME IInv, NotAtLastStride, [Next]_vars
  PROVE  NotAtLastStride'
<1> SUFFICES ASSUME loop.ragged, NumTasks # 0
             PROVE  next' # NumTasks /\ \A u \in Threads : start'[u] # NumTasks
  BY LoopStays DEF NotAtLastStride
<1>0. next # NumTasks /\ \A u \in Threads : start[u] # NumTasks
  BY DEF NotAtLastStride
<1>1. ASSUME NEW t \in Threads, Internal(t) \/ CasNextOk(t) \/ ReturnFalse(t)
      PROVE  \A u \in Threads : start'[u] # NumTasks
  BY <1>0, <1>1, StartIsCopied DEF IInv
<1>2. ASSUME NEW t \in Threads, Internal(t) PROVE next' # NumTasks
  BY <1>0, <1>2, InternalStep DEF IInv
<1>3. ASSUME NEW t \in Threads, ReturnFalse(t) PROVE next' # NumTasks
  BY <1>0, <1>3 DEF ReturnFalse, wsvars
<1>4. ASSUME NEW t \in Threads, CasNextOk(t) PROVE next' # NumTasks
  <2>1. /\ loop \in Loops /\ ~loop.down
        /\ start[t] \in 0 .. Iters /\ tchunk[t] \in Nat
    BY DEF IInv, TypeOK
  <2>2. next' = IF tchunk[t] < NumTasks - start[t] THEN start[t] + tchunk[t] ELSE Iters
    BY <1>4, <2>1 DEF CasNextOk, NEnd, R, Ahead
  <2> QED
    BY <2>1, <2>2, Strides
<1>5. CASE UNCHANGED vars
  BY <1>0, <1>5 DEF vars
<1> QED
  BY <1>1, <1>2, <1>3, <1>4, <1>5, StepKinds

(***************************************************************************)
(* The integer division 1 / R in bo_iter_fss_next can trap in one kind of  *)
(* loop only: one whose single iteration is shorter than a whole stride.   *)
(***************************************************************************)
THEOREM TrapsOnlyWithoutWholeStride ==
  ASSUME \A l \in Loops : ~l.down /\ (l.sched = "fac2" \/ WholeStrides(l) # 0)
  PROVE  Spec => []CallsReturn
<1> DEFINE Inv == IInv /\ NotAtLastStride /\ CallsReturn
<1>1. Init => Inv
  <2>1. ASSUME Init PROVE NotAtLastStride /\ CallsReturn
    BY <2>1, Strides DEF Init, NotAtLastStride, CallsReturn
  <2> QED
    BY <2>1, InitInvariant
<1>2. Inv /\ [Next]_vars => Inv'
  <2> SUFFICES ASSUME Inv, [Next]_vars PROVE Inv'
    OBVIOUS
  <2>1. IInv' /\ NotAtLastStride'
    BY StepInvariant, LastStrideStep
  <2>2. ASSUME NEW t \in Threads PROVE ~Trap(t)
    <3> SUFFICES ASSUME Trap(t) PROVE FALSE
      OBVIOUS
    <3>0. loop \in Loops /\ start[t] \in 0 .. Iters
      BY DEF IInv, TypeOK
    <3>1. start[t] # Iters /\ NumTasks # 0 /\ NumTasks - start[t] = 0
      BY <3>0 DEF Trap, AtBarrier, DividesByZero, R, NumTasks
    <3>2. loop.ragged
      BY <3>0, <3>1, Strides
    <3> QED
      BY <3>0, <3>1, <3>2, Strides DEF NotAtLastStride
  <2>3. CallsReturn'
    BY <2>2 DEF Next, Step, Over, CallsReturn, IInv, TypeOK, Goto, vars,
       Enter, LoadBarrier, LoadChunk, ReturnFalse, CasChunkOk, CasChunkFail, ReloadNext,
       ReloadBarrier, CasBarrierOk, CasBarrierFail, ReloadNextOnly, CasNextOk, CasNextFail
  <2> QED
    BY <2>1, <2>3
<1> QED
  BY <1>1, <1>2, PTL DEF Spec
=============================================================================
