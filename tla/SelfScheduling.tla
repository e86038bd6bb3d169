--------------------------- MODULE SelfScheduling ----------------------------
(***************************************************************************)
(* The self-scheduling iterators that move a single shared word, ws->next: *)
(* gomp_iter_dynamic_next and gomp_iter_guided_next of iter.c, and         *)
(* bo_iter_tss_next and bo_iter_tape_next of schedules.h, with the _ull    *)
(* forms that unsigned loops use.  Every access to the work share is one   *)
(* action.                                                                 *)
(*                                                                         *)
(* As in Factoring an index is the number of strides from the first index, *)
(* and ragged says that (end - start) / incr drops a partial stride.       *)
(***************************************************************************)
EXTENDS Integers, FiniteSets

CONSTANTS
  Threads,   \* the threads of the team
  Wrap,      \* 2 to the power of the width of a long, and of a gomp_ull
  HalfWord,  \* 2 to the power of half that width, and halved
  Loops      \* the loops that may be started, see Loop

(***************************************************************************)
(* A loop as gomp_loop_init leaves it in the work share: how many          *)
(* iterations it has, whether end - start is not a multiple of incr, its   *)
(* word and direction, how far it starts from the first value of that word *)
(* in its direction (0 for a long, whichever way), ws->sched ("dynamic"    *)
(* stands for css too), and ws->chunk_size in strides.  delta is           *)
(* 1.0 / ws->param of tss, by how much the chunk shrinks per call.         *)
(* nthreads is the size of the team that gomp_loop_init sees: Threads for  *)
(* a loop inside the region, but the team outside, normally one thread,    *)
(* for a combined construct, which calls it before gomp_team_start.        *)
(***************************************************************************)
Words == {"long up", "long down", "ull up", "ull down"}

Loop ==
  [iters : Nat, ragged : BOOLEAN, word : Words, base : Nat, nthreads : Nat \ {0},
   sched : {"dynamic", "guided", "tss", "tape3"}, chunk : Nat, delta : Nat]

P == Cardinality(Threads)

\* How far from that first value a loop can get, to LONG_MAX, LONG_MIN or ULLONG_MAX.
Last(l) ==
  CASE l.word = "long up"   -> Wrap \div 2 - 1
    [] l.word = "long down" -> Wrap \div 2
    [] OTHER                -> Wrap - 1

(***************************************************************************)
(* The chunk of a dynamic or guided loop is at least 1 (parse_schedule and *)
(* the clip of css_chunk_size); the first chunk of tss may be 0.  The _ull *)
(* forms of tss and tape count up whatever the direction of the loop.      *)
(***************************************************************************)
ASSUME SelfSchedulingAssumption ==
  /\ IsFiniteSet(Threads) /\ Threads # {}
  /\ HalfWord \in Nat \ {0} /\ Wrap = (2 * HalfWord) * (2 * HalfWord)
  /\ \A l \in Loops :
       /\ l \in Loop
       /\ l.ragged => l.iters > 0
       /\ l.sched \in {"dynamic", "guided"} => l.chunk > 0
       /\ l.word = "ull down" => l.sched \in {"dynamic", "guided"}
       /\ l.base + l.iters <= Last(l)

VARIABLES
  loop,    \* the loop that was started; constant afterwards
  next,    \* ws->next
  count,   \* ws->count, the calls of tss so far
  pc,      \* pc[t]: where thread t is in the iterator
  start,   \* start[t]: its local start
  chunk,   \* chunk[t]: tss, its local chunk_size
  range,   \* range[t]: the last *pstart, *pend it returned
  exec     \* exec[i]: how often iteration i was handed out (history)

vars == <<loop, next, count, pc, start, chunk, range, exec>>

Iters == loop.iters
Iterations == 0 .. Iters - 1

\* (end - start) / incr: whole strides only.
NumTasks == IF loop.ragged THEN Iters - 1 ELSE Iters

(***************************************************************************)
(* The last place the overflow protection allows for.  Counting down it    *)
(* compares with (nthreads + 1) * -chunk_size - LONG_MAX, or ULLONG_MAX,   *)
(* which leaves the last value of the word unused.                         *)
(***************************************************************************)
Edge(l) == IF l.word \in {"long down", "ull down"} THEN Last(l) - 1 ELSE Last(l)

\* mutant: room for one block only.
Mode_OneBlock(l) ==
  /\ ~(l.nthreads >= HalfWord \/ l.chunk >= HalfWord)
  /\ l.base + l.iters < Edge(l) - l.chunk

\* ws->mode & 1: with room above the end, dynamic loops use fetch-and-add.
Mode(l) ==
  /\ ~(l.nthreads >= HalfWord \/ l.chunk >= HalfWord)
  /\ l.base + l.iters < Edge(l) - (l.nthreads + 1) * l.chunk

Fetches(l) == l.sched = "dynamic" /\ Mode(l)
Adding     == Fetches(loop)

\* ws->next after an addition: the word wraps round.
Wrapped(n) == IF loop.base + n <= Last(loop) THEN n ELSE n - Wrap

R(s) == NumTasks - s

SmallerOf(a, b) == IF a < b THEN a ELSE b
LargerOf(a, b)  == IF a < b THEN b ELSE a

\* mutant: the share is rounded down and the minimum chunk ignored.
Guided_Down(s) == IF R(s) \div P <= R(s) THEN s + R(s) \div P ELSE Iters

\* guided: an even share of what is left.
Guided(s) ==
  LET q == LargerOf((R(s) + P - 1) \div P, loop.chunk)
  IN  IF q <= R(s) THEN s + q ELSE Iters

\* mutant: the block is not cut off at the end of the loop.
Cut_Not(s, c) == s + c

\* tss and tape3: c strides, or the rest.
Cut(s, c) == IF c < R(s) THEN s + c ELSE Iters

\* tss: f - count * delta in unsigned arithmetic; only 0 is raised to 1.
TssChunk(n) == LET c == (loop.chunk - n * loop.delta) % Wrap IN IF c < 1 THEN 1 ELSE c

(***************************************************************************)
(* tape with v = 3: T + 4.5 - 3 sqrt(2 T + 2.25), where T is R / nthreads  *)
(* rounded, truncated towards zero and at least K_min = 1: as many k as    *)
(* are below the value.  For T in 2 .. 5 it is -1, and the conversion to   *)
(* unsigned makes that the largest unsigned number.                        *)
(***************************************************************************)
Tape3K(T) ==
  IF T \in 2 .. 5 THEN Wrap - 1
  ELSE LET AtMost(k) == 2 * k <= 2 * T + 9 /\ (2 * T + 9 - 2 * k) ^ 2 >= 9 * (8 * T + 9)
       IN  LargerOf(1, Cardinality({k \in 1 .. T : AtMost(k)}))

Tape3Chunk(s) == Tape3K((2 * R(s) + P) \div (2 * P))

\* mutant: only the size of the block is computed.
NEnd_NotCut(t) == start[t] + LargerOf((R(start[t]) + P - 1) \div P, loop.chunk)

\* nend for a thread that has seen start[t].
NEnd(t) ==
  CASE loop.sched = "dynamic" -> SmallerOf(start[t] + loop.chunk, Iters)
    [] loop.sched = "guided"  -> Guided(start[t])
    [] loop.sched = "tss"     -> Cut(start[t], chunk[t])
    [] loop.sched = "tape3"   -> Cut(start[t], Tape3Chunk(start[t]))

Goto(t, label) == pc' = [pc EXCEPT ![t] = label]

\* Thread t returns true with the block lo .. hi-1.
Grant(t, lo, hi) ==
  /\ range' = [range EXCEPT ![t] = <<lo, hi>>]
  /\ exec' = [i \in Iterations |-> IF lo <= i /\ i < hi THEN exec[i] + 1 ELSE exec[i]]
  /\ Goto(t, "call")

Init ==
  /\ loop \in Loops
  /\ next = 0
  /\ count = 0
  /\ pc = [t \in Threads |-> "call"]
  /\ start = [t \in Threads |-> 0]
  /\ chunk = [t \in Threads |-> 0]
  /\ range = [t \in Threads |-> <<0, 0>>]
  /\ exec = [i \in Iterations |-> 0]

-----------------------------------------------------------------------------
\* mutant: a block that does not fit any more is not handed out.
FetchAdd_DropsRest(t) ==
  /\ Adding
  /\ pc[t] = "call"
  /\ next' = Wrapped(next + loop.chunk)
  /\ IF next + loop.chunk > Iters
     THEN Goto(t, "done") /\ UNCHANGED <<range, exec>>
     ELSE Grant(t, next, next + loop.chunk)
  /\ UNCHANGED <<loop, count, start, chunk>>

(***************************************************************************)
(* dynamic, mode 1: one fetch-and-add, which may move next past the end.   *)
(* The end of the block does not wrap: Mode leaves room for two chunks.    *)
(***************************************************************************)
FetchAdd(t) ==
  /\ Adding
  /\ pc[t] = "call"
  /\ next' = Wrapped(next + loop.chunk)
  /\ IF next >= Iters
     THEN Goto(t, "done") /\ UNCHANGED <<range, exec>>
     ELSE Grant(t, next, SmallerOf(next + loop.chunk, Iters))
  /\ UNCHANGED <<loop, count, start, chunk>>

\* tss numbers its calls before it looks at next.
CountCall(t) ==
  /\ loop.sched = "tss"
  /\ pc[t] = "call"
  /\ count' = count + 1
  /\ chunk' = [chunk EXCEPT ![t] = TssChunk(count)]
  /\ Goto(t, "load")
  /\ UNCHANGED <<loop, next, start, range, exec>>

Load(t) ==
  /\ ~Adding
  /\ pc[t] = IF loop.sched = "tss" THEN "load" ELSE "call"
  /\ start' = [start EXCEPT ![t] = next]
  /\ Goto(t, "head")
  /\ UNCHANGED <<loop, next, count, chunk, range, exec>>

\* mutant: the test for the end of the loop is off by one.
ReturnFalse_Early(t) ==
  /\ pc[t] = "head"
  /\ start[t] >= Iters - 1
  /\ Goto(t, "done")
  /\ UNCHANGED <<loop, next, count, start, chunk, range, exec>>

ReturnFalse(t) ==
  /\ pc[t] = "head"
  /\ start[t] = Iters
  /\ Goto(t, "done")
  /\ UNCHANGED <<loop, next, count, start, chunk, range, exec>>

\* mutant: ws->next is stored without comparing it.
CasOk_Store(t) ==
  /\ pc[t] = "head"
  /\ start[t] # Iters
  /\ next' = NEnd(t)
  /\ Grant(t, start[t], NEnd(t))
  /\ UNCHANGED <<loop, count, start, chunk>>

CasOk(t) ==
  /\ pc[t] = "head"
  /\ start[t] # Iters
  /\ next = start[t]
  /\ next' = NEnd(t)
  /\ Grant(t, start[t], NEnd(t))
  /\ UNCHANGED <<loop, count, start, chunk>>

\* mutant: the value found in ws->next is not taken over.
CasFail_NoReload(t) ==
  /\ pc[t] = "head"
  /\ start[t] # Iters
  /\ next # start[t]
  /\ UNCHANGED vars

CasFail(t) ==
  /\ pc[t] = "head"
  /\ start[t] # Iters
  /\ next # start[t]
  /\ start' = [start EXCEPT ![t] = next]
  /\ UNCHANGED <<loop, next, count, pc, chunk, range, exec>>

-----------------------------------------------------------------------------
Step(t) ==
  FetchAdd(t) \/ CountCall(t) \/ Load(t) \/ ReturnFalse(t) \/ CasOk(t) \/ CasFail(t)

Over == (\A t \in Threads : pc[t] = "done") /\ UNCHANGED vars

Next == (\E t \in Threads : Step(t)) \/ Over

Spec == Init /\ [][Next]_vars

\* Every thread is an OS thread that the kernel keeps scheduling.
FairSpec == Spec /\ \A t \in Threads : WF_vars(Step(t))

-----------------------------------------------------------------------------
(* Properties.                                                             *)

\* Every variable holds values of its type; fetch-and-add may overshoot.
TypeOK ==
  /\ loop \in Loops
  /\ next \in Nat
  /\ count \in Nat
  /\ pc \in [Threads -> {"call", "load", "head", "done"}]
  /\ start \in [Threads -> 0 .. Iters]
  /\ chunk \in [Threads -> Nat]
  /\ range \in [Threads -> (0 .. Iters) \X (0 .. Iters)]
  /\ exec \in [Iterations -> Nat]

(***************************************************************************)
(* The fetch-and-add of gomp_iter_dynamic_next and its _ull form never     *)
(* wraps round, up or down: the overflow protection of gomp_loop_init and  *)
(* gomp_loop_ull_init leaves room for the last block and for one failing   *)
(* call of every thread.  If it did, ws->next would fall behind the end    *)
(* and the next call would get a block far outside the loop.               *)
(***************************************************************************)
NoOverflow == [][next' >= next]_vars

(***************************************************************************)
(* The room is measured with the nthreads of gomp_loop_init.  That is      *)
(* enough for a loop inside the region; a combined loop has it only if it  *)
(* ends far enough below the edge anyway.  Between the two the code is not *)
(* protected, and the properties of this module do not hold.               *)
(***************************************************************************)
Protected(l) ==
  Fetches(l) /\ l.nthreads < P => l.base + l.iters < Edge(l) - (P + 1) * l.chunk

(***************************************************************************)
(* Every thread is eventually turned away: no sequence of lost swaps keeps *)
(* a thread in the retry loop for ever.                                    *)
(***************************************************************************)
AllTurnedAway == <>(\A t \in Threads : pc[t] = "done")

\* The iterators implement the abstract assignment of iterations to threads.
Assign == INSTANCE LoopAssign
  WITH iters <- Iters, handed <- SmallerOf(next, Iters), away <- {t \in Threads : pc[t] = "done"}

ImplementsAssign == Assign!Spec
=============================================================================
