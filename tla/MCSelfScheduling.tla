-------------------------- MODULE MCSelfScheduling ---------------------------
(* Model-checking instance of SelfScheduling: the teams and the loops.     *)
EXTENDS SelfScheduling

CONSTANTS t1, t2, t3

Team2 == {t1, t2}
Team3 == {t1, t2, t3}

\* A long of eight bits.
Word8 == 256
Half8 == 8

(***************************************************************************)
(* One loop per schedule, and what is special about it.                    *)
(***************************************************************************)
AddLoop ==     \* dynamic with room above the end: fetch-and-add
  [iters |-> 5, ragged |-> FALSE, word |-> "long up", base |-> 0, nthreads |-> P,
   sched |-> "dynamic", chunk |-> 2, delta |-> 0]

EdgeLoop ==    \* dynamic, one block below LONG_MAX = 127: compare-and-swap
  [AddLoop EXCEPT !.base = 118]

TightLoop ==   \* dynamic, the last base at which fetch-and-add is chosen
  [AddLoop EXCEPT !.base = 127 - 1 - (P + 1) * 2 - 5]

BackLoop ==    \* the same counting down; LONG_MIN = -128 is not used
  [TightLoop EXCEPT !.word = "long down"]

UpLoop ==      \* the same for an unsigned loop, which ends at ULLONG_MAX = 255
  [TightLoop EXCEPT !.word = "ull up", !.base = 255 - 1 - (P + 1) * 2 - 5]

DownLoop ==    \* and counting down, one place earlier
  [UpLoop EXCEPT !.word = "ull down", !.base = UpLoop.base - 1]

NearDown ==    \* counting down to 0: compare-and-swap
  [DownLoop EXCEPT !.base = 250]

CombinedLoop == \* combined, gomp_loop_init sees one thread; the last protected base
  [TightLoop EXCEPT !.nthreads = 1]

CombinedEdge == \* combined, so near LONG_MAX that one thread has no room either
  [EdgeLoop EXCEPT !.nthreads = 1]

GuidedLoop ==  \* guided, counting down to 0, the last stride is partial
  [iters |-> 7, ragged |-> TRUE, word |-> "ull down", base |-> 248, nthreads |-> 1,
   sched |-> "guided", chunk |-> 1, delta |-> 0]

TssLoop ==     \* tss, the unsigned chunk wraps round after the third call
  [iters |-> 7, ragged |-> FALSE, word |-> "ull up", base |-> 0, nthreads |-> P,
   sched |-> "tss", chunk |-> 2, delta |-> 1]

TapeLoop ==    \* tape, T starts at 7 or more and passes 5 .. 2, where K < 0
  [iters |-> 22, ragged |-> TRUE, word |-> "long up", base |-> 0, nthreads |-> P,
   sched |-> "tape3", chunk |-> 1, delta |-> 0]

AllLoops ==
  {AddLoop, EdgeLoop, TightLoop, BackLoop, UpLoop, DownLoop, NearDown, CombinedLoop, CombinedEdge,
   GuidedLoop, TssLoop, TapeLoop}
=============================================================================
