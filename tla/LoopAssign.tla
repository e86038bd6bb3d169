------------------------------ MODULE LoopAssign ------------------------------
(***************************************************************************)
(* What a self-scheduling work-sharing loop promises, whatever rule picks  *)
(* the chunk sizes.  The iterations 0 .. iters-1 are handed to the threads *)
(* of the team in order, in non-empty blocks, each iteration once; a       *)
(* thread is turned away only when everything has been handed out.         *)
(*                                                                         *)
(* The detailed models of the iterators (Factoring, SelfScheduling) are    *)
(* shown to implement this one.                                            *)
(***************************************************************************)
EXTENDS Integers

CONSTANT Threads  \* the threads of the team

VARIABLES
  iters,    \* how many iterations the loop has; constant
  handed,   \* the iterations below this one have been handed out
  exec,     \* exec[i]: how often iteration i has been handed out
  away      \* the threads that were told that no work is left

vars == <<iters, handed, exec, away>>

Iterations == 0 .. iters - 1

\* The count of every iteration of the block lo .. hi-1 goes up by one.
Handed(e, lo, hi) ==
  [i \in Iterations |-> IF lo <= i /\ i < hi THEN e[i] + 1 ELSE e[i]]

Init ==
  /\ iters \in Nat
  /\ handed = 0
  /\ exec = [i \in Iterations |-> 0]
  /\ away = {}

Take(t) ==
  /\ t \notin away
  /\ \E hi \in handed + 1 .. iters :
       /\ handed' = hi
       /\ exec' = Handed(exec, handed, hi)
  /\ UNCHANGED <<iters, away>>

TurnAway(t) ==
  /\ handed = iters
  /\ t \notin away
  /\ away' = away \cup {t}
  /\ UNCHANGED <<iters, handed, exec>>

Next == \E t \in Threads : Take(t) \/ TurnAway(t)

Spec == Init /\ [][Next]_vars
=============================================================================
