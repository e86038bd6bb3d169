------------------------------- MODULE LoopLife -------------------------------
(***************************************************************************)
(* What the work-sharing loops of a parallel region promise to the threads *)
(* of the team and to the runtime that measures the loops.                 *)
(*                                                                         *)
(* The threads go through the same sequence of loops.  A loop is opened    *)
(* once, by a thread that has left the one before; a thread enters the     *)
(* loops in order, and goes on from a loop with a barrier only when the    *)
(* whole team has finished it and its measurement has been taken.  The     *)
(* end of a loop is reported to the runtime only when the threads whose    *)
(* work is measured have finished it.                                      *)
(*                                                                         *)
(* A program is a record: kind is "plain" (GOMP_parallel, then any loops), *)
(* "combined" (GOMP_parallel_loop_runtime, one loop that is already open   *)
(* when the team starts) or "orphan" (loops outside any parallel region);  *)
(* loops is a sequence of records with the region id of the loop and the   *)
(* routine that ends it, "wait", "cancel" or "nowait".                     *)
(***************************************************************************)
EXTENDS Integers, Sequences

CONSTANTS
  Threads,  \* the threads of the team
  Master    \* the thread that forks and joins it

VARIABLES
  prog,     \* the program; constant
  opened,   \* how many loops have been opened
  at,       \* at[t]: the loop thread t entered last
  fin,      \* fin[t]: the loop thread t finished last
  recorded  \* the loops whose end has been reported

vars == <<prog, opened, at, fin, recorded>>

LoopsOf(p) == 1 .. Len(p.loops)
Nowait(k)  == prog.loops[k].end = "nowait"
Crew       == IF prog.kind = "orphan" THEN {Master} ELSE Threads

\* The end of a combined loop is reported by the master, on its own.
Measured   == IF prog.kind = "combined" THEN {Master} ELSE Crew

\* gomp_work_share_end reports nothing for an orphaned loop.
Due(k) == prog.kind # "orphan" \/ Nowait(k)

MayGoOn(k) ==
  \/ k = 0 \/ Nowait(k)
  \/ /\ \A u \in Crew : fin[u] >= k
     /\ Due(k) => k \in recorded

Init ==
  /\ opened = IF prog.kind = "combined" THEN 1 ELSE 0
  /\ at = [t \in Threads |-> opened]
  /\ fin = [t \in Threads |-> 0]
  /\ recorded = {}

\* The first thread to get there opens the loop and enters it.
Open(t) ==
  /\ fin[t] = opened
  /\ opened < Len(prog.loops)
  /\ MayGoOn(opened)
  /\ opened' = opened + 1
  /\ at' = [at EXCEPT ![t] = @ + 1]
  /\ UNCHANGED <<prog, fin, recorded>>

Enter(t) ==
  /\ fin[t] = at[t]
  /\ at[t] < opened
  /\ MayGoOn(at[t])
  /\ at' = [at EXCEPT ![t] = @ + 1]
  /\ UNCHANGED <<prog, opened, fin, recorded>>

Finish(t) ==
  /\ fin[t] < at[t]
  /\ fin' = [fin EXCEPT ![t] = @ + 1]
  /\ UNCHANGED <<prog, opened, at, recorded>>

Record(k) ==
  /\ k \notin recorded
  /\ \A t \in Measured : fin[t] >= k
  /\ recorded' = recorded \cup {k}
  /\ UNCHANGED <<prog, opened, at, fin>>

Next ==
  \/ \E t \in Crew : Open(t) \/ Enter(t) \/ Finish(t)
  \/ \E k \in LoopsOf(prog) : Record(k)

Spec == Init /\ [][Next]_vars
==============================================================================
