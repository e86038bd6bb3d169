------------------------------ MODULE MCBoState ------------------------------
(* Model-checking instances of BoState.                                    *)
EXTENDS BoState, TLC

CONSTANTS p1, p2, l1, l2

OneProc  == {p1}
TwoProcs == {p1, p2}
TwoLoops == {l1, l2}
OneLoop  == {l1}

EnvsBoEval == {"bo", "eval"}
EnvsBo     == {"bo"}
EnvsTwo    == {"bo", "other"}
EnvsAll    == Environments

\* Loops and executions are interchangeable.
Symmetry == Permutations(TwoProcs) \cup Permutations(TwoLoops)
=============================================================================
