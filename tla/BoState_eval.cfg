CONSTANTS
  p1 = p1
  p2 = p2
  l1 = l1
  l2 = l2
  Procs <- OneProc
  Loops <- OneLoop
  MaxRuns = 3
  MaxTunings = 1
  Envs <- EnvsBoEval
  Empty = FALSE
  EveryLoop = TRUE
  Serial = TRUE
  Crashes = FALSE
SPECIFICATION Spec
INVARIANT EvalUsesBest
