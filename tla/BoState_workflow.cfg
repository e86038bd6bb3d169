CONSTANTS
  p1 = p1
  p2 = p2
  l1 = l1
  l2 = l2
  Procs <- OneProc
  Loops <- TwoLoops
  MaxRuns = 6
  MaxTunings = 3
  Envs <- EnvsBoEval
  Empty = FALSE
  EveryLoop = TRUE
  Serial = TRUE
  Crashes = FALSE
SPECIFICATION Spec
INVARIANTS TypeOK RunsAreRecorded FileStaysUsable ResultsAreUsed
