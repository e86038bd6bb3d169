CONSTANTS
  t1 = t1
  t2 = t2
  t3 = t3
  Threads <- Team3
  Loops <- SingleLoops
SPECIFICATION Spec
INVARIANT CallsReturn
