SPECIFICATION FairSpec
CONSTANTS
  t1 = t1
  t2 = t2
  t3 = t3
  a = a
  b = b
  Threads <- Team
  Master = t1
  Programs <- AllPrograms
  Regions <- TwoRegions
  Inline = 1
  MaxShares = 7
INVARIANTS
  TypeOK
  SharesServe
  NoShareLost
  OneObservationPerLoop
  NoWakeUpLost
PROPERTIES
  ImplementsLoopLife
  AllJoin
\* The team is dissolved when the region is over.
CHECK_DEADLOCK FALSE
