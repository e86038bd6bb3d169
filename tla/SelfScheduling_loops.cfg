SPECIFICATION FairSpec
CONSTANTS
  t1 = t1
  t2 = t2
  t3 = t3
  Threads <- Team3
  Wrap <- Word8
  HalfWord <- Half8
  Loops <- AllLoops
INVARIANTS
  TypeOK
PROPERTIES
  NoOverflow
  ImplementsAssign
  AllTurnedAway
