\* Two waiters compete for the bits of one setter; sets are bounded.
SPECIFICATION FairSpec
CONSTANTS
  b1 = b1
  b2 = b2
  NoWait = NoWait
  Setters = {s1}
  Waiters = {w1, w2}
  Bits = {b1, b2}
  Waits <- MCWaits
  MaxSets = 2
INVARIANTS
  NoLostSet
  ConsumedOnce
PROPERTIES
  RaceWonBySet
  WaiterServed
