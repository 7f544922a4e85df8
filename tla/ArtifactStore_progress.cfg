\* Two writers, one of which may crash, fail or leak the lock.
CONSTANTS
  w1 = w1
  w2 = w2
  r1 = r1
  m1 = m1
  m2 = m2
  Writer = {w1, w2}
  Reader = {}
  Module = {m1}
  MaxVersion = 1
  Reverts = FALSE
  MaxFault = 2
  MaxDamage = 0
  None = None
  Orphan = Orphan
  Damaged = Damaged
SPECIFICATION FairSpec
INVARIANTS NobodyWaitsInVain
PROPERTY SweepEnds
