\* A reader that verifies two modules one by one while they are edited and built.
CONSTANTS
  w1 = w1
  w2 = w2
  r1 = r1
  m1 = m1
  m2 = m2
  Writer = {w1}
  Reader = {r1}
  Module = {m1, m2}
  MaxVersion = 2
  Reverts = FALSE
  MaxFault = 0
  MaxDamage = 1
  None = None
  Orphan = Orphan
  Damaged = Damaged
SPECIFICATION Spec
INVARIANTS ReaderReturnsNamed GenerationsAreSnapshots
PROPERTY ImplementsPublishedSet
