\* An edit that is undone while the sweep runs.
CONSTANTS
  w1 = w1
  w2 = w2
  r1 = r1
  m1 = m1
  m2 = m2
  Writer = {w1}
  Reader = {}
  Module = {m1}
  MaxVersion = 2
  Reverts = TRUE
  MaxFault = 0
  MaxDamage = 0
  None = None
  Orphan = Orphan
  Damaged = Damaged
SPECIFICATION Spec
INVARIANT NoStaleBeam
