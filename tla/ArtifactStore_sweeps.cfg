\* Two competing sweeps of one module, an edit, a fault and a tampering.
CONSTANTS
  w1 = w1
  w2 = w2
  r1 = r1
  m1 = m1
  m2 = m2
  Writer = {w1, w2}
  Reader = {}
  Module = {m1}
  MaxVersion = 2
  Reverts = FALSE
  MaxFault = 1
  MaxDamage = 1
  None = None
  Orphan = Orphan
  Damaged = Damaged
SYMMETRY Symmetric
SPECIFICATION Spec
INVARIANTS TypeOK StagePrivate SweepReturnsCurrent
PROPERTIES GenerationsImmutable PublicationsAdvance UsableStaysUsable
