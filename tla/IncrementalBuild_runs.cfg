\* Two runs of two modules, one importing the other; edits while they run.
CONSTANTS
  base = base
  mid = mid
  app = app
  run1 = run1
  run2 = run2
  Run = {run1, run2}
  Module = {base, app}
  Components <- ChainOrder
  Imports <- Chain
  Text = {1, 3}
  Iface <- Ifaces
  Code <- Codes
  Compile <- CompileDirect
  Edited = {base}
  LiveEdits = TRUE
  MaxFault = 0
  None = None
  Failed = Failed
SYMMETRY Symmetric
SPECIFICATION Spec
INVARIANTS TypeOK InterfacesAreClean EmissionComplete
