\* A module whose macros another one expands; one build after the other.
CONSTANTS
  base = base
  mid = mid
  app = app
  run1 = run1
  run2 = run2
  Run = {run1}
  Module = {base, app}
  Components <- ChainOrder
  Imports <- Chain
  Text = {1, 2}
  Iface <- Ifaces
  Code <- Codes
  Compile <- CompileMacros
  Edited = {base}
  LiveEdits = FALSE
  MaxFault = 0
  None = None
  Failed = Failed
SPECIFICATION Spec
PROPERTY ImplementsCleanBuild
