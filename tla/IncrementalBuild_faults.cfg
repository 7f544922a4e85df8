\* One run at a time: texts, interfaces, texts that do not check, a fault.
CONSTANTS
  base = base
  mid = mid
  app = app
  run1 = run1
  run2 = run2
  Run = {run1}
  Module = {base, app}
  Components <- ChainOrder
  Imports <- Chain
  Text = {1, 2, 3}
  Iface <- Ifaces
  Code <- Codes
  Compile <- CompileDirect
  Edited = {base, app}
  LiveEdits = TRUE
  MaxFault = 1
  None = None
  Failed = Failed
SPECIFICATION Spec
INVARIANTS InterfacesAreClean BeamsMatchInterfaces
