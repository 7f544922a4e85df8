\* A build that is not published because a source changed meanwhile.
CONSTANTS
  base = base
  mid = mid
  app = app
  run1 = run1
  run2 = run2
  Run = {run1}
  Module = {base, app}
  Components <- ChainOrder
  Imports <- Chain
  Text = {1, 3}
  Iface <- Ifaces
  Code <- Codes
  Compile <- CompileDirect
  Edited = {base}
  LiveEdits = TRUE
  MaxFault = 0
  None = None
  Failed = Failed
SPECIFICATION Spec
INVARIANT BeamsAgree
