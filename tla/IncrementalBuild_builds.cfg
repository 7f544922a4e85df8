\* One build after the other, with edits between them.
CONSTANTS
  base = base
  mid = mid
  app = app
  run1 = run1
  run2 = run2
  Run = {run1}
  Module = {base, mid, app}
  Components <- LoopOrder
  Imports <- Loop
  Text = {1, 2, 3}
  Iface <- Ifaces
  Code <- Codes
  Compile <- CompileLenient
  Edited = {base, mid, app}
  LiveEdits = FALSE
  MaxFault = 0
  None = None
  Failed = Failed
SPECIFICATION Spec
INVARIANTS RebuildsOnlyAffected BeamsAgree
PROPERTY ImplementsCleanBuild
