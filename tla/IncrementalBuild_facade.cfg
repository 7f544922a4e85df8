\* A module that republishes the declarations of another one.
CONSTANTS
  base = base
  mid = mid
  app = app
  run1 = run1
  run2 = run2
  Run = {run1}
  Module = {base, mid, app}
  Components <- FacadeOrder
  Imports <- Facade
  Text = {1, 2, 3}
  Iface <- Ifaces
  Code <- Codes
  Compile <- CompileThrough
  Edited = {base}
  LiveEdits = FALSE
  MaxFault = 0
  None = None
  Failed = Failed
SPECIFICATION Spec
INVARIANT PublishedChecks
