SPECIFICATION Spec
CONSTANTS
  SlotIds = {1}
  Hosts = {h}
  Editors = {n}
  MaxExports = 2
  None = None
  Dead = Dead
INVARIANTS
  NeverRecyclesAttached
CHECK_DEADLOCK FALSE
