SPECIFICATION Spec
CONSTANTS
  Callers = {c1, c2}
  Workers = {w1}
  Calls = {"update", "sync"}
  MaxCalls = 2
  MaxWakes = 2
  MaxRetries = 1
  Grace = 1
  Horizon = 2
SYMMETRY Symmetry
INVARIANTS WatchedDespiteSync
CHECK_DEADLOCK FALSE
