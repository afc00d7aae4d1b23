SPECIFICATION Spec
CONSTANTS
  Callers = {c1, c2}
  Workers = {w1, w2}
  Calls = {"update", "provision", "ensure", "sync", "beat", "touch", "delete"}
  MaxCalls = 2
  MaxWakes = 2
  MaxRetries = 1
  Grace = 1
  Horizon = 1
SYMMETRY Symmetry
INVARIANTS TypeOK Watched
CHECK_DEADLOCK FALSE
