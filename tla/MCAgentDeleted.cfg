SPECIFICATION Spec
CONSTANTS
  Callers = {c1}
  Workers = {w1}
  Calls = {"update", "delete"}
  MaxCalls = 2
  MaxWakes = 2
  MaxRetries = 1
  Grace = 1
  Horizon = 2
PROPERTY DeletedStaysGone
CHECK_DEADLOCK FALSE
