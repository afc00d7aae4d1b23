SPECIFICATION FairSpec
CONSTANTS
  Callers = {c1, c2}
  Workers = {w1}
  Calls = {"update", "beat", "touch"}
  MaxCalls = 2
  MaxWakes = 2
  MaxRetries = 2
  Grace = 1
  Horizon = 1
INVARIANT EscalationStops
PROPERTY NoEndlessWait
CHECK_DEADLOCK FALSE
