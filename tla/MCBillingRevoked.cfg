SPECIFICATION ServicesSpec
CONSTANTS
  Parts = {"billing"}
  Tasks = {1}
  Approvals = {a1}
  Requests = {r1}
  NoTask = NoTask
  NoApproval = NoApproval
  NoRequest = NoRequest
  QueueTasks = {t1}
  QueueWorkers = {w1}
  MaxRetries = 1
  MaxFaults = 1
  Subs = {sub1}
  NoSub = NoSub
  BillingWorkers = {b1}
  MaxEvents = 2
  MaxRequeues = 1
  MaxLosses = 0
  Agents = {lead, m1}
  Leads = {lead}
  Checks = {k1}
  Limits <- Policies
  Enforcing = TRUE
  MaxTurns = 1
  MaxAsks = 1
  Users = {u1}
  Founder = u1
  Invites = {i1}
  Calls = {q1}
  MaxCalls = 1
  MaxPlans = 0
INVARIANT RevokedIsBlocked
CHECK_DEADLOCK FALSE
