SPECIFICATION ServicesFairSpec
CONSTANTS
  Parts = {"gate", "queue"}
  Tasks = {1, 2}
  Approvals = {a1}
  Requests = {r1, r2}
  NoTask = NoTask
  NoApproval = NoApproval
  NoRequest = NoRequest
  QueueTasks = {t1, t2}
  QueueWorkers = {w1}
  MaxRetries = 2
  MaxFaults = 1
  Subs = {sub1, sub2}
  NoSub = NoSub
  BillingWorkers = {b1, b2}
  MaxEvents = 3
  MaxRequeues = 1
  MaxLosses = 1
  Agents = {lead, m1}
  Leads = {lead}
  Checks = {k1, k2}
  Limits <- Policies
  Enforcing = TRUE
  MaxTurns = 2
  MaxAsks = 3
  Users = {u1}
  Founder = u1
  Invites = {i1}
  Calls = {q1}
  MaxCalls = 1
  MaxPlans = 1
INVARIANT DuplicatesAreFaults
PROPERTIES EveryRequestEnds EveryTaskSettles
CHECK_DEADLOCK FALSE
