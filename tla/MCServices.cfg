SPECIFICATION ServicesSpec
CONSTANTS
  Parts = {"gate", "queue", "billing", "ledger", "members"}
  Tasks = {1, 2}
  Approvals = {a1, a2}
  Requests = {r1, r2}
  NoTask = NoTask
  NoApproval = NoApproval
  NoRequest = NoRequest
  QueueTasks = {t1}
  QueueWorkers = {w1, w2}
  MaxRetries = 1
  MaxFaults = 2
  Subs = {sub1, sub2}
  NoSub = NoSub
  BillingWorkers = {b1, b2}
  MaxEvents = 3
  MaxRequeues = 1
  MaxLosses = 1
  Agents = {lead, m1}
  Leads = {lead}
  Checks = {k1, k2}
  Limits <- Policies
  Enforcing = TRUE
  MaxTurns = 2
  MaxAsks = 3
  Users = {u1, u2}
  Founder = u1
  Invites = {a1, a2}
  Calls = {r1, r2}
  MaxCalls = 5
  MaxPlans = 1
SYMMETRY Symmetry
INVARIANTS
  ServicesTypeOK
  OnePendingPerTask PrimaryIsLinked ChecksNeverDeadlock NothingVanishes
  StoredIsUnderWay ReplaysChangeNothing
  BilledOnce NoBackcharge SomeoneOwns
PROPERTIES
  ImplementsLedger ImplementsDelivery RefusalStands JoinsByInvite
CHECK_DEADLOCK FALSE
