SPECIFICATION ConsoleSpec
CONSTANTS
  Panels = {"chat", "cards", "approvals", "onboarding"}
  Sessions = {s1, s2}
  FirstSession = s1
  NoSession = NoSession
  None = None
  PageSize = 1
  MaxMessages = 2
  MaxActs = 3
  MaxDrops = 0
  Tasks = {t1, t2}
  NoRow = NoRow
  MaxChanges = 2
  MaxMoves = 2
  MaxBreaks = 1
  Approvals = {t1, t2}
  NoApproval = NoApproval
  MaxStamps = 4
  MaxWrites = 2
  MaxShifts = 1
  MaxLapses = 1
  Questions = {q1}
  Drafts = {d1, d2}
  Replies = {a1}
  Nothing = Nothing
  MaxDeeds = 3
  MaxPosts = 2
  MaxPolls = 1
  MaxFailures = 1
SYMMETRY Symmetry
INVARIANTS
  ConsoleTypeOK
  BleedsOnlyLate PagesMeet
  QuietBoardIsCurrent ApprovalsAreCurrent
  NobodyWaits NoReask OneDraft
PROPERTY ConfirmedStays
CHECK_DEADLOCK FALSE
