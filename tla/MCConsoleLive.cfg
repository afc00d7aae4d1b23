SPECIFICATION ConsoleFairSpec
CONSTANTS
  Panels = {"chat", "cards", "onboarding"}
  Sessions = {s1, s2}
  FirstSession = s1
  NoSession = NoSession
  None = None
  PageSize = 1
  MaxMessages = 2
  MaxActs = 2
  MaxDrops = 1
  Tasks = {t1, t2}
  NoRow = NoRow
  MaxChanges = 2
  MaxMoves = 1
  MaxBreaks = 1
  Approvals = {t1}
  NoApproval = NoApproval
  MaxStamps = 2
  MaxWrites = 0
  MaxShifts = 0
  MaxLapses = 0
  Questions = {q1}
  Drafts = {d1}
  Replies = {a1}
  Nothing = Nothing
  MaxDeeds = 3
  MaxPosts = 2
  MaxPolls = 1
  MaxFailures = 0
INVARIANT BleedsOnlyLate
PROPERTIES NewestArrives AwaitingEnds CardsCatchUp NewsArrives
CHECK_DEADLOCK FALSE
