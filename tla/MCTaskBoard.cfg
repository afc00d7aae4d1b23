CONSTANTS
    t1 = t1
    t2 = t2
    Tasks = {t1, t2}
    Requests = {r1, r2}
    Workers = {w1}
    Actors <- Everyone
    Starts <- Boards
    RuleSets <- Strict
    Assigns = {}
    Edits <- OnFirst
    MissLimit = 2
    MaxRequests = 2
    MaxAnswers = 1
    MaxFaults = 0
SPECIFICATION Spec
INVARIANTS TypeOK ReviewHasDeadline
PROPERTY DoneIsVouched
CHECK_DEADLOCK FALSE
