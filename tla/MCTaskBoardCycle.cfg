CONSTANTS
    t1 = t1
    t2 = t2
    Tasks = {t1, t2}
    Requests = {r1, r2}
    Workers = {w1}
    Actors <- Everyone
    Starts <- Fresh
    RuleSets <- Default
    Assigns = {}
    Edits <- OnOne
    MissLimit = 2
    MaxRequests = 2
    MaxAnswers = 0
    MaxFaults = 0
SPECIFICATION Spec
INVARIANT NoCycle
CHECK_DEADLOCK FALSE
