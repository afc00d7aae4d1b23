CONSTANTS
    t1 = t1
    t2 = t2
    Tasks = {t1}
    Requests = {r1, r2}
    Workers = {w1, w2}
    Actors <- Everyone
    Starts <- Alone
    RuleSets <- Strict
    Assigns = {"worker"}
    Edits = {}
    MissLimit = 2
    MaxRequests = 2
    MaxAnswers = 0
    MaxFaults = 1
SPECIFICATION FairSpec
INVARIANT ReviewIsWatched
PROPERTY ReviewEnds
CHECK_DEADLOCK FALSE
