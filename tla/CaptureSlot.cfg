\* three callers of exclusive() and settle(), three triggers
CONSTANTS
    Caller = {c1, c2, c3}
    MaxTriggers = 3
    MaxJobs = 4
CHECK_DEADLOCK FALSE
SPECIFICATION FairSpec
INVARIANTS TypeOK OneJobAtATime
PROPERTIES CapturesAreAskedFor SettledIsQuiet IsJobSlot TriggersAreSeen CallersReturn
