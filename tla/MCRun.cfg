SPECIFICATION FairSpec
CONSTANTS
    r1 = r1
    r2 = r2
    s1 = s1
    s2 = s2
    Runs = {r1, r2}
    Sessions = {s1, s2}
    SessionOf <- OneSession
    Dedicated = {r1}
    Shared = Shared
    MaxRuns = 2
    Permits = 1
    Setups <- CalmOrFaulty
INVARIANTS SessionSerial EndedRunHoldsNothing CompletedMeansFinished NoDeadClient
PROPERTIES NeverResumes EveryRunEnds
CHECK_DEADLOCK FALSE
