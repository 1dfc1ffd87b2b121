SPECIFICATION Spec
CONSTANTS
    r1 = r1
    r2 = r2
    s1 = s1
    s2 = s2
    Runs = {r1, r2}
    Sessions = {s1, s2}
    SessionOf <- OneSession
    Dedicated = {r1, r2}
    Shared = Shared
    MaxRuns = 2
    Permits = 1
    Setups <- Exits
INVARIANTS ExitTerminalizes
CHECK_DEADLOCK FALSE
