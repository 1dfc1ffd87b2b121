SPECIFICATION FairSpec
CONSTANTS
    c1 = c1  c2 = c2  c3 = c3  c4 = c4
    r1 = r1  r2 = r2
    p1 = p1  p2 = p2  p3 = p3
    Calls = {c1, c2, c3, c4}
    Runs = {r1, r2}
    Permits = {p1, p2, p3}
    PermitOf <- OneShared
    RunOf <- TwoRuns
    Limit = 2
INVARIANTS
    CapacityBound WorkConserving NoLeakedPermit HolderKeepsPermit
PROPERTIES FifoAdmission EveryWaiterLeaves
