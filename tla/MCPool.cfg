SPECIFICATION FairSpec
CONSTANTS
    Calls = {c1, c2, c3}
    Children = {k1, k2, k3, k4}
    MaxLimit = 3
    NoChild = NoChild
INVARIANTS SlotAccounting OneOwner NoOrphan
PROPERTIES LimitRespected EveryWaiterLeaves
