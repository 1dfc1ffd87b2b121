SPECIFICATION Spec
CONSTANTS
    Goals = {g1, g2}
    Runs = {r1, r2}
    NoGoal = NoGoal
    NoRun = NoRun
    Segments = {0}
    MaxTurns = 2
    MaxOps = 2
    MaxCounted = 1
SYMMETRY Symmetry
INVARIANTS
    OwnedIffActive SegmentsCountedOnce FinishReleasesGoal
PROPERTIES TerminalIsFinal OwnerOnlyLosesToOwn
