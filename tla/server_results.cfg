\* Two goals at a time and one that cannot be converted, ids that do not repeat.
SPECIFICATION Spec
CONSTANTS
    g1 = g1
    g2 = g2
    bad = bad
    NoGoal = NoGoal
    Goals <- ThreeGoals
    MalformedGoals = {bad}
    IdSpace = 2
    Threads = 2
INVARIANTS
    TypeOK
    ResultsAreOwn
    DiscardsOnlyGivenUp
    ReadersStopFirst
PROPERTIES
    ContractImplemented
SYMMETRY TwoAlike
CHECK_DEADLOCK FALSE
