\* One serial id for two goals: ids come round while goals wait.
SPECIFICATION Spec
CONSTANTS
    g1 = g1
    g2 = g2
    bad = bad
    NoGoal = NoGoal
    Goals <- TwoGoals
    MalformedGoals = {}
    IdSpace = 1
    Threads = 2
INVARIANTS
    MappingsAreLive
    WokenGoalsHaveResponse
SYMMETRY TwoAlike
CHECK_DEADLOCK FALSE
