\* One executor thread, one goal that cannot be converted.
SPECIFICATION FairSpec
CONSTANTS
    g1 = g1
    g2 = g2
    bad = bad
    NoGoal = NoGoal
    Goals <- OneMalformed
    MalformedGoals = {bad}
    IdSpace = 2
    Threads = 1
PROPERTIES
    EveryGoalEnds
    InterruptEndsServer
CHECK_DEADLOCK FALSE
