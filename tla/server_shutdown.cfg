\* What runs when the serial port is closed.
SPECIFICATION Spec
CONSTANTS
    g1 = g1
    g2 = g2
    bad = bad
    NoGoal = NoGoal
    Goals <- TwoGoals
    MalformedGoals = {}
    IdSpace = 2
    Threads = 2
INVARIANTS
    WorkersStopFirst
CHECK_DEADLOCK FALSE
