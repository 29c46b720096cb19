\* Two frames, whose answers may come in pieces, late, or not at all.
SPECIFICATION FairSpec
CONSTANTS
    PinChoices <- SomePins
    BlinkCounts <- NoneOrOne
    MaxDebugLines = 1
INVARIANTS
    TypeOK
    OnlyEndsAreCut
    EveryLineReceived
    PassMeansAnswered
    FailMeansFailed
PROPERTIES
    ScriptReturns
