\* Lines cut, joined and read in pieces; a buffer that two lines and a half fill.
SPECIFICATION FairSpec
CONSTANTS
    Streams <- MCStreams
    Numbers <- MCNumbers
    MaxBuffer = 24
    MaxGarbage = 6
INVARIANTS
    TypeOK
    HandsOnExactlyTheAnswers
    HeldOnlyBehindOthers
PROPERTIES
    NoAnswerStays
CHECK_DEADLOCK FALSE
