\* Four answers in one burst, on a line that falls silent.
SPECIFICATION Spec
CONSTANTS
    Streams <- OneBurst
    Numbers <- MCNumbers
    MaxBuffer = 50
    MaxGarbage = 6
INVARIANTS
    ArrivedAnswersAreNotMissing
CHECK_DEADLOCK FALSE
