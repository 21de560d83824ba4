SPECIFICATION Spec
CONSTANTS
    fg = fg
    bg = bg
    Commands <- Both
    Background <- OneBackground
    MaxBackground = 1
    Settings <- Hard
INVARIANTS
    TypeOK
    ReleasedMeansWaited
    StopAnswerIsFinal
    UnreportedIsEnded
PROPERTY EndsQuietOrKept
CHECK_DEADLOCK FALSE
