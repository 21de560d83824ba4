SPECIFICATION Spec
CONSTANTS
    fg = fg
    bg = bg
    Commands <- Both
    Background <- OneBackground
    MaxBackground = 1
    Settings <- NoThreadToStop
INVARIANT ReleasedMeansGone
CHECK_DEADLOCK FALSE
