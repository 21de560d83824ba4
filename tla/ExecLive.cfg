SPECIFICATION FairSpec
CONSTANTS
    fg = fg
    bg = bg
    Commands <- Both
    Background <- OneBackground
    MaxBackground = 1
    Settings <- Orderly
PROPERTIES
    ServerEnds
    StopIsCarriedOut
CHECK_DEADLOCK FALSE
