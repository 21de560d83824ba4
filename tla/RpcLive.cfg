SPECIFICATION PatientSpec
CONSTANTS
    a1 = a1
    a2 = a2
    c1 = c1
    c2 = c2
    c3 = c3
    k1 = k1
    n1 = n1
    n2 = n2
    i1 = i1
    i2 = i2
    NoSession = NoSession
    NoNode = NoNode
    Starts = {c1, c2, c3}
    Asks = {a1, a2}
    Keys = {k1}
    KeyOf <- OneKey
    InputOf <- TwoInputs
    Nodes = {n1, n2}
    Bound = n1
    Settings <- Mended
PROPERTIES
    EverySessionEnds
    StoppedSessionEnds
CHECK_DEADLOCK FALSE
