SPECIFICATION Spec
CONSTANTS
    r1 = r1
    r2 = r2
    r3 = r3
    r4 = r4
    s1 = s1
    s2 = s2
    nobody = nobody
    Runs = {r1, r2, r3, r4}
    Servers = {s1, s2}
    RunsLimit = 2
    BytesLimit = 2
    PageLimits = {1, 4}
    Settings <- Cases
INVARIANTS
    TypeOK
    KeptWhileRunning
    FitsWhenQuiet
    PageIsWhole
CHECK_DEADLOCK FALSE
