SPECIFICATION Spec
CONSTANTS
    p1 = p1
    p2 = p2
    fa = fa
    fb = fb
    fc = fc
    fd = fd
    fe = fe
    ff = ff
    Patches = {p1, p2}
    Files <- OfOneFile
    Paths = {fa, fb, fc, fd, fe, ff}
    AtFirst <- InTree
    Faults = {}
PROPERTIES
    NothingOverwritten
CHECK_DEADLOCK FALSE
