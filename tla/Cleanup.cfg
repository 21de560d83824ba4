SPECIFICATION Spec
CONSTANTS
    s1 = s1
    s2 = s2
    o1 = o1
    SessionIds = {s1, s2}
    Old = {s2}
    own = own
    other = other
    Agents = {own, other}
    Own = own
    Placements <- Placed
    Ops = {o1}
    Faults = {"ssh", "ps", "io", "kill", "config"}
    Versions = 2
INVARIANTS
    TypeOK
    FindableOutput
    ForgottenLeavesNothing
PROPERTIES
    NothingNeededGoes
CHECK_DEADLOCK FALSE
