SPECIFICATION FairSpec
CONSTANTS
    s1 = s1
    s2 = s2
    person = person
    Run = Run
    Free = Free
    Stops = {s1, s2, person}
    Assigned = {s1, s2}
    Faults = {"late", "ctl", "die", "slay", "disk", "ps", "clean"}
INVARIANTS
    TypeOK
    ConfirmedIsQuiet
    OutcomeIsTrue
PROPERTIES
    KeepsPromise
    StopsAnswer
CHECK_DEADLOCK FALSE
