SPECIFICATION Spec
CONSTANTS
    s1 = s1
    s2 = s2
    person = person
    Run = Run
    Free = Free
    Stops = {s1}
    Assigned = {s1}
    Faults = {"late"}
INVARIANTS
    StopLeavesNothing
CHECK_DEADLOCK FALSE
