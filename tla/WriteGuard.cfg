SPECIFICATION Spec
CONSTANTS
    s1 = s1
    s2 = s2
    s3 = s3
    o1 = o1
    f1 = f1
    f2 = f2
    f3 = f3
    Nobody = Nobody
    NoFile = NoFile
    Servers <- ThreeServers
    Observations <- OneObservation
    Files <- ThreeFiles
    BusyRetries = 1
    PromptReaders = TRUE
SYMMETRY Interchangeable
INVARIANTS
    TypeOK
    OneWriter
    ExplicitUnlock
    StrandedForCause
    BusyMeansOwned
PROPERTIES
    FreeIsTrueWhenSaid
    KeepsPromise
CHECK_DEADLOCK FALSE
