SPECIFICATION Spec
CONSTANTS
    a = a
    v1 = v1
    v2 = v2
    s1 = s1
    None = None
    Broken = Broken
    Ids <- MCIds
    Versions <- MCVersions
    Values <- MCValues
    MaxInstances = 2
    MaxRuns = 3
    MaxCrashes = 3
SYMMETRY Symmetry
INVARIANTS
    TypeOK
    InStepWithChoices
    StoredIsKept
PROPERTIES
    LateRunsDoNothing
    TwoCrashesTurnOff
