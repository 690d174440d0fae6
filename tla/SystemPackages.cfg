SPECIFICATION FairSpec
CONSTANTS
    Packages <- MCPackages
    Entries <- MCEntries
    Ancestors <- MCAncestors
    Placed <- MCPlaced
    Own <- MCOwn
    Libraries <- MCLibraries
    Failing <- AllSteps
    MaxChanges = 2
    MaxCuts = 2
    MaxFaults = 2
INVARIANTS
    TypeOK
    Tracked
    NothingLeft
    PutBack
    InStep
PROPERTIES
    OthersEntriesStay
    OnlyFailedFirstChangeLoses
    KeepsPromise
    Converges
