SPECIFICATION Spec
CONSTANTS
    Packages <- MCPackages
    Entries <- MCEntries
    Ancestors <- MCAncestors
    Placed <- MCPlaced
    Own <- MCOwn
    Libraries <- MCLibraries
    Failing = {"settle", "clear"}
    MaxChanges = 2
    MaxCuts = 0
    MaxFaults = 2
INVARIANTS
    NothingLost
