SPECIFICATION Spec
CONSTANTS
    v1 = v1
    v2 = v2
    r = r
    None = None
    Versions <- MCVersions
    Names <- MCNames
    Repos <- MCRepos
    Offers <- MCOffers
    Fedora <- MCFedora
    Needs <- MCNeeds
    Failing <- AllSteps
    MaxAsks = 3
    MaxStages = 1
    MaxRestarts = 1
    MaxFaults = 2
SYMMETRY Symmetry
INVARIANTS
    TypeOK
    DoneIsCurrent
    NoStrayFiles
PROPERTIES
    InUseHasSources
    FilesStay
