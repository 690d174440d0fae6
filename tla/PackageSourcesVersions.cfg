SPECIFICATION FairSpec
CONSTANTS
    v1 = v1
    v2 = v2
    r = r
    None = None
    Versions <- MCVersions
    Names <- MCNames
    Repos <- MCRepos
    Offers <- MCOffers
    Fedora <- MCFedora
    Needs <- MCNeeds
    Failing <- AllSteps
    MaxAsks = 4
    MaxStages = 1
    MaxRestarts = 2
    MaxFaults = 0
PROPERTIES
    EveryVersionReady
    RunningVersionReady
