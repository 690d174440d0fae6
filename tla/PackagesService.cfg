SPECIFICATION FairSpec
CONSTANTS
    c1 = c1
    c2 = c2
    c3 = c3
    p = p
    q = q
    None = None
    Calls <- TwoCalls
    Packages <- MCPackages
    MaxCrashes = 1
INVARIANTS
    TypeOK
    OneChange
    Exclusive
    ReadIsTrue
    OneJob
PROPERTIES
    
    Answered
