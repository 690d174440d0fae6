SPECIFICATION Spec
CONSTANTS
    c1 = c1
    c2 = c2
    c3 = c3
    p = p
    q = q
    None = None
    Calls <- MCCalls
    Packages <- OnePackage
    MaxCrashes = 0
PROPERTIES
    RebuildTakesNothing
