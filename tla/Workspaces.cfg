SPECIFICATION Spec
CONSTANTS
    v = v
    w = w
    dialog = dialog
    app = app
    Windows <- MCWindows
    Fleeting <- MCFleeting
    Apps <- MCApps
    MaxWorkspaces = 3
    MaxBlocks = 1
SYMMETRY Symmetry
INVARIANTS
    TypeOK
    OneFree
PROPERTIES
    NothingTakenAway
