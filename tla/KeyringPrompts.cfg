SPECIFICATION Spec
CONSTANTS
    first = first
    again = again
    access = access
    passphrase = passphrase
    login = login
    gpg = gpg
    None = None
    Calls <- MCCalls
    Handles <- MCHandles
    HandleOf <- MCHandleOf
    Passwords <- MCPasswords
    Keyring <- MCKeyring
SYMMETRY Symmetry
INVARIANTS
    TypeOK
    ExactlyOnce
    InTurn
    ClosedIsOver
