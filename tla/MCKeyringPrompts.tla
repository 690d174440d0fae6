--------------------------- MODULE MCKeyringPrompts ---------------------------
(* The keyring asks under a handle for two passwords and for access, GnuPG for a password. *)
EXTENDS KeyringPrompts, TLC

CONSTANTS first, again, access, passphrase, login, gpg

MCCalls == {first, again, access, passphrase}
MCHandles == {login, gpg}
MCHandleOf == [c \in MCCalls |-> IF c = passphrase THEN gpg ELSE login]
MCPasswords == {first, again, passphrase}
MCKeyring == {login}

Symmetry == Permutations({first, again})
=============================================================================
