---------------------------- MODULE MCVaultSync ----------------------------
(* Instances of VaultSync small enough for TLC.                               *)
EXTENDS VaultSync

CONSTANTS p1, p2, c1, k1, k2

TwoPaths == {p1, p2}
OneContent == {c1}
TwoCalls == {k1, k2}

AnyVault == [Paths -> Contents \cup {Garbled, None}]

\* A hidden path is one that only the build does not index.
Owned(o, k1st, k2nd) == [owner |-> o, kind |-> [p \in Paths |-> IF p = p1 THEN k1st ELSE k2nd]]
TwoOwners == {Owned("server", "plain", "plain"), Owned("server", "hidden", "excluded"),
              Owned("daemon", "plain", "excluded"), Owned("daemon", "hidden", "own")}
==============================================================================
