------------------------- MODULE MCDaemonBootstrap --------------------------
(* Small semantic homes for DaemonBootstrap. *)
EXTENDS DaemonBootstrap

CONSTANTS a, b, x, n,       \* two packaged clients, one with an override, one without
          sib, own, ext,    \* beside the clients, in the home, the override
          way, gone,        \* on PATH, and an override of before that was removed
          m1, m2

TwoPackaged == {a, b}
Three       == {a, x, n}

AllBinaries == {sib, own, ext, way, gone}
AllModels   == {m1, m2}
MCOverride  == [c \in Clients |-> IF c = x THEN ext ELSE None]
MCSibling   == [c \in Clients |-> IF c \in {a, b} THEN sib ELSE None]
MCModel     == [c \in Clients |-> IF c = a THEN m1 ELSE m2]
MCRelease   == [c \in Clients |-> 1]
EnsureOnly  == [c \in Clients |-> {"ensure"}]
AllOps      == [c \in Clients |->
                   IF c = a THEN {"ensure", "activate", "reconcile", "prepare"}
                            ELSE {"ensure"}]
OnlySibling == {sib}
\* A daemon may come to be on PATH too.
SiblingOrPath == {sib, way}
AllVersions == 1..4
OlderAPI    == 1..3
OldVersions == {1}
NoVersions  == {}

\* The package is one version ahead of the daemon that ran last.
AheadByOne == [f \in Binaries |-> IF f = sib THEN 2 ELSE 1]
\* The same, and the override speaks an API of its own.  No daemon was downloaded
\* or is on PATH, and the override of before is gone.
ForeignAPI == [AheadByOne EXCEPT ![ext] = 4, ![own] = 0, ![way] = 0, ![gone] = 0]

Entry(binary, origin) ==
    [version |-> 1, origin |-> origin, pid |-> 1, binary |-> binary, model |-> m2]
NoManifest   == {None}
OneOrNone    == {None, Entry(sib, "sibling")}
OldManifests == {Entry(sib, "sibling"), Entry(sib, "unknown"),
                 Entry(own, "managed"), Entry(way, "path"),
                 Entry(ext, "override"), Entry(gone, "override"),
                 [Entry(sib, "sibling") EXCEPT !.version = 3]}
=============================================================================
