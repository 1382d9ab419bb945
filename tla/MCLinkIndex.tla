---------------------------- MODULE MCLinkIndex ----------------------------
(* Instances of LinkIndex for TLC: two notes of one stem in two folders, a    *)
(* third of its own stem, and one excluded path that shares the first stem.   *)
EXTENDS LinkIndex, TLC

CONSTANTS ax, bx, y, hx, X, Y, t1, t2

FourPaths == {ax, bx, y, hx}
TwoStems == {X, Y}
FolderStems == ax :> X @@ bx :> X @@ y :> Y @@ hx :> X
TwoTags == {t1, t2}
OneHidden == {hx}

(* Links by bare name, by path, both, and none; tags shared and not.          *)
SomeMetas ==
    { [tags |-> {}, links |-> {}],
      [tags |-> {t1}, links |-> {X}],
      [tags |-> {t1, t2}, links |-> {ax, Y}] }
==============================================================================
