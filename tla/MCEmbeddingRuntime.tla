------------------------- MODULE MCEmbeddingRuntime -------------------------
(* Instances of EmbeddingRuntime small enough for TLC.                     *)
EXTENDS EmbeddingRuntime

CONSTANTS m1, m2   \* two embedding models

OneNote  == {1}
TwoNotes == {1, 2}
OneSpace == {m1}
TwoSpaces == {m1, m2}

MCTitles == {"title"}
\* One chunk, two chunks, and a body chunk_note makes nothing of.
MCBodies == {"short", "long", "blank"}
MCPieces == [b \in MCBodies |-> CASE b = "short" -> 1
                                  [] b = "long"  -> 2
                                  [] b = "blank" -> 0]
Content(b) == [title |-> "title", body |-> b]
AnyContent == {Content(b) : b \in MCBodies}
RealContent == {Content(b) : b \in {"short", "long"}}
OneContent  == {Content("short")}

NoLegacy == {Absent}
\* The cache of a run that ended during its first pass, with a short note 1.
OldCache(first, sp) ==
    [store |-> [n \in Notes |-> IF n = 1 THEN VectorsOf(Content("short"), "short", sp)
                                         ELSE NoVectors],
     first |-> first, space |-> sp]
HalfCaches == {Absent, OldCache(FALSE, m1)}
=============================================================================
