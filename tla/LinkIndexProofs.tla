--------------------------- MODULE LinkIndexProofs ---------------------------
(* What LinkIndex promises for any paths, stems, tags and metadata.           *)
(* IInv carries the state between a failed update and its repair: a broken    *)
(* path is not in the index, so the operation that repairs it rebuilds the    *)
(* backlinks, and an incremental update happens only with exact tables.       *)
EXTENDS LinkIndex, TLAPS

(* The types the other facts need; the statistics are left out.               *)
TablesTyped ==
    /\ notes \in [Paths -> Metas \cup {None}]
    /\ tags \in [Tags -> SUBSET Paths]
    /\ listed \in [Paths -> Nat]
    /\ backlinks \in [Paths -> SUBSET Paths]
    /\ broken \subseteq Paths
    /\ clobbers \in Nat

BrokenNotIndexed == Orderly => \A p \in broken : notes[p] = None

IInv ==
    /\ TablesTyped
    /\ TagNeverMissed
    /\ TagsExact
    /\ ResolverExact
    /\ BrokenNotIndexed
    /\ BacklinksExact
    /\ StatsExact

USE StemAssumption, MetasAssumption, NoneAssumption, HiddenAssumption

------------------------------------------------------------------------------
(* The operators.                                                             *)

(* remove_note_contributions leaves a tag table.                              *)
LEMMA UntaggedType ==
  ASSUME TablesTyped, NEW p \in Paths
  PROVE  Untagged(p) \in [Tags -> SUBSET Paths]
BY DEF Untagged, TablesTyped

(* So does the insertion of a note's tags.                                    *)
LEMMA TaggedType ==
  ASSUME NEW tg \in [Tags -> SUBSET Paths], NEW p \in Paths, NEW m \in Metas
  PROVE  Tagged(tg, p, m) \in [Tags -> SUBSET Paths]
BY DEF Tagged

(* rebuild_backlinks gives a table of paths.                                  *)
LEMMA RebuiltType ==
  ASSUME NEW n, NEW l
  PROVE  Rebuilt(n, l) \in [Paths -> SUBSET Paths]
BY DEF Rebuilt, Indexed

(* update_backlinks_for_file on exact tables and an unchanged resolver gives  *)
(* what rebuild_backlinks would.                                              *)
LEMMA RelinkedIsRebuilt ==
  ASSUME TablesTyped, NEW p \in Paths, NEW m \in Metas, NEW l,
         notes[p] # None,
         backlinks = Rebuilt(notes, l)
  PROVE  Relinked(p, notes[p], m, l) = Rebuilt([notes EXCEPT ![p] = m], l)
<1> DEFINE n == [notes EXCEPT ![p] = m]
           left == Relinked(p, notes[p], m, l)
           right == Rebuilt(n, l)
<1>1. n[p] = m /\ m # None /\ \A s \in Paths \ {p} : n[s] = notes[s]
  BY DEF TablesTyped
<1>2. ASSUME NEW q \in Paths PROVE left[q] = right[q]
  <2>1. backlinks[q] = {s \in Indexed(notes) : LinksTo(l, notes[s], q)}
    BY DEF Rebuilt
  <2>2. right[q] = {s \in Indexed(n) : LinksTo(l, n[s], q)}
    BY DEF Rebuilt
  <2>3. p \in left[q] <=> LinksTo(l, m, q)
    BY <2>1 DEF Relinked, Indexed
  <2>4. p \in right[q] <=> LinksTo(l, m, q)
    BY <1>1, <2>2 DEF Indexed
  <2>5. ASSUME NEW s \in Paths \ {p} PROVE s \in left[q] <=> s \in right[q]
    <3>1. s \in left[q] <=> s \in backlinks[q]
      BY DEF Relinked
    <3>2. s \in right[q] <=> s \in backlinks[q]
      BY <1>1, <2>1, <2>2 DEF Indexed
    <3> QED
      BY <3>1, <3>2
  <2>6. left[q] \subseteq Paths /\ right[q] \subseteq Paths
    <3>1. backlinks[q] \subseteq Paths
      BY DEF TablesTyped
    <3>2. left[q] \subseteq backlinks[q] \cup {p}
      BY DEF Relinked
    <3> QED
      BY <3>1, <3>2, <2>2 DEF Indexed
  <2> HIDE DEF left, right
  <2>7. \A s : s \in left[q] <=> s \in right[q]
    BY <2>3, <2>4, <2>5, <2>6
  <2> QED
    BY <2>7
<1>3. left = [q \in Paths |-> left[q]] /\ right = [q \in Paths |-> right[q]]
  BY DEF Relinked, Rebuilt
<1> QED
  BY <1>2, <1>3

(* While every listed path is indexed once, the resolver is a fresh one.      *)
LEMMA ListedIsFresh ==
  ASSUME TablesTyped, ResolverExact, Settled
  PROVE  listed = FreshListed(notes)
<1>1. ASSUME NEW p \in Paths
      PROVE  listed[p] = IF notes[p] # None THEN 1 ELSE 0
  <2>1. listed[p] \in Nat
    BY DEF TablesTyped
  <2>2. notes[p] # None => listed[p] = 1
    BY DEF ResolverExact, Settled
  <2>3. notes[p] = None => listed[p] <= 1 /\ listed[p] # 1
    BY DEF ResolverExact, Settled
  <2> QED
    BY <2>1, <2>2, <2>3
<1>2. listed = [p \in Paths |-> listed[p]]
  BY DEF TablesTyped
<1>3. [p \in Paths |-> listed[p]] = [p \in Paths |-> IF notes[p] # None THEN 1 ELSE 0]
  BY <1>1
<1> QED
  BY <1>2, <1>3 DEF FreshListed

------------------------------------------------------------------------------
(* One fact of IInv after another.                                            *)

(* A build from nothing leaves exact tables (build_sync).                     *)
LEMMA InitEstablishesIInv == ASSUME Init PROVE IInv
<1>1. TablesTyped
  <2>1. notes \in [Paths -> Metas \cup {None}]
    BY DEF Init
  <2>2. tags \in [Tags -> SUBSET Paths]
    BY DEF Init, FreshTags, Indexed
  <2>3. listed \in [Paths -> Nat]
    BY DEF Init, FreshListed
  <2>4. backlinks \in [Paths -> SUBSET Paths]
    BY RebuiltType DEF Init
  <2> QED
    BY <2>1, <2>2, <2>3, <2>4 DEF Init, TablesTyped
<1>2. TagNeverMissed
  BY <1>1 DEF Init, TagNeverMissed, FreshTags, Indexed, TablesTyped
<1>3. TagsExact /\ BacklinksExact /\ BrokenNotIndexed /\ StatsExact
  BY DEF Init, TagsExact, BacklinksExact, BrokenNotIndexed, StatsExact
<1>4. ResolverExact
  BY DEF Init, ResolverExact, FreshListed
<1> QED
  BY <1>1, <1>2, <1>3, <1>4 DEF IInv


(* Each step is one operation of the index or none; Drop is remove_file and   *)
(* add_excluded_file.                                                         *)
LEMMA TypedNext == ASSUME TablesTyped, [Next]_vars PROVE TablesTyped'
<1>1. ASSUME NEW p \in Paths, NEW m \in Metas, Reindex(p, m) PROVE TablesTyped'
  <2>1. backlinks' \in [Paths -> SUBSET Paths]
    <3>1. Relinked(p, notes[p], m, listed') \in [Paths -> SUBSET Paths]
      BY DEF TablesTyped, Relinked
    <3> QED
      BY <1>1, <3>1, RebuiltType DEF Reindex
  <2>2. tags' \in [Tags -> SUBSET Paths]
    <3>1. Untagged(p) \in [Tags -> SUBSET Paths]
      BY UntaggedType
    <3>2. Tagged(Untagged(p), p, m) \in [Tags -> SUBSET Paths]
      BY <3>1, TaggedType
    <3> QED
      BY <1>1, <3>2 DEF Reindex
  <2>3. notes' \in [Paths -> Metas \cup {None}] /\ listed' \in [Paths -> Nat]
    BY <1>1 DEF Reindex, TablesTyped
  <2>4. broken' \subseteq Paths /\ clobbers' \in Nat
    BY <1>1 DEF Reindex, TablesTyped
  <2> QED
    BY <2>1, <2>2, <2>3, <2>4 DEF TablesTyped
<1>2. ASSUME NEW p \in Paths, ReindexFails(p) PROVE TablesTyped'
  <2>1. tags' \in [Tags -> SUBSET Paths]
    BY <1>2 DEF ReindexFails, Untagged, TablesTyped
  <2> QED
    BY <1>2, <2>1 DEF ReindexFails, TablesTyped
<1>3. ASSUME NEW p \in Paths, NEW ex, Drop(p, ex) PROVE TablesTyped'
  <2>1. tags' \in [Tags -> SUBSET Paths]
    BY <1>3 DEF Drop, Untagged, TablesTyped
  <2>2. backlinks' \in [Paths -> SUBSET Paths]
    BY <1>3, RebuiltType DEF Drop, Recompute
  <2> QED
    BY <1>3, <2>1, <2>2 DEF Drop, TablesTyped
<1>4. ASSUME NEW old \in Paths, NEW new \in Paths, NEW m \in Metas, RenameFile(old, new, m)
      PROVE  TablesTyped'
  <2>1. tags' \in [Tags -> SUBSET Paths]
    <3>1. Untagged(old) \in [Tags -> SUBSET Paths]
      BY UntaggedType
    <3>2. Tagged(Untagged(old), new, m) \in [Tags -> SUBSET Paths]
      BY <3>1, TaggedType
    <3> QED
      BY <1>4, <3>2 DEF RenameFile
  <2>2. backlinks' \in [Paths -> SUBSET Paths]
    BY <1>4, RebuiltType DEF RenameFile, Recompute
  <2>3. notes' \in [Paths -> Metas \cup {None}] /\ listed' \in [Paths -> Nat]
    BY <1>4 DEF RenameFile, RenamedPath, TablesTyped
  <2>4. broken' \subseteq Paths /\ clobbers' \in Nat
    BY <1>4 DEF RenameFile, Landing, TablesTyped
  <2> QED
    BY <2>1, <2>2, <2>3, <2>4 DEF TablesTyped
<1>5. ASSUME NEW old \in Paths, NEW new \in Paths, RenameFileFails(old, new)
      PROVE  TablesTyped'
  <2>1. tags' \in [Tags -> SUBSET Paths]
    BY <1>5 DEF RenameFileFails, Untagged, TablesTyped
  <2>2. notes' \in [Paths -> Metas \cup {None}] /\ listed' \in [Paths -> Nat]
    BY <1>5 DEF RenameFileFails, RenamedPath, TablesTyped
  <2>3. broken' \subseteq Paths /\ clobbers' \in Nat
    BY <1>5 DEF RenameFileFails, Landing, TablesTyped
  <2>4. backlinks' \in [Paths -> SUBSET Paths]
    BY <1>5 DEF RenameFileFails, TablesTyped
  <2> QED
    BY <2>1, <2>2, <2>3, <2>4 DEF TablesTyped
<1>6. CASE UNCHANGED vars
  BY <1>6 DEF vars, TablesTyped
<1> QED
  BY <1>1, <1>2, <1>3, <1>4, <1>5, <1>6 DEF Next, RemoveFile, AddExcludedFile

(* A note's own tags stay in the table: remove_note_contributions takes back  *)
(* only the path it is called with.                                           *)
LEMMA NeverMissedNext ==
  ASSUME TablesTyped, TagNeverMissed, [Next]_vars PROVE TagNeverMissed'
<1> USE DEF TagNeverMissed, Indexed, TablesTyped, Untagged
<1>1. ASSUME NEW p \in Paths, NEW m \in Metas, Reindex(p, m) PROVE TagNeverMissed'
  BY <1>1 DEF Reindex, Tagged
<1>2. ASSUME NEW p \in Paths, ReindexFails(p) PROVE TagNeverMissed'
  BY <1>2 DEF ReindexFails
<1>3. ASSUME NEW p \in Paths, NEW ex, Drop(p, ex) PROVE TagNeverMissed'
  BY <1>3 DEF Drop
<1>4. ASSUME NEW old \in Paths, NEW new \in Paths, NEW m \in Metas, RenameFile(old, new, m)
      PROVE  TagNeverMissed'
  BY <1>4 DEF RenameFile, Tagged
<1>5. ASSUME NEW old \in Paths, NEW new \in Paths, RenameFileFails(old, new)
      PROVE  TagNeverMissed'
  BY <1>5 DEF RenameFileFails
<1>6. CASE UNCHANGED vars
  BY <1>6 DEF vars
<1> QED
  BY <1>1, <1>2, <1>3, <1>4, <1>5, <1>6 DEF Next, RemoveFile, AddExcludedFile

(* The counter of renames onto listed paths only grows, and stands still only *)
(* when the new path of a rename was not listed.                              *)
LEMMA OrderlyBefore ==
  ASSUME TablesTyped, [Next]_vars, Orderly'
  PROVE  Orderly
BY DEF Orderly, TablesTyped, Next, Reindex, ReindexFails, RemoveFile, AddExcludedFile, Drop,
       RenameFile, RenameFileFails, Landing, vars

(* A rename that is not counted lands on a path nobody lists.                 *)
LEMMA OrderlyLanding ==
  ASSUME TablesTyped, ResolverExact, NEW new \in Paths, Landing(new), Orderly, Orderly'
  PROVE  listed[new] = 0 /\ notes[new] = None
<1>1. listed[new] = 0
  BY DEF TablesTyped, Landing, Orderly
<1> QED
  BY <1>1 DEF ResolverExact

(* Tags: what is taken back is what the note's metadata put there.            *)
LEMMA TagsNext ==
  ASSUME TablesTyped, TagsExact, ResolverExact, [Next]_vars PROVE TagsExact'
<1> SUFFICES ASSUME Orderly' PROVE tags' = FreshTags(notes')
  BY DEF TagsExact
<1>0. Orderly /\ tags = FreshTags(notes)
  BY OrderlyBefore DEF TagsExact
<1>1. ASSUME NEW p \in Paths, NEW m \in Metas, Reindex(p, m) PROVE tags' = FreshTags(notes')
  BY <1>0, <1>1 DEF Reindex, Tagged, Untagged, FreshTags, Indexed, TablesTyped
<1>2. ASSUME NEW p \in Paths, ReindexFails(p) PROVE tags' = FreshTags(notes')
  BY <1>0, <1>2 DEF ReindexFails, Untagged, FreshTags, Indexed, TablesTyped
<1>3. ASSUME NEW p \in Paths, NEW ex, Drop(p, ex) PROVE tags' = FreshTags(notes')
  BY <1>0, <1>3 DEF Drop, Untagged, FreshTags, Indexed, TablesTyped
<1>4. ASSUME NEW old \in Paths, NEW new \in Paths, NEW m \in Metas,
             old # new, RenameFile(old, new, m)
      PROVE  tags' = FreshTags(notes')
  <2>1. notes[new] = None
    BY <1>0, <1>4, OrderlyLanding DEF RenameFile
  <2> QED
    BY <1>0, <1>4, <2>1 DEF RenameFile, Tagged, Untagged, FreshTags, Indexed, TablesTyped
<1>5. ASSUME NEW old \in Paths, NEW new \in Paths, RenameFileFails(old, new)
      PROVE  tags' = FreshTags(notes')
  BY <1>0, <1>5 DEF RenameFileFails, Untagged, FreshTags, Indexed, TablesTyped
<1>6. CASE UNCHANGED vars
  BY <1>0, <1>6 DEF vars
<1> QED
  BY <1>1, <1>2, <1>3, <1>4, <1>5, <1>6 DEF Next, RemoveFile, AddExcludedFile

(* The resolver follows the notes; only a failed rename leaves an entry       *)
(* without a note, and its path is broken.                                    *)
LEMMA ResolverNext ==
  ASSUME TablesTyped, ResolverExact, BrokenNotIndexed, [Next]_vars
  PROVE  ResolverExact' /\ BrokenNotIndexed'
<1> SUFFICES ASSUME Orderly' PROVE ResolverExact' /\ BrokenNotIndexed'
  BY DEF ResolverExact, BrokenNotIndexed
<1>0. Orderly
  BY OrderlyBefore
<1> USE DEF ResolverExact, BrokenNotIndexed, TablesTyped
<1>1. ASSUME NEW p \in Paths, NEW m \in Metas, Reindex(p, m)
      PROVE  ResolverExact' /\ BrokenNotIndexed'
  BY <1>0, <1>1 DEF Reindex
<1>2. ASSUME NEW p \in Paths, ReindexFails(p) PROVE ResolverExact' /\ BrokenNotIndexed'
  BY <1>0, <1>2 DEF ReindexFails
<1>3. ASSUME NEW p \in Paths, NEW ex, Drop(p, ex) PROVE ResolverExact' /\ BrokenNotIndexed'
  BY <1>0, <1>3 DEF Drop
<1>4. ASSUME NEW old \in Paths, NEW new \in Paths, NEW m \in Metas,
             old # new, RenameFile(old, new, m)
      PROVE  ResolverExact' /\ BrokenNotIndexed'
  <2>1. listed[new] = 0
    BY <1>0, <1>4, OrderlyLanding DEF RenameFile
  <2> QED
    BY <1>0, <1>4, <2>1 DEF RenameFile, RenamedPath
<1>5. ASSUME NEW old \in Paths, NEW new \in Paths, old # new, RenameFileFails(old, new)
      PROVE  ResolverExact' /\ BrokenNotIndexed'
  <2>1. listed[new] = 0 /\ notes[new] = None
    BY <1>0, <1>5, OrderlyLanding DEF RenameFileFails
  <2> QED
    BY <1>0, <1>5, <2>1 DEF RenameFileFails, RenamedPath
<1>6. CASE UNCHANGED vars
  BY <1>0, <1>6 DEF vars
<1> QED
  BY <1>1, <1>2, <1>3, <1>4, <1>5, <1>6 DEF Next, RemoveFile, AddExcludedFile

(* Backlinks: a failure opens a repair, a rebuild closes it, and in between   *)
(* exact tables only incremental updates occur.                               *)
LEMMA BacklinksNext ==
  ASSUME IInv, [Next]_vars, TablesTyped', ResolverExact'
  PROVE  BacklinksExact'
<1> SUFFICES ASSUME Settled' PROVE backlinks' = Rebuilt(notes', FreshListed(notes'))
  BY DEF BacklinksExact
<1>0. Orderly
  BY OrderlyBefore DEF IInv, Settled
<1>1. listed' = FreshListed(notes')
  <2>1. ASSUME NEW p \in Paths
        PROVE  listed'[p] = IF notes'[p] # None THEN 1 ELSE 0
    <3>1. listed'[p] \in Nat
      BY DEF TablesTyped
    <3>2. notes'[p] # None => listed'[p] = 1
      BY DEF ResolverExact, Settled
    <3>3. notes'[p] = None => listed'[p] <= 1 /\ listed'[p] # 1
      BY DEF ResolverExact, Settled
    <3> QED
      BY <3>1, <3>2, <3>3
  <2>2. listed' = [p \in Paths |-> listed'[p]]
    BY DEF TablesTyped
  <2> QED
    BY <2>1, <2>2 DEF FreshListed
<1>2. ASSUME NEW p \in Paths, NEW m \in Metas, Reindex(p, m)
      PROVE  backlinks' = Rebuilt(notes', listed')
  <2>1. CASE notes[p] = None
    BY <1>2, <2>1 DEF Reindex
  <2>2. CASE notes[p] # None
    <3>1. Settled
      BY <1>0, <1>2, <2>2 DEF IInv, BrokenNotIndexed, Settled, Reindex
    <3>2. listed = FreshListed(notes)
      BY <3>1, ListedIsFresh DEF IInv
    <3>3. backlinks = Rebuilt(notes, listed)
      BY <3>1, <3>2 DEF IInv, BacklinksExact
    <3>4. listed' = listed
      BY <1>0, <1>2, <2>2 DEF Reindex, IInv, ResolverExact, TablesTyped
    <3>5. backlinks' = Relinked(p, notes[p], m, listed)
      BY <1>2, <2>2, <3>4 DEF Reindex
    <3> QED
      BY <1>2, <2>2, <3>3, <3>4, <3>5, RelinkedIsRebuilt DEF Reindex, IInv
  <2> QED
    BY <2>1, <2>2
<1>3. ASSUME NEW p \in Paths, ReindexFails(p) PROVE FALSE
  BY <1>3 DEF ReindexFails, Settled
<1>4. ASSUME NEW p \in Paths, NEW ex, Drop(p, ex)
      PROVE  backlinks' = Rebuilt(notes', listed')
  BY <1>4 DEF Drop, Recompute
<1>5. ASSUME NEW old \in Paths, NEW new \in Paths, NEW m \in Metas, RenameFile(old, new, m)
      PROVE  backlinks' = Rebuilt(notes', listed')
  BY <1>5 DEF RenameFile, Recompute
<1>6. ASSUME NEW old \in Paths, NEW new \in Paths, RenameFileFails(old, new) PROVE FALSE
  BY <1>6 DEF RenameFileFails, Settled
<1>7. ASSUME UNCHANGED vars PROVE backlinks' = Rebuilt(notes', listed')
  <2>1. Settled
    BY <1>7 DEF vars, Settled, Orderly
  <2>2. backlinks = Rebuilt(notes, listed)
    BY <2>1, ListedIsFresh DEF IInv, BacklinksExact
  <2> QED
    BY <1>7, <2>2 DEF vars
<1>8. backlinks' = Rebuilt(notes', listed')
  BY <1>2, <1>3, <1>4, <1>5, <1>6, <1>7 DEF Next, RemoveFile, AddExcludedFile
<1> QED
  BY <1>1, <1>8

(* Statistics: every operation that succeeds ends in recompute_stats.         *)
LEMMA StatsNext == ASSUME StatsExact, [Next]_vars PROVE StatsExact'
BY DEF StatsExact, Settled, Orderly, Next, Reindex, ReindexFails, RemoveFile, AddExcludedFile,
       Drop, Recompute, RenameFile, RenameFileFails, vars

(* The facts together.                                                        *)
LEMMA IInvNext == ASSUME IInv, [Next]_vars PROVE IInv'
<1>1. TablesTyped'
  BY TypedNext DEF IInv
<1>2. TagNeverMissed' /\ TagsExact'
  BY NeverMissedNext, TagsNext DEF IInv
<1>3. ResolverExact' /\ BrokenNotIndexed'
  BY ResolverNext DEF IInv
<1>4. BacklinksExact'
  BY <1>1, <1>3, BacklinksNext
<1>5. StatsExact'
  BY StatsNext DEF IInv
<1> QED
  BY <1>1, <1>2, <1>3, <1>4, <1>5 DEF IInv

(* The inductive invariant holds of every run of the index.                   *)
THEOREM Invariance == Spec => []IInv
BY InitEstablishesIInv, IInvNext, PTL DEF Spec

------------------------------------------------------------------------------
(* The results.                                                               *)

(* Without a rename onto a listed path, incremental backlinks                 *)
(* (update_backlinks_for_file) equal a rebuild with a fresh resolver whenever *)
(* no failed update waits for its repair.                                     *)
THEOREM ExactBacklinks == Spec => []BacklinksExact
<1>1. IInv => BacklinksExact
  BY DEF IInv
<1> QED
  BY <1>1, Invariance, PTL

(* Without such a rename the tag table is exact, failures included            *)
(* (remove_note_contributions).                                               *)
THEOREM ExactTags == Spec => []TagsExact
<1>1. IInv => TagsExact
  BY DEF IInv
<1> QED
  BY <1>1, Invariance, PTL

(* Without such a rename the resolver lists each indexed note once, and       *)
(* otherwise at most what a failed rename left (rename_file).                 *)
THEOREM ExactResolver == Spec => []ResolverExact
<1>1. IInv => ResolverExact
  BY DEF IInv
<1> QED
  BY <1>1, Invariance, PTL

(* A search by tag finds every note that has the tag, whatever happened       *)
(* (notes_with_tag).                                                          *)
THEOREM NoTagMissed == Spec => []TagNeverMissed
<1>1. IInv => TagNeverMissed
  BY DEF IInv
<1> QED
  BY <1>1, Invariance, PTL

(* The statistics are those of the tables unless a failed update waits for    *)
(* its repair (recompute_stats).                                              *)
THEOREM ExactStats == Spec => []StatsExact
<1>1. IInv => StatsExact
  BY DEF IInv
<1> QED
  BY <1>1, Invariance, PTL

(* All four at once: the incremental index is the index of a build from       *)
(* nothing (index.rs build_sync).                                             *)
THEOREM ExactTables == Spec => []TablesExact
<1>1. IInv => TablesExact
  BY DEF IInv, TablesExact
<1> QED
  BY <1>1, Invariance, PTL
==============================================================================
