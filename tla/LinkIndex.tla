------------------------------ MODULE LinkIndex ------------------------------
(* The in-memory index of a vault: VaultIndex of vault/index.rs with the      *)
(* LinkResolver of vault/wikilink.rs.                                         *)
(*                                                                            *)
(* Every operation runs under the write lock of the index, so it is one step. *)
(* What it finds on disk is an input: a note as it parses, or nothing (gone,  *)
(* not UTF-8, a front matter that is not YAML).  The index keeps derived      *)
(* tables (tags, link resolver, backlinks, statistics) that a change of one   *)
(* note updates in place; the properties compare them with the tables a       *)
(* build from nothing over the same notes would give.                         *)
(*                                                                            *)
(* The resolver's two maps are one variable.  by_stem holds, per stem, a list *)
(* of paths; listed[p] is the number of times p occurs in the list of its     *)
(* stem.  by_path has p exactly when listed[p] > 0, provided no two paths     *)
(* have the same key (none differ only in case or Unicode form).              *)
EXTENDS Naturals, FiniteSets

CONSTANTS
    Paths,        \* notes' paths in the vault
    Stems,        \* file names without folder and extension, in lower case
    StemOf,       \* the stem of each path
    Tags,
    Metas,        \* what a note can parse to: its tags and its link targets
    Hidden,       \* paths the exclusion patterns match
    None,
    MaxClobbers   \* bound: renames onto a path the resolver already lists

ASSUME StemAssumption == StemOf \in [Paths -> Stems] /\ Paths \cap Stems = {}
ASSUME MetasAssumption == Metas \subseteq [tags : SUBSET Tags, links : SUBSET (Paths \cup Stems)]
ASSUME NoneAssumption == None \notin Metas
ASSUME HiddenAssumption == Hidden \subseteq Paths
ASSUME FiniteAssumption == IsFiniteSet(Paths) /\ IsFiniteSet(Tags)
ASSUME BoundAssumption == MaxClobbers \in Nat

VARIABLES
    notes,       \* path -> metadata, None when not indexed
    tags,        \* tag -> paths
    listed,      \* path -> occurrences in the resolver
    backlinks,   \* path -> paths of the notes that link to it
    excluded,    \* excluded paths known to exist on disk
    stats,       \* what the last recompute_stats counted
    broken,      \* history: paths whose last update ended in an error
    clobbers     \* history: renames that landed on a listed path

vars == <<notes, tags, listed, backlinks, excluded, stats, broken, clobbers>>

------------------------------------------------------------------------------
(* Lookups and derived tables.                                                *)

Indexed(n) == {p \in Paths : n[p] # None}

(* A target with a slash names its path.  A bare name resolves when its       *)
(* stem's list has exactly one entry.                                         *)
Resolves(l, t, p) ==
    \/ t = p /\ l[p] > 0
    \/ /\ t = StemOf[p]
       /\ l[p] = 1
       /\ \A q \in Paths \ {p} : StemOf[q] = t => l[q] = 0

LinksTo(l, m, p) == \E t \in m.links : Resolves(l, t, p)

Rebuilt(n, l) ==
    [q \in Paths |-> {p \in Indexed(n) : LinksTo(l, n[p], q)}]

(* Only the entries the changed note's old and new links resolve to.          *)
Relinked(p, old, new, l) ==
    [q \in Paths |->
        (IF LinksTo(l, old, q) THEN backlinks[q] \ {p} ELSE backlinks[q])
            \cup (IF LinksTo(l, new, q) THEN {p} ELSE {})]

(* remove_note_contributions: an empty entry is dropped from the map.         *)
Untagged(p) ==
    [t \in Tags |-> IF notes[p] # None /\ t \in notes[p].tags THEN tags[t] \ {p} ELSE tags[t]]

(* Mutation: a tag other notes have already is not extended.                  *)
TaggedIfNew(tg, p, m) ==
    [t \in Tags |-> IF t \in m.tags /\ tg[t] = {} THEN {p} ELSE tg[t]]

Tagged(tg, p, m) == [t \in Tags |-> IF t \in m.tags THEN tg[t] \cup {p} ELSE tg[t]]

Counted(n, tg, ex) ==
    [notes |-> Cardinality(Indexed(n)),
     tags |-> Cardinality({t \in Tags : tg[t] # {}}),
     excluded |-> Cardinality(ex)]

(* Links, then statistics, over the new tables.                               *)
Recompute ==
    /\ backlinks' = Rebuilt(notes', listed')
    /\ stats' = Counted(notes', tags', excluded')

------------------------------------------------------------------------------
(* What a build from nothing gives over the notes n.                          *)

FreshTags(n) == [t \in Tags |-> {p \in Indexed(n) : t \in n[p].tags}]
FreshListed(n) == [p \in Paths |-> IF n[p] # None THEN 1 ELSE 0]

(* A note that does not parse is skipped; an excluded one is only counted.    *)
Init ==
    /\ notes \in {n \in [Paths -> Metas \cup {None}] : \A p \in Hidden : n[p] = None}
    /\ excluded \in SUBSET Hidden
    /\ tags = FreshTags(notes)
    /\ listed = FreshListed(notes)
    /\ backlinks = Rebuilt(notes, listed)
    /\ stats = Counted(notes, tags, excluded)
    /\ broken = {}
    /\ clobbers = 0

(* Mutation: a new note, too, updates only its own links.                     *)
ReindexInPlace(p, m) ==
    /\ notes' = [notes EXCEPT ![p] = m]
    /\ tags' = Tagged(Untagged(p), p, m)
    /\ listed' = [listed EXCEPT ![p] = 1]
    /\ excluded' = excluded \ {p}
    /\ backlinks' = Relinked(p, IF notes[p] = None THEN m ELSE notes[p], m, listed')
    /\ stats' = Counted(notes', tags', excluded')
    /\ broken' = broken \ {p}
    /\ UNCHANGED clobbers

(* The note's old contributions go first, then the file is parsed.            *)
Reindex(p, m) ==
    /\ notes' = [notes EXCEPT ![p] = m]
    /\ tags' = Tagged(Untagged(p), p, m)
    /\ listed' = [listed EXCEPT ![p] = 1]
    /\ excluded' = excluded \ {p}
    /\ backlinks' = IF notes[p] # None
                    THEN Relinked(p, notes[p], m, listed')
                    ELSE Rebuilt(notes', listed')
    /\ stats' = Counted(notes', tags', excluded')
    /\ broken' = broken \ {p}
    /\ UNCHANGED clobbers

(* The parse fails after the removals: the rest is left as it was.            *)
ReindexFails(p) ==
    /\ notes' = [notes EXCEPT ![p] = None]
    /\ tags' = Untagged(p)
    /\ listed' = [listed EXCEPT ![p] = 0]
    /\ excluded' = excluded \ {p}
    /\ broken' = broken \cup {p}
    /\ UNCHANGED <<backlinks, stats, clobbers>>

(* remove_file, and add_excluded_file when the path joins the excluded ones.  *)
Drop(p, ex) ==
    /\ notes' = [notes EXCEPT ![p] = None]
    /\ tags' = Untagged(p)
    /\ listed' = [listed EXCEPT ![p] = 0]
    /\ excluded' = ex
    /\ Recompute
    /\ broken' = broken \ {p}
    /\ UNCHANGED clobbers

RemoveFile(p) == Drop(p, excluded \ {p})
AddExcludedFile(p) == Drop(p, excluded \cup {p})

(* The target may be listed: it was deleted on disk and the watcher has not   *)
(* reported it yet, or the watcher reported the new file first.               *)
Landing(new) ==
    IF listed[new] > 0
    THEN clobbers < MaxClobbers /\ clobbers' = clobbers + 1
    ELSE UNCHANGED clobbers

RenamedPath(old, new) == [listed EXCEPT ![old] = 0, ![new] = @ + 1]

RenameFile(old, new, m) ==
    /\ Landing(new)
    /\ notes' = [notes EXCEPT ![old] = None, ![new] = m]
    /\ tags' = Tagged(Untagged(old), new, m)
    /\ listed' = RenamedPath(old, new)
    /\ excluded' = excluded \ {old}
    /\ Recompute
    /\ broken' = broken \ {old, new}

RenameFileFails(old, new) ==
    /\ Landing(new)
    /\ notes' = [notes EXCEPT ![old] = None]
    /\ tags' = Untagged(old)
    /\ listed' = RenamedPath(old, new)
    /\ excluded' = excluded \ {old}
    /\ backlinks' = [backlinks EXCEPT ![old] = {}]
    /\ broken' = (broken \ {old}) \cup {new}
    /\ UNCHANGED stats

(* Callers send an excluded path to add_excluded_file, any other to reindex.  *)
Next ==
    \/ \E p \in Paths \ Hidden : ReindexFails(p) \/ \E m \in Metas : Reindex(p, m)
    \/ \E p \in Paths : RemoveFile(p)
    \/ \E p \in Hidden : AddExcludedFile(p)
    \/ \E new \in Paths \ Hidden, old \in Paths :
        /\ old # new
        /\ RenameFileFails(old, new) \/ \E m \in Metas : RenameFile(old, new, m)

Spec == Init /\ [][Next]_vars

------------------------------------------------------------------------------
(* Properties.                                                                *)

TypeOK ==
    /\ notes \in [Paths -> Metas \cup {None}]
    /\ tags \in [Tags -> SUBSET Paths]
    /\ listed \in [Paths -> Nat]
    /\ backlinks \in [Paths -> SUBSET Paths]
    /\ excluded \subseteq Hidden
    /\ stats \in [notes : Nat, tags : Nat, excluded : Nat]
    /\ broken \subseteq Paths
    /\ clobbers \in 0..MaxClobbers

Orderly == clobbers = 0
Settled == Orderly /\ broken = {}

(* The backlinks updated in place are those of a rebuild with a fresh         *)
(* resolver, once every path whose update failed has been updated again       *)
(* (index.rs update_backlinks_for_file).                                      *)
BacklinksExact == Settled => backlinks = Rebuilt(notes, FreshListed(notes))

(* A tag lists exactly the notes that have it, failed updates included        *)
(* (index.rs remove_note_contributions).                                      *)
TagsExact == Orderly => tags = FreshTags(notes)

(* The resolver lists the indexed notes once each and, of the others, at most *)
(* those a failed rename left behind (index.rs rename_file).                  *)
ResolverExact ==
    Orderly => \A p \in Paths :
        /\ notes[p] # None => listed[p] = 1
        /\ notes[p] = None => listed[p] <= 1 /\ (listed[p] = 1 => p \in broken)

(* The statistics are those of the present tables unless an update failed     *)
(* (index.rs recompute_stats).                                                *)
StatsExact == Settled => stats = Counted(notes, tags, excluded)

(* All the tables that are kept in place are those of a build from nothing    *)
(* (index.rs reindex_file, remove_file, rename_file, add_excluded_file).      *)
TablesExact == BacklinksExact /\ TagsExact /\ ResolverExact /\ StatsExact

(* A search by tag finds every note that has the tag, whatever failed and     *)
(* wherever a rename landed (index.rs notes_with_tag).                        *)
TagNeverMissed == \A p \in Indexed(notes) : \A t \in notes[p].tags : p \in tags[t]
==============================================================================
