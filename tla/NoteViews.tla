------------------------------ MODULE NoteViews -------------------------------
(* What the reading tools answer, as functions of the vault: the files, the    *)
(* directories and the index of notes (tools/navigation.rs, graph.rs,          *)
(* metadata.rs, periodic.rs, utility.rs and the queries of vault/index.rs).    *)
EXTENDS NoteText, VaultPaths, Periodic

CONSTANTS
    Md,        \* names that end with .md
    Dated,     \* of these, the ones that are the fields of a date
    Hidden,    \* names that begin with a dot
    Stem,      \* what a link writes for a note of that name
    SubTags,   \* pairs of a nested tag and one it is below
    Scopes,    \* the sources of the scopes
    Plugin, CoreDaily   \* the configuration of periodic notes, Nothing without

ASSUME NamesAssumption == Md \cup Hidden \subseteq Names /\ Dated \subseteq Md
ASSUME StemAssumption == DOMAIN Stem = Names

-----------------------------------------------------------------------------
(* The vault w: disk (path -> document), dirs, the links out of the vault       *)
(* among these, meta (indexed note -> document it was parsed from) and excluded *)
(* (notes counted but not indexed).                                            *)

Tree(w)         == [files |-> DOMAIN w.disk, dirs |-> w.dirs, links |-> w.links]
Locate(w, raw)  == ResolveExisting(Tree(w), raw)
IsMd(p)         == p # <<>> /\ Last(p) \in Md
HiddenBelow(k, p) == \E i \in k+1..Len(p) : p[i] \in Hidden

Answer(body)  == [err |-> "none", body |-> body]
Refusal(why)  == [err |-> why, body |-> {}]

-----------------------------------------------------------------------------
(* Listing. A glob is the set of last names it matches.                        *)

Below(w, dir, recursive) ==
    {p \in Nodes(Tree(w)) : /\ IsStrictPrefix(dir, p) /\ ~HiddenBelow(Len(dir), p)
                            /\ recursive \/ Len(p) = Len(dir) + 1}
ListIn(w, r, recursive, glob) ==
    IF r.err = "missing" THEN Refusal("no_dir")
    ELSE IF r.err # "none" THEN Refusal(r.err)
    ELSE IF r.path \notin w.dirs THEN Refusal("no_dir")
    ELSE Answer({p \in Below(w, r.path, recursive) : Last(p) \in glob})
ListFiles(w, raw, recursive, glob) == ListIn(w, Locate(w, raw), recursive, glob)

\* An answer made from another one, or its refusal.
Then(answer, F(_)) == IF answer.err # "none" THEN answer ELSE Answer(F(answer.body))

\* Each listed path with the document its metadata is from, None without one.
WithMetadata(w, paths) ==
    [p \in paths |-> IF IsMd(p) /\ p \in DOMAIN w.meta THEN w.meta[p] ELSE None]

\* list: the depth counts from the root.
VaultListFlat(w, raw, recursive, glob, depth) ==
    Then(ListFiles(w, raw, recursive, glob),
         LAMBDA files : WithMetadata(w, {p \in files : Len(p) <= depth}))

\* tree: the depth counts from the directory; a node is drawn with its parents.
DrawnBelow(files, top, depth) ==
    UNION {{SubSeq(p, top + 1, k) : k \in top+1..Len(p)} :
           p \in {q \in files : Len(q) - top <= depth}}
TreeIn(w, r, depth) ==
    Then(ListIn(w, r, TRUE, Names), LAMBDA files : DrawnBelow(files, Len(r.path), depth))
VaultListTree(w, raw, depth) == TreeIn(w, Locate(w, raw), depth)

-----------------------------------------------------------------------------
(* Single notes.                                                               *)

ReadAt(w, r) ==
    IF r.err # "none" THEN Refusal(r.err)
    ELSE IF r.path \in w.dirs THEN Refusal("io") ELSE Answer(w.disk[r.path])
ReadFile(w, raw) == ReadAt(w, Locate(w, raw))

\* links are resolved by the name of a note, if only one has it.
ResolveLink(w, t) ==
    LET named == {p \in DOMAIN w.meta : Stem[Last(p)] = t} IN
    IF Cardinality(named) = 1 THEN CHOOSE p \in named : TRUE ELSE None
Outgoing(w, p) == IF p \in DOMAIN w.meta THEN Wikilinks(w.meta[p]) ELSE {}
BacklinksTo(w, p) ==
    {q \in DOMAIN w.meta : \E t \in Outgoing(w, q) : ResolveLink(w, t) = p}
Tags(d) == InlineTags(d) \cup StringList(ParseFrontmatter(d), "tags")

\* A tool that needs the index: the note must be there and be indexed.
IndexedAt(w, r) ==
    IF r.err # "none" THEN Refusal(r.err)
    ELSE IF r.path \notin DOMAIN w.meta THEN Refusal("missing") ELSE Answer(r.path)
OfIndexed(w, raw, F(_)) == Then(IndexedAt(w, Locate(w, raw)), F)

NoteMetadata(w, raw) ==
    OfIndexed(w, raw, LAMBDA p :
        [path |-> p, tags |-> Tags(w.meta[p]), headings |-> HeadingTexts(w.meta[p]),
         links |-> Outgoing(w, p), backlinks |-> Cardinality(BacklinksTo(w, p))])

NotePatchTargets(w, raw) == Then(ReadFile(w, raw), DocumentMap)

WellFormed(fm) == IF fm.err = "none" /\ fm.body = None THEN Refusal("yaml") ELSE fm
NoteFrontmatter(w, raw) == WellFormed(Then(ReadFile(w, raw), ParseFrontmatter))

-----------------------------------------------------------------------------
(* The graph of links.                                                         *)

NoteLinks(w, raw) ==
    OfIndexed(w, raw, LAMBDA p :
        [path |-> p, backlinks |-> BacklinksTo(w, p),
         outgoing |-> {<<t, ResolveLink(w, t)>> : t \in Outgoing(w, p)}])

BrokenOf(w, p) == {t \in Outgoing(w, p) : ResolveLink(w, t) = None}
BrokenIn(w, raw) == OfIndexed(w, raw, LAMBDA p : {<<p, t>> : t \in BrokenOf(w, p)})
BrokenLinks(w) == UNION {{<<p, t>> : t \in BrokenOf(w, p)} : p \in DOMAIN w.meta}

NoLinks(w) == {p \in DOMAIN w.meta : BacklinksTo(w, p) = {} /\ Outgoing(w, p) = {}}

\* A note with broken links is looked up on disk again: one that is gone fails
\* the whole answer.
Lonely(w, suspects) ==
    {p \in suspects : BacklinksTo(w, p) = {} /\ Outgoing(w, p) = BrokenOf(w, p)}
OrphansAmong(w, alone, suspects) ==
    IF \E p \in suspects : Locate(w, p).err # "none" THEN Refusal("missing")
    ELSE Answer({<<p, "no_links">> : p \in alone}
                \cup {<<p, "broken_outgoing_only">> : p \in Lonely(w, suspects)})
VaultOrphans(w) ==
    OrphansAmong(w, NoLinks(w), {x[1] : x \in BrokenLinks(w)} \ NoLinks(w))

-----------------------------------------------------------------------------
(* Searches by tag, by field and by pattern.                                   *)

SearchTags(w, tag, nested) ==
    {p \in DOMAIN w.meta : \E t \in Tags(w.meta[p]) :
        t = tag \/ (nested /\ <<t, tag>> \in SubTags)}

\* A list has the value as an element; a scalar is it, or has it as a part.
Satisfies(field, op, v) ==
    \/ op = "exists"
    \/ IF op = "contains" \/ field.form = "list" THEN v \in Range(field.value)
       ELSE field.value = <<v>>
HasField(fm, k, op, v) ==
    fm \notin {None, Absent} /\ k \in DOMAIN fm /\ Satisfies(fm[k], op, v)
SearchFrontmatter(w, k, op, v) ==
    IF op # "exists" /\ v = None THEN Refusal("params")
    ELSE Answer({p \in DOMAIN w.meta : HasField(ParseFrontmatter(w.meta[p]), k, op, v)})

\* A pattern is the set of texts it matches, None if it does not compile. The
\* files are read again; those that have gone are left out.
Finds(answer, pattern) ==
    answer.err = "none" /\ \E l \in Range(answer.body.lines) : l.text \in pattern
SearchRegex(w, pattern) ==
    IF pattern = None THEN Refusal("regex")
    ELSE Answer({p \in DOMAIN w.meta : Finds(ReadFile(w, p), pattern)})

-----------------------------------------------------------------------------
(* Periodic notes, the vault as a whole, and Obsidian.                          *)

PeriodicConfig(period) == ReadPeriodicConfig(Plugin, CoreDaily, period)
PeriodicGet(w, period, day) == ReadFile(w, PeriodicNotePath(PeriodicConfig(period), day))

PeriodicList(w, period, limit) ==
    ListRecentPeriodicNotes(DOMAIN w.disk, Dated, PeriodicConfig(period), limit)

VaultInfo(w) ==
    [notes |-> Cardinality(DOMAIN w.meta), excluded |-> Cardinality(w.excluded),
     tags |-> Cardinality(UNION {Tags(w.meta[p]) : p \in DOMAIN w.meta}),
     scopes |-> [name \in Defined(Scopes) |-> Cardinality(Narrow(Scopes, name, DOMAIN w.meta))]]

\* The spelling on disk, or the request's if it may be written.
OpenAt(raw, r, new) ==
    IF r.err = "none" THEN Answer(r.path)
    ELSE IF r.err # "missing" THEN Refusal(r.err)
    ELSE IF new.err # "none" THEN Refusal(new.err) ELSE Answer(raw)
OpenInObsidian(w, raw) == OpenAt(raw, Locate(w, raw), ResolveForWrite(Tree(w), raw))
===============================================================================
