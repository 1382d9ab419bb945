------------------------------ MODULE NoteTools -------------------------------
(* The tools that edit and read notes (tools/*.rs over Vault and fs.rs): each   *)
(* call is several steps on the same files and the same index as the calls of  *)
(* other clients, and other programs edit the files in between. The watcher,   *)
(* the text index and the embedding queue are VaultSync's.                     *)
EXTENDS NoteViews, ToolFilter

CONSTANTS
    Callers,      \* the clients of one server, or several servers
    Setups,       \* how a server may start, by name, see Init; the calls of a client
                  \* are bounded in each
    Excluded,     \* the patterns of exclude.rs
    MaxFilesCap, MaxBytesCap, MaxDetails,    \* note_read_many
    MaxEdits      \* bound: edits by other programs

ASSUME CapsAssumption == {MaxFilesCap, MaxBytesCap, MaxDetails} \subseteq Nat \ {0}
ASSUME EditsAssumption == MaxEdits \in Nat

\* What a client may send: numbers are numbers, texts documents, paths sequences.
IsPath(p)  == p \in Seq(Names \cup {Up, Here, Root})
\* What a vault has: names in directories, and functions of them.
IsPlace(p) == IsPath(p) /\ Range(p) \cap {Up, Here, Root} = {}
IsMap(f)   == f = [x \in DOMAIN f |-> f[x]]
NamesADay(config, day) == IsPath(config.folder) /\ FormatDate(config.format, day) \in Names
WellTyped(r) ==
    /\ r.tool \in Editing => IsPath(r.path)
    /\ r.tool = "note_move" => IsPath(r.to)
    /\ r.tool \in {"note_write", "note_insert", "note_create"} => HasLines(r.content)
    /\ r.tool = "note_create" => r.front = None \/ IsFiniteSet(DOMAIN r.front)
    /\ r.tool = "periodic_create" => /\ r.content = None \/ IsDocument(r.content)
                                     /\ r.period \in Periods /\ r.day \in Days
                                     /\ NamesADay(PeriodicConfig(r.period), r.day)
    /\ r.tool = "note_patch" =>
          /\ r.patch.type \in {"heading", "block", "frontmatter"}
          /\ r.patch.op \in {"append", "prepend", "replace"}
          /\ r.patch.type = "heading" => r.patch.target \in Seq(Range(r.patch.target)) \ {<<>>}
          /\ HasLines(r.patch.content)
          /\ r.patch.content = Empty \/ r.patch.content.lines # <<>>
    /\ r.tool = "note_frontmatter_edit" =>
          r.value = None \/ r.value = [form |-> r.value.form, value |-> r.value.value]
    /\ r.tool = "note_read_many" =>
          /\ r.max_files \in Nat /\ r.max_bytes \in Nat
          /\ r.paths # None => /\ r.paths \in Seq(Range(r.paths))
                               /\ \A p \in Range(r.paths) : IsPath(p)

ASSUME SetupsAssumption ==
    \A s \in DOMAIN Setups :
        /\ Setups[s].tools \in Seq(Range(Setups[s].tools))
        /\ IsMap(Setups[s].files) /\ IsFiniteSet(DOMAIN Setups[s].files)
        /\ <<>> \in Setups[s].dirs /\ Setups[s].links \subseteq Setups[s].dirs \ {<<>>}
        /\ Setups[s].dirs \cap DOMAIN Setups[s].files = {}
        /\ \A p \in Setups[s].dirs \cup DOMAIN Setups[s].files :
              IsPlace(p) /\ Parents(p) \subseteq Setups[s].dirs
        /\ \A p \in DOMAIN Setups[s].files : IsDocument(Setups[s].files[p])
        /\ \A c \in Callers : \A r \in Setups[s].requests[c] : WellTyped(r)
        /\ Setups[s].damaged \subseteq {"plugin", "core"}
        /\ \A e \in Setups[s].edits : IsPlace(e.path) /\ (e.doc = None \/ IsDocument(e.doc))

VARIABLES
    setup,      \* names the setting of tools, what clients ask for and how often,
                \* what others edit, and the damaged files of configuration
    disk,       \* path -> document
    dirs,       \* the directories, the root <<>> among them
    links,      \* of these, the links that lead out of the vault
    meta,       \* indexed note -> document its metadata is from
    excluded,   \* notes counted as excluded
    call,       \* client -> its call
    calls, edits

vars == <<setup, disk, dirs, links, meta, excluded, call, calls, edits>>
vault == <<disk, dirs, links, meta, excluded>>
World == [disk |-> disk, dirs |-> dirs, links |-> links, meta |-> meta, excluded |-> excluded]

\* kept: the documents that nobody else has changed since the call began;
\* alone: nobody else has changed a file, a directory or the index since;
\* grown: nobody else has taken a file or a directory away since.
Idle == [at |-> "idle", req |-> None, path |-> <<>>, doc |-> None, reply |-> None,
         kept |-> <<>>, alone |-> TRUE, grown |-> TRUE]

\* The index that opening the vault builds: what it may index and can parse.
Indexed(files) == {p \in DOMAIN files : IsMd(p) /\ ~HiddenBelow(0, p)}
Parses(d) == ParseFrontmatter(d) # None
BuildIndex(files) ==
    Restrict(files, {p \in Indexed(files) : ~IsExcluded(Excluded, p) /\ Parses(files[p])})

Init ==
    /\ setup \in DOMAIN Setups
    /\ disk = Setups[setup].files /\ dirs = Setups[setup].dirs /\ links = Setups[setup].links
    /\ meta = BuildIndex(disk)
    /\ excluded = {p \in Indexed(disk) : IsExcluded(Excluded, p)}
    /\ call = [c \in Callers |-> Idle]
    /\ calls = [c \in Callers |-> 0] /\ edits = 0

-----------------------------------------------------------------------------
(* Steps of a call.                                                            *)

Same(p) == /\ p \in DOMAIN disk <=> p \in DOMAIN disk'
           /\ p \in DOMAIN disk => disk'[p] = disk[p]

Disturbed(k) ==
    IF k.at = "idle" THEN k
    ELSE [k EXCEPT !.kept  = Restrict(@, {p \in DOMAIN @ : Same(p)}),
                   !.alone = @ /\ vault' = vault,
                   !.grown = /\ @ /\ DOMAIN disk \subseteq DOMAIN disk'
                             /\ dirs \subseteq dirs' /\ links \subseteq links']

\* The caller's call becomes k; the others' learn of the change.
Becomes(c, k) == call' = [x \in Callers |-> IF x = c THEN k ELSE Disturbed(call[x])]
Reply(c, r)   == Becomes(c, [call[c] EXCEPT !.at = "done", !.reply = r])
Done(c)       == Reply(c, Answer(call[c].path))
Fail(c, why)  == UNCHANGED vault /\ Reply(c, Refusal(why))

\* The call is at this step; what it asks for.
At(c, step)   == call[c].at = step /\ UNCHANGED <<setup, calls, edits>>
Req(c)        == call[c].req
Uses(c, tools) == Req(c).tool \in tools

Creating == {"note_create", "periodic_create"}
Loading(r) == \/ r.tool \in {"note_patch", "note_frontmatter_edit"}
              \/ r.tool = "note_insert" /\ r.position = "beginning"

FirstStep(r) ==
    CASE r.tool \in Creating \cup {"note_move"} -> "check"
      [] Loading(r)                -> "load"
      [] r.tool = "note_delete"    -> "unlink"
      [] r.tool = "note_read_many" -> "select"
      [] r.tool \in {"note_write", "note_insert"} /\ ~Loading(r) -> "put"
      [] OTHER                     -> "answer"

\* Arguments that a handler refuses before it touches the vault.
BadArguments(r) ==
    \/ r.tool = "note_delete" /\ ~r.confirm
    \/ r.tool = "note_insert" /\ r.position \notin {"beginning", "end"}
    \/ r.tool = "note_frontmatter_edit" /\ r.action \notin {"set", "remove"}
    \/ r.tool = "note_frontmatter_edit" /\ r.action = "set" /\ r.value = None

Begin(c, r) ==
    /\ call[c].at \in {"idle", "done"} /\ calls[c] < Setups[setup].calls
    /\ calls' = [calls EXCEPT ![c] = @ + 1]
    /\ UNCHANGED <<setup, vault, edits>>
    /\ LET k == [Idle EXCEPT !.req = r, !.kept = disk] IN
       Becomes(c, IF r.tool \notin Offered(Setups[setup].tools)
                  THEN [k EXCEPT !.at = "done", !.reply = Refusal("no_tool")]
                  ELSE IF BadArguments(r)
                  THEN [k EXCEPT !.at = "done", !.reply = Refusal("params")]
                  ELSE [k EXCEPT !.at = FirstStep(r)])

-----------------------------------------------------------------------------
(* Creating: the path must be free, then the document is made.                 *)

NewPath(r) == IF r.tool = "note_create" THEN r.path
              ELSE PeriodicNotePath(PeriodicConfig(r.period), r.day)

\* A template that is missing is empty; one that is a directory is an error.
Template(r) ==
    LET path == PeriodicConfig(r.period).template IN
    IF r.content # None THEN Answer(r.content)
    ELSE IF path \in DOMAIN disk THEN Answer(disk[path])
    ELSE IF path \in dirs THEN Refusal("io") ELSE Answer(Empty)

NewNote(r) ==
    IF r.tool = "periodic_create" THEN Template(r)
    ELSE IF r.front = None THEN Refusal("front_matter")
    ELSE Answer(RebuildContent(r.front, r.content))

\* Mutant: only the spelling of the request counts.
SpeltExists(raw) == raw \in DOMAIN disk
FileAt(r) == r.err = "none" /\ r.path \in DOMAIN disk
FileExists(raw) == FileAt(Locate(World, raw))

\* The tools of periodic notes read the configuration first, on every call.
Misconfigured(r) ==
    /\ r.tool \in {"periodic_get", "periodic_list", "periodic_create"}
    /\ ConfigFails(Plugin, r.period, Setups[setup].damaged)

CheckNew(c) ==
    /\ At(c, "check") /\ Uses(c, Creating)
    /\ LET r == Req(c)
           d == NewNote(r)
       IN IF Misconfigured(r) THEN Fail(c, "io")
          ELSE IF FileExists(NewPath(r)) THEN Fail(c, "exists")
          ELSE IF d.err # "none" THEN Fail(c, d.err)
          ELSE /\ UNCHANGED vault
               /\ Becomes(c, [call[c] EXCEPT !.at = "put", !.path = NewPath(r), !.doc = d.body])

-----------------------------------------------------------------------------
(* Changing: the document is read and the new one made from it.                *)

PrependNote(d, content) ==
    LET k == RawFrontmatter(d) IN
    Join3(Part(d, 1, k), content, Part(d, k + 1, Len(d.lines)))

Changed(r, d) ==
    CASE r.tool = "note_insert" -> PrependNote(d, r.content)
      [] r.tool = "note_patch"  -> ApplyPatch(d, r.patch)
      [] r.tool = "note_frontmatter_edit" ->
           IF r.action = "set" THEN SetField(d, r.key, r.value) ELSE RemoveField(d, r.key)

Rewrite(c, new) ==
    IF new = None THEN Fail(c, "target")
    ELSE /\ UNCHANGED vault
         /\ Becomes(c, [call[c] EXCEPT !.at = "put", !.path = Req(c).path, !.doc = new])
LoadFrom(c, old) ==
    IF old.err # "none" THEN Fail(c, old.err) ELSE Rewrite(c, Changed(Req(c), old.body))

Load(c) == At(c, "load") /\ LoadFrom(c, ReadFile(World, Req(c).path))

-----------------------------------------------------------------------------
(* Writing, and the index after it.                                            *)

\* note_write and note_insert come here with their request.
Target(c) == IF Loading(Req(c)) \/ Uses(c, Creating) THEN call[c].path ELSE Req(c).path
Written(c, p) ==
    CASE Uses(c, {"note_write"}) -> Req(c).content
      [] Uses(c, {"note_insert"}) /\ Req(c).position = "end" ->
           Join(IF p \in DOMAIN disk THEN disk[p] ELSE Empty, Req(c).content)
      [] OTHER -> call[c].doc

PutAt(c, r) ==
    IF r.err # "none" THEN Fail(c, r.err)
    ELSE IF r.path \in dirs THEN Fail(c, "io")
    ELSE /\ disk' = With(disk, r.path, Written(c, r.path))
         /\ dirs' = dirs \cup Parents(r.path)
         /\ UNCHANGED <<links, meta, excluded>>
         /\ Becomes(c, [call[c] EXCEPT !.at = "reindex", !.path = r.path])

Put(c) == At(c, "put") /\ PutAt(c, ResolveForWrite(Tree(World), Target(c)))

Forgotten(S) == Restrict(meta, DOMAIN meta \ S)

\* Mutant: the index keeps what it had of a note that no longer parses.
IndexParsed(c, gone, p) ==
    /\ excluded' = excluded \ gone
    /\ IF p \in DOMAIN disk /\ Parses(disk[p])
       THEN meta' = With(Forgotten(gone), p, disk[p]) /\ Done(c)
       ELSE UNCHANGED meta /\ Reply(c, Refusal("yaml"))

\* Parse the note and index it; what does not parse is in no table any more.
IndexNote(c, gone, p) ==
    /\ excluded' = excluded \ gone
    /\ IF p \in DOMAIN disk /\ Parses(disk[p])
       THEN meta' = With(Forgotten(gone), p, disk[p]) /\ Done(c)
       ELSE meta' = Forgotten(gone) /\ Reply(c, Refusal("yaml"))

ReindexAt(c, r) ==
    IF r.err # "none" THEN Fail(c, r.err)
    ELSE IF IsExcluded(Excluded, r.path)
    THEN /\ meta' = Forgotten({r.path}) /\ excluded' = excluded \cup {r.path}
         /\ UNCHANGED <<disk, dirs, links>> /\ Done(c)
    ELSE UNCHANGED <<disk, dirs, links>> /\ IndexNote(c, {r.path}, r.path)

Reindex(c) == At(c, "reindex") /\ ReindexAt(c, Locate(World, call[c].path))

-----------------------------------------------------------------------------
(* Deleting.                                                                   *)

Within(p) == {q \in Nodes(Tree(World)) : IsStrictPrefix(p, q)}

UnlinkAt(c, r) ==
    IF r.err # "none" THEN Fail(c, r.err)
    ELSE IF r.path \in dirs /\ (r.path = <<>> \/ Within(r.path) # {}) THEN Fail(c, "io")
    ELSE /\ disk' = Restrict(disk, DOMAIN disk \ {r.path}) /\ dirs' = dirs \ {r.path}
         /\ UNCHANGED <<links, meta, excluded>>
         /\ Becomes(c, [call[c] EXCEPT !.at = "unindex", !.path = r.path])

Unlink(c) == At(c, "unlink") /\ UnlinkAt(c, Locate(World, Req(c).path))

Unindex(c) ==
    /\ At(c, "unindex")
    /\ meta' = Forgotten({call[c].path}) /\ excluded' = excluded \ {call[c].path}
    /\ UNCHANGED <<disk, dirs, links>>
    /\ Done(c)

-----------------------------------------------------------------------------
(* Moving. The target must be free when it is looked up; a file that is there  *)
(* by the time of the rename is replaced.                                      *)

CheckMoveAt(c, from, to) ==
    IF from.err # "none" THEN Fail(c, from.err)
    ELSE IF to.err # "none" THEN Fail(c, to.err)
    ELSE IF to.path \in Nodes(Tree(World)) THEN Fail(c, "exists")
    ELSE /\ UNCHANGED vault
         /\ Becomes(c, [call[c] EXCEPT !.at = "rename", !.doc = from.path, !.path = to.path])

CheckMove(c) ==
    /\ At(c, "check") /\ Uses(c, {"note_move"})
    /\ CheckMoveAt(c, Locate(World, Req(c).path), ResolveForWrite(Tree(World), Req(c).to))

From(c) == call[c].doc
\* A directory may take the place of an empty one. A link does not take the place
\* of another here: nothing that runs beside the calls makes links.
Vacant(p) == p \in dirs \ links /\ Within(p) = {}
RenameFails(from, to) ==
    \/ from \notin Nodes(Tree(World))
    \/ to \in dirs /\ ~(from \in dirs \ links /\ Vacant(to))
    \/ from \in dirs /\ (from = <<>> \/ IsStrictPrefix(from, to) \/ to \in DOMAIN disk)

Rename(c) ==
    /\ At(c, "rename")
    /\ LET from == From(c)
           to   == call[c].path
           tree == {from} \cup Within(from)
           moved(p) == to \o SubSeq(p, Len(from) + 1, Len(p))
           files == DOMAIN disk \cap tree
       IN IF Parents(to) \cap DOMAIN disk # {} THEN Fail(c, "io")
          ELSE IF RenameFails(from, to)
          THEN /\ dirs' = dirs \cup Parents(to)
               /\ UNCHANGED <<disk, links, meta, excluded>> /\ Reply(c, Refusal("io"))
          ELSE /\ disk' = [q \in {moved(p) : p \in files} \cup (DOMAIN disk \ tree) |->
                               IF \E p \in files : moved(p) = q
                               THEN disk[CHOOSE p \in files : moved(p) = q] ELSE disk[q]]
               /\ dirs' = (dirs \ tree) \cup Parents(to) \cup {moved(p) : p \in dirs \cap tree}
               /\ links' = (links \ tree) \cup {moved(p) : p \in links \cap tree}
               /\ UNCHANGED <<meta, excluded>>
               /\ Becomes(c, [call[c] EXCEPT !.at = "relink"])

Relink(c) ==
    /\ At(c, "relink") /\ UNCHANGED <<disk, dirs, links>>
    /\ IF IsExcluded(Excluded, call[c].path)
       THEN /\ meta' = Forgotten({From(c), call[c].path})
            /\ excluded' = (excluded \ {From(c)}) \cup {call[c].path}
            /\ Done(c)
       ELSE IndexNote(c, {From(c)}, call[c].path)

-----------------------------------------------------------------------------
(* note_read_many: each candidate is looked up and measured, then read and     *)
(* measured again, against what is left of the budget.                         *)

Size(d) == Len(d.lines)
SizeAt(p) == IF p \in DOMAIN disk THEN Size(disk[p]) ELSE 1
Least(x, y) == IF x < y THEN x ELSE y

BadSelection(r) ==
    \/ r.max_files = 0 \/ r.max_bytes = 0
    \/ (r.paths = None) = (r.dir = None)
    \/ r.paths # None /\ (r.recursive # None \/ r.glob # None)
    \/ r.paths # None /\ (r.paths = <<>> \/ Len(r.paths) > MaxFilesCap)

Listed(r) == ListFiles(World, r.dir, r.recursive = TRUE, IF r.glob = None THEN Names ELSE r.glob)
Invalid(r) == r.paths # None /\ \E raw \in Range(r.paths) :
                                    ResolveForWrite(Tree(World), raw).err # "none"
Candidates(r) ==
    IF r.paths # None THEN Answer(r.paths)
    ELSE Then(Listed(r), LAMBDA files : SetToSeq({p \in files : IsMd(p) /\ p \in DOMAIN disk}))

Among(all, n) ==
    [todo |-> SubSeq(all, 1, n), rest |-> SubSeq(all, n + 1, Len(all)),
     notes |-> <<>>, skipped |-> <<>>, count |-> 0, bytes |-> 0]
SelectFrom(c, all) ==
    IF all.err # "none" THEN Fail(c, all.err)
    ELSE /\ UNCHANGED vault
         /\ Becomes(c, [call[c] EXCEPT !.at = "stat", !.doc =
                Among(all.body, Least(Len(all.body), Least(Req(c).max_files, MaxFilesCap)))])

Select(c) ==
    /\ At(c, "select")
    /\ IF BadSelection(Req(c)) THEN Fail(c, "params")
       ELSE IF Invalid(Req(c)) THEN Fail(c, "outside")
       ELSE SelectFrom(c, Candidates(Req(c)))

Capped(s) == SubSeq(s, 1, Least(Len(s), MaxDetails))
Skip(m, p, why) ==
    [m EXCEPT !.todo = Tail(@), !.count = @ + 1, !.skipped = Capped(Append(@, <<p, why>>))]
Room(c, m) == Least(Req(c).max_bytes, MaxBytesCap) - m.bytes

NextCandidate(c, m) == /\ UNCHANGED vault
                       /\ Becomes(c, [call[c] EXCEPT !.at = "stat", !.doc = m])

\* record_file_error: what is not there or cannot be read is skipped.
Unavailable(c, m, p, why) ==
    CASE why = "missing" -> NextCandidate(c, Skip(m, p, "not_found"))
      [] why = "io"      -> NextCandidate(c, Skip(m, p, "unreadable"))
      [] OTHER           -> Fail(c, why)

Stat(c) ==
    /\ At(c, "stat") /\ call[c].doc.todo # <<>>
    /\ LET m == call[c].doc
           r == Locate(World, Head(m.todo))
       IN IF r.err # "none" THEN Unavailable(c, m, Head(m.todo), r.err)
          ELSE IF SizeAt(r.path) > Room(c, m) THEN NextCandidate(c, Skip(m, r.path, "byte_limit"))
          ELSE /\ UNCHANGED vault
               /\ Becomes(c, [call[c] EXCEPT !.at = "read", !.path = r.path])

\* Mutant: the size from before the read is trusted.
ReadOnTrust(c) ==
    /\ At(c, "read")
    /\ LET m == call[c].doc
           p == call[c].path
           d == ReadFile(World, p)
       IN IF d.err # "none" THEN Unavailable(c, m, p, d.err)
          ELSE NextCandidate(c, [m EXCEPT !.todo = Tail(@), !.bytes = @ + Size(d.body),
                                          !.notes = Append(@, <<p, d.body>>)])

ReadOne(c) ==
    /\ At(c, "read")
    /\ LET m == call[c].doc
           p == call[c].path
           d == ReadFile(World, p)
       IN IF d.err # "none" THEN Unavailable(c, m, p, d.err)
          ELSE IF Size(d.body) > Room(c, m) THEN NextCandidate(c, Skip(m, p, "byte_limit"))
          ELSE NextCandidate(c, [m EXCEPT !.todo = Tail(@), !.bytes = @ + Size(d.body),
                                          !.notes = Append(@, <<p, d.body>>)])

Summary(m) ==
    [m EXCEPT !.count = @ + Len(m.rest),
              !.skipped = Capped(@ \o [i \in DOMAIN m.rest |-> <<m.rest[i], "file_limit">>])]
Conclude(c) ==
    /\ At(c, "stat") /\ call[c].doc.todo = <<>>
    /\ UNCHANGED vault
    /\ Reply(c, Answer(Summary(call[c].doc)))

-----------------------------------------------------------------------------
(* The tools that only read answer in one step.                                *)

VaultList(r) ==
    CASE r.format = "list" -> VaultListFlat(World, r.path, r.recursive, r.glob, r.depth)
      [] r.format = "tree" /\ ~r.metadata -> VaultListTree(World, r.path, r.depth)
      [] OTHER -> Refusal("params")

View(r) ==
    CASE r.tool = "note_read"          -> ReadFile(World, r.path)
      [] r.tool = "note_metadata"      -> NoteMetadata(World, r.path)
      [] r.tool = "note_patch_targets" -> NotePatchTargets(World, r.path)
      [] r.tool = "note_frontmatter"   -> NoteFrontmatter(World, r.path)
      [] r.tool = "note_links"         -> NoteLinks(World, r.path)
      [] r.tool = "vault_broken_links" ->
           IF r.path = None THEN Answer(BrokenLinks(World)) ELSE BrokenIn(World, r.path)
      [] r.tool = "vault_orphans"      -> VaultOrphans(World)
      [] r.tool = "vault_list"         -> VaultList(r)
      [] r.tool = "search_tags"        -> Answer(SearchTags(World, r.tag, r.nested))
      [] r.tool = "search_frontmatter" -> SearchFrontmatter(World, r.key, r.op, r.value)
      [] r.tool = "search_regex"       -> SearchRegex(World, r.pattern)
      [] r.tool = "periodic_get"       -> PeriodicGet(World, r.period, r.day)
      [] r.tool = "periodic_list"      -> Answer(PeriodicList(World, r.period, r.limit))
      [] r.tool = "vault_info"         -> Answer(VaultInfo(World))
      [] r.tool = "open_in_obsidian"   -> OpenInObsidian(World, r.path)

Read1(c) ==
    /\ At(c, "answer") /\ UNCHANGED vault
    /\ Reply(c, IF Misconfigured(Req(c)) THEN Refusal("io") ELSE View(Req(c)))

\* Another program saves or removes a file.
Edit(e) ==
    /\ edits < MaxEdits /\ edits' = edits + 1
    /\ e.doc = None => e.path \in DOMAIN disk
    /\ e.path \notin dirs /\ Front(e.path) \in dirs \ links
    /\ disk' = IF e.doc = None THEN Restrict(disk, DOMAIN disk \ {e.path})
               ELSE With(disk, e.path, e.doc)
    /\ UNCHANGED <<setup, dirs, links, meta, excluded, calls>>
    /\ call' = [c \in Callers |-> Disturbed(call[c])]

Step1(c) ==
    \/ CheckNew(c) \/ Load(c) \/ Put(c) \/ Reindex(c)
    \/ Unlink(c) \/ Unindex(c)
    \/ CheckMove(c) \/ Rename(c) \/ Relink(c)
    \/ Select(c) \/ Stat(c) \/ ReadOne(c) \/ Conclude(c)
    \/ Read1(c)

Next ==
    \/ \E c \in Callers : (\E r \in Setups[setup].requests[c] : Begin(c, r)) \/ Step1(c)
    \/ \E e \in Setups[setup].edits : Edit(e)

Spec == Init /\ [][Next]_vars

-----------------------------------------------------------------------------
(* Properties.                                                                 *)

Answered(c, tools) ==
    call[c].at = "done" /\ Req(c).tool \in tools /\ call[c].reply.err = "none"
Failed(c) == call[c].at = "done" /\ call[c].reply.err # "none"

\* The document before the call and the one after it, where nobody else touched it
\* or took away another that the path found instead.
Undisturbed(c) == /\ call[c].path \in DOMAIN call[c].kept /\ call[c].path \in DOMAIN disk
                  /\ call[c].grown
Before(c)      == call[c].kept[call[c].path]
After(c)       == disk[call[c].path]

Insertion(d, i, content) == SubSeq(d.lines, 1, i) \o content.lines
                            \o SubSeq(d.lines, i + 1, Len(d.lines))
IsProse(content) == \A l \in Range(content.lines) : l.kind \in {"text", "blank"}

\* Line i lies in the section of heading h, as Markdown has it.
InSection(d, h, i) ==
    /\ h \in MdHeadings(d) /\ h <= i
    /\ \A g \in MdHeadings(d) : h < g /\ g <= i => d.lines[g].n > d.lines[h].n

LandsUnderHeading(old, new, p) ==
    \E h \in MdHeadings(old) : \E i \in h..Len(old.lines) :
        LET section == {k \in h+1..Len(old.lines) : InSection(old, h, k)} IN
        /\ old.lines[h].text = Last(p.target)
        /\ i = IF p.op = "append" THEN Max(section \cup {h}) ELSE h
        /\ new.lines = IF p.op # "replace" THEN Insertion(old, i, p.content)
                       ELSE SubSeq(old.lines, 1, h) \o p.content.lines
                            \o SubSeq(old.lines, Max(section \cup {h}) + 1, Len(old.lines))

LandsAtBlock(old, new, p) ==
    \E i \in MdProse(old) :
        /\ old.lines[i].value = <<p.target>>
        /\ CASE p.op = "prepend" -> new.lines = Insertion(old, i - 1, p.content)
             [] p.op = "append"  -> new.lines = Insertion(old, i, p.content)
             [] p.op = "replace" ->
                  /\ p.target \in BlockRefs(new)
                  /\ SubSeq(new.lines, 1, i - 1) = SubSeq(old.lines, 1, i - 1)
                  /\ \E k \in i..Len(new.lines) :
                        SubSeq(new.lines, k + 1, Len(new.lines))
                        = SubSeq(old.lines, i + 1, Len(old.lines))

\* The lines on which patch.rs and Markdown agree: plain headings, no glued
\* reference, front matter that is closed, a last line that is.
Agreed(d) == /\ d.closed
             /\ \A l \in Range(d.lines) :
                   /\ l.kind = "heading" => l.form = "plain" /\ l.n \in 1..6
                   /\ l.form # "glued"
             /\ d.lines # <<>> /\ IsDelim(Head(d.lines)) => Closings(d, IsDelim) # {}

\* note_patch on a heading or a block puts the content where a reader of the
\* Markdown sees that section or block, and no other line changes (patch.rs).
PatchLandsInPlace ==
    \A c \in Callers :
        Answered(c, {"note_patch"}) /\ Undisturbed(c) /\ Agreed(Before(c)) =>
            LET p == Req(c).patch IN
            IsProse(p.content) =>
                /\ p.type = "heading" => LandsUnderHeading(Before(c), After(c), p)
                /\ p.type = "block"   => LandsAtBlock(Before(c), After(c), p)

\* An edit of front matter changes the field that it names and nothing else,
\* and what is inserted at the beginning comes behind it (frontmatter.rs). Only
\* where the last field goes may a body that begins with a delimiter become
\* front matter.
FieldEditsKeepTheRest ==
    \A c \in Callers :
        LET r   == Req(c)
            old == ParseFrontmatter(Before(c))
            new == ParseFrontmatter(After(c))
            k   == IF r.tool = "note_patch" THEN r.patch.target ELSE r.key
            Rest(fm) == IF fm = Absent THEN <<>> ELSE Without(fm, k)
            stripped == /\ r.tool = "note_frontmatter_edit" /\ r.action = "remove"
                        /\ Rest(old) = <<>>
        IN /\ Answered(c, {"note_patch", "note_frontmatter_edit"}) /\ Undisturbed(c)
              /\ (r.tool = "note_patch" => r.patch.type = "frontmatter")
              /\ RawFrontmatter(Before(c)) = FrontmatterBoundaries(Before(c))
              /\ (stripped => RawFrontmatter(GetBody(Before(c))) = 0) =>
                 /\ new # None /\ Rest(new) = Rest(old)
                 /\ GetBody(After(c)) = GetBody(Before(c))
           /\ Answered(c, {"note_insert"}) /\ Undisturbed(c) /\ Agreed(Before(c))
              /\ Loading(r) /\ IsProse(r.content) => new = old

\* A note that a client creates or moves takes no document's place: none that was
\* there all along is overwritten, in either Unicode form (Vault::create_note,
\* create_periodic_note, fs::move_file). A path is resolved again for the write:
\* if meanwhile another client took away what it was first found by, it may
\* lead elsewhere, to a document too.
NewNotesAreNew ==
    \A c \in Callers :
        (Answered(c, Creating) /\ call[c].grown) \/ Answered(c, {"note_move"})
        => call[c].path \notin DOMAIN call[c].kept

InStep(p) ==
    IF p \notin DOMAIN disk THEN p \notin DOMAIN meta \cup excluded
    ELSE IF IsExcluded(Excluded, p) THEN p \notin DOMAIN meta /\ p \in excluded
    ELSE p \notin excluded /\ p \in DOMAIN meta /\ meta[p] = disk[p]

\* An edit that is answered as done is in the index as well; one that is answered
\* as failed left every document as it was, unless all that failed is the parse of
\* the new one: the index then has it no more, nor the one that was moved
\* (Vault::reindex, move_note).
AnswersAreTrue ==
    \A c \in Callers : call[c].alone =>
        /\ Answered(c, Creating \cup Editing) /\ call[c].path \notin dirs =>
              InStep(call[c].path) /\ (Uses(c, {"note_move"}) => InStep(From(c)))
        /\ Failed(c) /\ call[c].reply.err # "yaml" => disk = call[c].kept
        /\ Failed(c) /\ call[c].reply.err = "yaml" /\ Uses(c, Creating \cup Editing) =>
              (IF Uses(c, {"note_move"}) THEN From(c) ELSE call[c].path) \notin DOMAIN meta

\* With the profile "read" no client changes a file or makes a directory
\* (config.rs: "Strictly read-only: nothing here can alter the vault").  A "!"
\* before the name makes it a list of tools to leave out, which has none to.
ReadOnlyServer ==
    LET tools == Setups[setup].tools IN Named(tools) = {"read"} /\ ~IsDenyList(tools)
ReadProfileNeverWrites ==
    [][ReadOnlyServer /\ edits' = edits => UNCHANGED <<disk, dirs>>]_vars

Bytes(notes) == FoldLeft(LAMBDA n, x : n + Size(x[2]), 0, notes)

\* note_read_many returns no more than its budget, each candidate once or with a
\* reason, and counts those it has no room to list, whatever the files do meanwhile.
ReadManyAccounts ==
    \A c \in Callers : Answered(c, {"note_read_many"}) =>
        LET m == call[c].reply.body IN
        /\ m.bytes <= Least(Req(c).max_bytes, MaxBytesCap)
        /\ m.bytes = Bytes(m.notes)
        /\ Len(m.skipped) = Least(m.count, MaxDetails)
        /\ Req(c).paths # None => Len(m.notes) + m.count = Len(Req(c).paths)

\* The searches of the index find a note by what its own tools say of the file.
SearchesShow(p, targets) ==
    /\ \A k \in targets.fields : p \in SearchFrontmatter(World, k, "exists", None).body
    /\ \A t \in NoteMetadata(World, p).body.tags : p \in SearchTags(World, t, FALSE)
    /\ targets.headings # {} => p \in SearchRegex(World, targets.headings).body

\* The readers agree: a listed file is found under that name, the list and the tree
\* show the same, the three tools of the link graph tell one story, and a search of
\* the index finds a note by what the file has.
ReadersAgree ==
    LET list == VaultListFlat(World, <<>>, TRUE, Names, 9).body
        real == DOMAIN meta \subseteq DOMAIN disk
    IN /\ \A p \in DOMAIN list \cap DOMAIN disk : Locate(World, p) = Found(p)
       /\ DOMAIN list = VaultListTree(World, <<>>, 9).body
       /\ real =>
            \A p \in DOMAIN meta :
              LET view == NoteLinks(World, p).body IN
              /\ view.backlinks = {q \in DOMAIN meta : \E x \in NoteLinks(World, q).body.outgoing :
                                       x[2] = p}
              /\ BrokenIn(World, p).body = {x \in BrokenLinks(World) : x[1] = p}
              /\ (\E x \in VaultOrphans(World).body : x[1] = p)
                 <=> view.backlinks = {} /\ \A x \in view.outgoing : x[2] = None
              /\ meta[p] = disk[p] => SearchesShow(p, NotePatchTargets(World, p).body)

\* A periodic note that was created is read back under its date and appears in the
\* list of its period, which is the newest first.
PeriodicIsListed ==
    \A c \in Callers : Answered(c, {"periodic_create"}) /\ call[c].path \in DOMAIN disk =>
        LET r == Req(c)
            list == PeriodicList(World, r.period, Cardinality(DOMAIN disk))
            date(p) == TryParseDate(Last(p), PeriodicConfig(r.period).format)
        IN /\ call[c].path \in Range(list)
           /\ PeriodicGet(World, r.period, r.day) = Answer(disk[call[c].path])
           /\ date(call[c].path) <= r.day
           /\ \A i, j \in DOMAIN list : i < j => date(list[i]) >= date(list[j])
=============================================================================
