------------------------------ MODULE VaultPaths ------------------------------
(* Vault-relative paths: path.rs resolves them, exclude.rs leaves some out of  *)
(* the indexes and scope.rs names slices of the rest. A path is a sequence of  *)
(* names; two names may be one text in two Unicode forms.                      *)
EXTENDS Naturals, Sequences, SequencesExt, FiniteSetsExt

CONSTANTS
    Names,               \* names of files and directories
    Key,                 \* the canonical form of a name
    Up, Here, Root,      \* the components "..", "." and the leading slash
    All,                 \* the scope of every note
    MaxReferenceDepth    \* how deep scopes include each other

ASSUME KeyAssumption   == DOMAIN Key = Names
ASSUME DepthAssumption == MaxReferenceDepth \in Nat

-----------------------------------------------------------------------------
(* path.rs. What exists is a set of files, a set of directories and, among    *)
(* these, the links that lead out of the vault. A result is a path or an error.*)

Found(p)   == [err |-> "none", path |-> p]
Error(why) == [err |-> why, path |-> <<>>]

Component(r, c) ==
    IF r.err # "none" \/ c = Here THEN r
    ELSE IF c = Root THEN Error("invalid")
    ELSE IF c # Up THEN Found(Append(r.path, c))
    ELSE IF r.path = <<>> THEN Error("outside") ELSE Found(Front(r.path))

NormalizeRelative(raw) ==
    LET to[k \in 0..Len(raw)] ==
            IF k = 0 THEN Found(<<>>) ELSE Component(to[k - 1], raw[k])
    IN to[Len(raw)]

Nodes(tree)         == tree.files \cup tree.dirs
Children(tree, dir) ==
    {p[Len(p)] : p \in {q \in Nodes(tree) : q # <<>> /\ Front(q) = dir}}

Only(dir, entries) ==
    IF entries = {} THEN Error("missing")
    ELSE IF \E e, f \in entries : e # f THEN Error("invalid")
    ELSE Found(Append(dir, CHOOSE e \in entries : TRUE))
Alike(entries, name) == {e \in entries : Key[e] = Key[name]}

\* Mutant: the canonical form decides, even where the spelling is there.
FindAlike(dir, name, entries) == Only(dir, Alike(entries, name))

\* The entry of that spelling, or the only one of the same canonical form.
FindComponent(dir, name, entries) ==
    IF name \in entries THEN Found(Append(dir, name))
    ELSE Only(dir, Alike(entries, name))

\* One component down; a link out of the vault is refused.
Inside(tree, r) == IF r.err = "none" /\ r.path \in tree.links THEN Error("outside") ELSE r
Step(tree, r, name) ==
    IF r.err # "none" THEN r
    ELSE IF r.path \in tree.files THEN Error("io")
    ELSE Inside(tree, FindComponent(r.path, name, Children(tree, r.path)))

\* The results of walking down a path, one for each of its prefixes.
Walk(tree, path) ==
    LET to[k \in 0..Len(path)] ==
            IF k = 0 THEN Found(<<>>) ELSE Step(tree, to[k - 1], path[k])
    IN to

Existing(tree, r) == IF r.err # "none" THEN r ELSE Walk(tree, r.path)[Len(r.path)]
ResolveExisting(tree, raw) == Existing(tree, NormalizeRelative(raw))

\* The spellings of what exists, then the requested ones.
Extended(path, walk, k) == Found(walk[k].path \o SubSeq(path, k + 1, Len(path)))
ForWrite(path, walk) ==
    IF walk[Len(path)].err # "missing" THEN walk[Len(path)]
    ELSE Extended(path, walk, Max({k \in 0..Len(path) : walk[k].err = "none"}))
ResolveForWrite(tree, raw) ==
    LET r == NormalizeRelative(raw) IN
    IF r.err # "none" THEN r ELSE ForWrite(r.path, Walk(tree, r.path))

\* The directories that create_dir_all adds for a file.
Parents(p) == {SubSeq(p, 1, k) : k \in 0..Len(p) - 1}

-----------------------------------------------------------------------------
(* exclude.rs. A pattern names a directory ("dir/"), a file or a set of files,*)
(* or is blank or malformed.                                                  *)

Matches(pattern, p) ==
    CASE pattern.form = "dir"  -> Len(p) > Len(pattern.path) /\ IsPrefix(pattern.path, p)
      [] pattern.form = "file" -> p = pattern.path
      [] OTHER -> FALSE

Accepted(patterns) == {x \in patterns : x.form \in {"dir", "file"}}
\* build skips what is malformed, build_strict refuses the list.
Compiles(patterns) == \A x \in patterns : x.form # "bad"
IsExcluded(patterns, p) == \E x \in Accepted(patterns) : Matches(x, p)

\* load_ignore_patterns: both files, of which the second may be the first.
Merged(home, data) == home \cup data

-----------------------------------------------------------------------------
(* scope.rs. A source is a sequence of lines: [name], a pattern or +name.     *)

Header(name)     == [is |-> "header", name |-> name, pattern |-> <<>>]
Reference(name)  == [is |-> "reference", name |-> name, pattern |-> <<>>]
Include(pattern) == [is |-> "pattern", name |-> All, pattern |-> pattern]

\* The header a line stands under, All where there is none.
Block(source, i) ==
    LET above == {j \in 1..i : source[j].is = "header"} IN
    IF above = {} THEN All ELSE source[Max(above)].name

\* No line before the first header, and none that redefines All.
ParsesAsScopes(sources) ==
    \A s \in Range(sources) : \A i \in DOMAIN s : Block(s, i) # All

Under(sources, name, is) ==
    UNION {{s[i] : i \in {j \in DOMAIN s : s[j].is = is /\ Block(s, j) = name}} :
           s \in Range(sources)}
Defined(sources) ==
    UNION {{s[i].name : i \in {j \in DOMAIN s : s[j].is = "header"}} : s \in Range(sources)}
References(sources, name) == {l.name : l \in Under(sources, name, "reference")}
Own(sources, name)        == {l.pattern : l \in Under(sources, name, "pattern")}

\* resolve_into, level by level: a circle of includes never runs out of levels.
Levels(sources, name) ==
    LET level[k \in 0..MaxReferenceDepth] ==
            IF k = 0 THEN {name}
            ELSE UNION {References(sources, n) : n \in level[k - 1]}
    IN level

Reached(sources, name) ==
    UNION {Levels(sources, name)[k] : k \in 0..MaxReferenceDepth}
Patterns(sources, name) == UNION {Own(sources, n) : n \in Reached(sources, name)}

ScopeResolves(sources, name) ==
    /\ Levels(sources, name)[MaxReferenceDepth] = {}
    /\ Reached(sources, name) \subseteq Defined(sources)
    /\ Accepted(Patterns(sources, name)) # {}
    /\ Compiles(Patterns(sources, name))

\* ScopeSet::build: all scopes resolve or the file is refused.
ScopesLoad(sources) ==
    /\ ParsesAsScopes(sources)
    /\ \A name \in Defined(sources) : ScopeResolves(sources, name)

IsKnown(sources, name) == name = All \/ name \in Defined(sources)
InScope(sources, name, p) ==
    name = All \/ (name \in Defined(sources) /\ IsExcluded(Patterns(sources, name), p))
Narrow(sources, name, paths) == {p \in paths : InScope(sources, name, p)}
=============================================================================
