------------------------------ MODULE MCNoteTools ------------------------------
(* Small vaults and what clients ask of them. Each setup is one question: the   *)
(* texts that an edit meets, the paths, two clients on the same notes, a read   *)
(* of many notes while they grow, a read-only server, periodic notes.           *)
EXTENDS NoteTools

CONSTANTS
    me, you,                            \* clients
    a, b, nfc, nfd, txt, dir, secret, dot, out,   \* names; nfc and nfd are one text
    A, B, t, u, ref, key, tags, value   \* texts, a reference, keys and a value

Clients == {me, you}

\* Monday the first of January, the day after, the last of December of that year
\* and the first of January of the next, which lie in one ISO week.
Day(Y, G, Q, M, D, V, w) == [Y |-> Y, G |-> G, Q |-> Q, M |-> M, D |-> D, V |-> V, u |-> w]
MCDays == 1..4
MCCalendar == <<Day(1, 1, 1, 1, 1, 1, 1), Day(1, 1, 1, 1, 2, 1, 2),
                Day(1, 2, 4, 12, 31, 1, 1), Day(2, 2, 1, 1, 1, 1, 2)>>
PeriodNames == {FormatDate(DefaultFormat(p), d) : p \in Periods, d \in MCDays}

MCNames == {a, b, nfc, nfd, txt, dir, secret, dot, out} \cup PeriodNames
MCKey   == [n \in MCNames |-> IF n = nfd THEN nfc ELSE n]
MCMd    == {a, b, nfc, nfd} \cup PeriodNames
MCStem  == [n \in MCNames |-> IF n = a THEN A ELSE IF n = b THEN B ELSE n]
MCScopes == <<<<Header("work"), Include([form |-> "dir", path |-> <<dir>>])>>>>
MCSubTags == {<<u, t>>}
MCExcluded == {[form |-> "dir", path |-> <<secret>>], [form |-> "blank", path |-> <<>>]}
MCPlugin == [weekly |-> [enabled |-> TRUE, format |-> <<>>, folder |-> <<dir>>, template |-> <<a>>],
             daily  |-> [enabled |-> FALSE, format |-> <<"Y">>, folder |-> <<>>, template |-> Nothing]]
MCCoreDaily == [format |-> <<>>, folder |-> <<>>, template |-> <<b>>]

Dirs == {<<>>, <<dir>>, <<secret>>}
Setup(files, tools, mine, yours, others) ==
    [files |-> files, dirs |-> Dirs, links |-> {}, damaged |-> {}, tools |-> tools, calls |-> 1,
     requests |-> (me :> mine @@ you :> yours), edits |-> others]
Twice(s) == [s EXCEPT !.calls = 2]
Full == <<>>
Profile(name) == <<[not |-> FALSE, name |-> name]>>
Without1(name) == <<[not |-> TRUE, name |-> name]>>

P == <<a>>
Q == <<b>>
ProseDoc == Text(<<Prose(t)>>)
Added    == Unclosed(<<Prose(u)>>)

-----------------------------------------------------------------------------
(* Texts.                                                                      *)

Front1 == <<Delim, Field(key, "scalar", <<t>>), Field(tags, "list", <<u>>), Delim>>
Docs == <<
    Text(<<Heading(1, A), Prose(t), Heading(2, B), Prose(u), Heading(2, A), Blank, Heading(1, B)>>),
    Text(Front1 \o <<Fence("tick", 3, None), Heading(1, A), Ref(t, ref), Fence("tilde", 3, None),
           Fence("tick", 3, t), Fence("tick", 4, None), Heading(1, A), Ref(u, ref), Tag(t)>>),
    Unclosed(Front1 \o <<Heading(2, B), Link(A), Heading(3, A), Ref(t, ref)>>),
    Text(<<Delim, Heading(1, A), Delim, HeadingAs("indented", 1, A), GluedRef(t, ref),
           HeadingAs("tab", 1, B), Ref(t, ref)>>),
    Text(<<PaddedDelim, Field(key, "scalar", <<t>>), PaddedDelim, Heading(1, A)>>),
    Text(<<Delim, Field(key, "scalar", <<t>>), Field(key, "scalar", <<u>>), Delim, Prose(t)>>),
    Text(<<Delim, Field(key, "scalar", <<t>>), Heading(1, A)>>),
    Empty>>

Patch(type, op, x, content) == [type |-> type, op |-> op, target |-> x, content |-> content]
Ops == {"append", "prepend", "replace"}
Patches ==
    {Patch("heading", op, x, Added) : op \in Ops, x \in {<<A>>, <<B>>, <<B, A>>}}
    \cup {Patch("block", op, ref, Text(<<Prose(u), Blank>>)) : op \in Ops}
    \cup {Patch("block", "replace", ref, Added), Patch("heading", "append", <<A>>, Text(<<Fence("tick", 3, None)>>))}
    \cup {Patch("frontmatter", op, k, Added) : op \in Ops, k \in {key, tags, value}}

Rewrites ==
    {[tool |-> "note_patch", path |-> P, patch |-> p] : p \in Patches}
    \cup {[tool |-> "note_insert", path |-> P, position |-> w, content |-> Added] :
             w \in {"beginning", "end", "middle"}}
    \cup {[tool |-> "note_frontmatter_edit", path |-> P, action |-> x, key |-> k, value |-> v] :
             x \in {"set", "remove"}, k \in {key, value}, v \in {Scalar(u), None}}
    \cup {[tool |-> "note_frontmatter_edit", path |-> P, action |-> "get", key |-> key, value |-> None],
          [tool |-> "note_patch_targets", path |-> P], [tool |-> "note_frontmatter", path |-> P]}

Texts == [i \in DOMAIN Docs |-> Twice(Setup(P :> Docs[i], Full, Rewrites, {}, {}))]

-----------------------------------------------------------------------------
(* Paths.                                                                      *)

Write(p, d)  == [tool |-> "note_write", path |-> p, content |-> d]
Create(p, f) == [tool |-> "note_create", path |-> p, content |-> ProseDoc, front |-> f]
Delete(p, x) == [tool |-> "note_delete", path |-> p, confirm |-> x]
Move(p, q)   == [tool |-> "note_move", path |-> p, to |-> q]
Append1(p)   == [tool |-> "note_insert", path |-> p, position |-> "end", content |-> Added]

Broken == Text(<<Delim, Field(key, "scalar", <<t>>), Field(key, "scalar", <<u>>), Delim>>)
Raw == {P, <<nfd>>, <<nfc>>, <<dir, Up, a>>, <<Here, dir, a>>, <<dir>>, <<Up, a>>, <<Root, a>>,
        <<secret, a>>, <<dir, dot, a>>, <<a, b>>, <<txt>>, <<>>}

Lookups == {Create(p, f) : p \in Raw, f \in {<<>>}} \cup {Create(Q, None), Create(Q, key :> Scalar(u))}
           \cup {Write(p, d) : p \in Raw, d \in {ProseDoc, Broken}}
           \cup {Delete(p, TRUE) : p \in Raw} \cup {Delete(P, FALSE)}
           \cup {Move(p, q) : p \in {P, <<nfd>>, <<dir>>, <<secret, b>>, <<>>, <<txt>>},
                              q \in {<<nfc>>, <<secret, a>>, <<dir, b, a>>, <<b, a>>, Q, <<Up>>}}
Files1 == P :> ProseDoc @@ <<nfc>> :> Text(<<Link(A)>>) @@ <<secret, b>> :> ProseDoc
          @@ <<dir, a>> :> Broken @@ <<txt>> :> Empty
Twins  == <<nfc>> :> ProseDoc @@ <<nfd>> :> Text(<<Link(A)>>) @@ P :> ProseDoc
Linked1(s, p) == [s EXCEPT !.dirs = @ \cup {p}, !.links = {p}]

Paths == <<Setup(Files1, Full, Lookups, {}, {}), Setup(Twins, Full, Lookups, {}, {}),
          Linked1(Setup(Files1, Full, {Write(<<out, a>>, ProseDoc), Delete(<<out>>, TRUE),
                                       Move(P, <<out, a>>)}, {}, {}), <<out>>),
          Twice(Linked1(Setup(Files1, Full, {Move(<<dir>>, <<txt, a>>), Move(<<dir>>, <<b>>),
                    Write(<<b, out, a>>, ProseDoc), Write(<<dir, out, a>>, ProseDoc)}, {}, {}),
                <<dir, out>>))>>

-----------------------------------------------------------------------------
(* Two clients and another program.                                            *)

Both == {Create(P, <<>>), Create(Q, <<>>), Write(P, Broken), Append1(P), Delete(P, TRUE),
         Move(P, Q), Move(Q, P),
         [tool |-> "note_patch", path |-> P, patch |-> Patch("heading", "append", <<A>>, Added)],
         [tool |-> "note_frontmatter_edit", path |-> P, action |-> "set", key |-> key, value |-> Scalar(u)],
         [tool |-> "note_insert", path |-> P, position |-> "beginning", content |-> Added]}
Changes == {[path |-> P, doc |-> Text(<<Prose(u), Heading(1, A)>>)], [path |-> P, doc |-> None],
            [path |-> Q, doc |-> ProseDoc]}
\* A path that leads elsewhere once a directory of the other form is gone, and a
\* move to where the index still has a note.
Forms == [Setup(<<nfc, a>> :> ProseDoc @@ P :> Broken @@ Q :> ProseDoc, Full,
                {Create(<<nfd, a>>, <<>>), Create(<<nfd, b>>, <<>>), Move(P, Q), Move(P, <<nfd, a>>)},
                {Delete(<<nfd>>, TRUE)},
                {[path |-> Q, doc |-> None], [path |-> <<nfd, a>>, doc |-> ProseDoc]})
          EXCEPT !.dirs = @ \cup {<<nfc>>, <<nfd>>}]
\* A directory moved to where an empty one has come to be.
Taken == Setup(<<dir, a>> :> ProseDoc, Full, {Move(<<dir>>, Q)}, {Create(<<b, a>>, <<>>)},
               {[path |-> <<b, a>>, doc |-> None]})
Races == <<Setup(P :> Text(<<Heading(1, A)>>), Full, Both, Both, Changes), Forms, Taken>>

-----------------------------------------------------------------------------
(* Reading many notes.                                                         *)

Many(paths, d, rec, glob, files, bytes) ==
    [tool |-> "note_read_many", paths |-> paths, dir |-> d, recursive |-> rec, glob |-> glob,
     max_files |-> files, max_bytes |-> bytes]
Selections ==
    {Many(None, <<>>, rec, g, n, 3) : rec \in {None, TRUE}, g \in {None, {a}}, n \in 1..4}
    \cup {Many(s, None, None, None, 9, 2) : s \in {<<>>, <<P, Q, P>>, <<Q, <<txt, a>>, <<dir>>>>,
                <<<<nfc>>, P>>, <<<<Up>>>>, <<P, P, P, P>>}}
    \cup {Many(None, <<b>>, None, None, 1, 1), Many(None, <<txt>>, None, None, 1, 1), Many(None, None, None, None, 1, 1), Many(<<P>>, None, TRUE, None, 1, 1),
          Many(<<P>>, None, None, None, 0, 1), Many(<<P>>, <<>>, None, None, 1, 1)}
Growth == {[path |-> P, doc |-> Text(<<Prose(t), Prose(u), Blank>>)], [path |-> P, doc |-> None],
           [path |-> Q, doc |-> Text(<<Prose(t), Prose(u)>>)]}
Reads == <<Setup(P :> ProseDoc @@ Q :> ProseDoc @@ <<dir, a>> :> ProseDoc @@ <<dir, b>> :> Empty
                @@ <<txt>> :> Empty, Full, Selections, {}, Growth),
          Setup(Twins, Full, Selections, {}, {})>>

-----------------------------------------------------------------------------
(* Views of the vault, on servers with fewer tools.                            *)

Views == {[tool |-> "vault_list", format |-> f, path |-> p, recursive |-> TRUE, glob |-> MCNames,
           depth |-> n, metadata |-> m] :
             f \in {"list", "tree", "csv"}, p \in {<<>>, <<dir>>}, n \in {1, 2}, m \in BOOLEAN}
         \cup {[tool |-> x, path |-> p] : x \in {"note_read", "note_metadata", "note_links",
                    "vault_broken_links", "open_in_obsidian", "vault_orphans", "vault_info"},
                    p \in {P, Q, <<nfd>>}}
         \cup {[tool |-> "vault_broken_links", path |-> None]}
         \cup {[tool |-> "search_tags", tag |-> t, nested |-> n] : n \in BOOLEAN}
         \cup {[tool |-> "search_frontmatter", key |-> key, op |-> x, value |-> v] :
                  x \in {"exists", "eq", "contains"}, v \in {u, None}}
         \cup {[tool |-> "search_regex", pattern |-> x] : x \in {None, {t, key}}}
Linked == P :> Text(<<Link(A), Link(B)>>) @@ Q :> Text(<<Link(t)>>) @@ <<dir, nfd>> :> Text(<<Link(nfc)>>)
          @@ <<nfc>> :> Text(Front1 \o <<Prose(t), Tag(u)>>) @@ <<dir, dot>> :> ProseDoc
Few == {Write(Q, ProseDoc), Append1(P), Delete(Q, TRUE), Create(<<dir, a>>, <<>>), Move(Q, <<dir, b>>),
        [tool |-> "note_frontmatter_edit", path |-> P, action |-> "set", key |-> key, value |-> Scalar(u)]}
Settings == <<Full, Profile("read"), Profile("minimal"), Profile("core"), Without1("note_write")>>
Servers == [i \in DOMAIN Settings |-> Setup(Linked, Settings[i], Views \cup Few,
               {Write(Q, Text(<<Link(A)>>)), Delete(Q, TRUE)}, Changes)]

-----------------------------------------------------------------------------
(* Periodic notes.                                                             *)

Asks == {<<p, d>> \in Periods \X MCDays :
            p \in {"daily", "weekly", "yearly"} \/ d # 3}
PeriodicCalls ==
    {[tool |-> "periodic_create", period |-> x[1], day |-> x[2], content |-> d] :
         x \in Asks, d \in {None, Added}}
    \cup {[tool |-> "periodic_get", period |-> "weekly", day |-> d] : d \in MCDays}
    \cup {[tool |-> "periodic_list", period |-> p, limit |-> n] : p \in Periods, n \in {1, 10}}
LastWeek == Q :> Broken @@ <<dir, <<<<"G", 1>>, <<"V", 1>>>>>> :> Empty
\* Configurations that cannot be read.
Daily1 == Setup(P :> ProseDoc, Full, PeriodicCalls, {}, {})
PeriodicNotes == <<Twice(Setup(P :> ProseDoc, Full, PeriodicCalls, {}, {})),
                   Setup(P :> ProseDoc @@ LastWeek, Full, PeriodicCalls, {}, {}),
                   [Daily1 EXCEPT !.damaged = {"plugin"}], [Daily1 EXCEPT !.damaged = {"core"}]>>

MCSetups == Texts \o Paths \o Races \o Reads \o Servers \o PeriodicNotes
================================================================================
