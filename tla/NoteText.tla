------------------------------- MODULE NoteText -------------------------------
(* The text of a note as the vault's editing operations see it: patch.rs,     *)
(* frontmatter.rs and parser.rs. A line is what those scanners tell apart: a  *)
(* blank, prose, a heading, a code fence, a front matter delimiter or a field *)
(* of front matter. Wording, widths and the order of YAML keys are left out.  *)
EXTENDS Naturals, Sequences, SequencesExt, FiniteSetsExt

CONSTANTS None, Absent   \* no such thing; a note without front matter

ASSUME NoneAssumption == None # Absent

-----------------------------------------------------------------------------
(* Lines and documents. A document is its lines and whether the last of them  *)
(* ends with a newline; the empty document counts as ended.                   *)

Line(kind, form, n, text, value) ==
    [kind |-> kind, form |-> form, n |-> n, text |-> text, value |-> value]

Blank         == Line("blank", "plain", 0, None, <<>>)
Prose(t)      == Line("text", "plain", 0, t, <<>>)
\* A line that ends with ^b, after a space or glued to a word.
Ref(t, b)     == Line("text", "plain", 0, t, <<b>>)
GluedRef(t, b) == Line("text", "glued", 0, t, <<b>>)
\* [[t]] and #t in running text.
Link(t)       == Line("text", "link", 0, t, <<>>)
Tag(t)        == Line("text", "tag", 0, t, <<>>)
\* "##" and text after a space, after a tab, behind four spaces, or underlined.
Heading(n, t) == Line("heading", "plain", n, t, <<>>)
HeadingAs(form, n, t) == Line("heading", form, n, t, <<>>)
Fence(mark, n, info)  == Line("fence", mark, n, info, <<>>)
\* "---", alone on its line or with spaces behind it.
Delim         == Line("delim", "plain", 0, None, <<>>)
PaddedDelim   == Line("delim", "padded", 0, None, <<>>)
Field(k, form, v) == Line("field", form, 0, k, v)

Text(ls)     == [lines |-> ls, closed |-> TRUE]
Unclosed(ls) == [lines |-> ls, closed |-> FALSE]
Empty        == Text(<<>>)

IsDocument(d) == /\ d = [lines |-> d.lines, closed |-> d.closed]
                 /\ d.lines \in Seq(Range(d.lines))
IsLine(l)  == l = Line(l.kind, l.form, l.n, l.text, l.value)
HasLines(d) == IsDocument(d) /\ \A l \in Range(d.lines) : IsLine(l)

Part(d, from, to) ==
    IF from > to THEN Empty
    ELSE [lines  |-> SubSeq(d.lines, from, to),
          closed |-> to < Len(d.lines) \/ d.closed]

\* ensure_trailing_newline
Ended(d) == [d EXCEPT !.closed = TRUE]

\* What two lines become when there is no newline between them. A delimiter is
\* one no longer, and a reference counts only at the end of its line.
Glue(l, m) ==
    IF l.kind = "blank" THEN m
    ELSE IF l.kind = "delim" THEN [m EXCEPT !.kind = "text", !.form = "plain"]
    ELSE IF l.kind = "fence" THEN [l EXCEPT !.text = m.text]
    ELSE IF l.kind = "field" THEN l
    ELSE [l EXCEPT !.text = <<l.text, m.text>>, !.value = m.value,
                   !.form = IF m.value = <<>> THEN l.form ELSE m.form]

Join(d, e) ==
    IF d.lines = <<>> THEN e ELSE IF e.lines = <<>> THEN d
    ELSE [lines  |-> IF d.closed THEN d.lines \o e.lines
                     ELSE Front(d.lines) \o <<Glue(Last(d.lines), Head(e.lines))>>
                          \o Tail(e.lines),
          closed |-> e.closed]

Join3(d, e, f) == Join(Join(d, e), f)

-----------------------------------------------------------------------------
(* Which lines are prose: behind the front matter and outside code fences.    *)

IsDelim(l) == l.kind = "delim"
Closings(d, Closes(_)) == {i \in 2..Len(d.lines) : Closes(d.lines[i])}

\* A fence is closed by one of the same character, at least as long and bare.
OutOfCode == [n |-> 0, form |-> "plain"]
AcrossFence(open, l) ==
    IF l.kind # "fence" THEN open
    ELSE IF open = OutOfCode THEN [n |-> l.n, form |-> l.form]
    ELSE IF l.text = None /\ l.form = open.form /\ l.n >= open.n THEN OutOfCode
    ELSE open

\* The lines after line k that are neither fences nor fenced.
Unfenced(d, k) ==
    LET open[i \in k..Len(d.lines)] ==
            IF i = k THEN OutOfCode ELSE AcrossFence(open[i - 1], d.lines[i])
    IN {i \in k+1..Len(d.lines) : open[i-1] = OutOfCode /\ d.lines[i].kind # "fence"}

\* Mutant: fences are not looked at.
ProseInCode(d) == {i \in DOMAIN d.lines : i > Min(Closings(d, IsDelim) \cup {Len(d.lines)})
                                          \/ ~IsDelim(Head(d.lines))}

\* patch.rs: front matter that is never closed reaches to the end.
PatchProse(d) ==
    IF d.lines # <<>> /\ IsDelim(Head(d.lines))
    THEN Unfenced(d, Min(Closings(d, IsDelim) \cup {Len(d.lines)}))
    ELSE Unfenced(d, 0)

\* pulldown_cmark as parser.rs configures it: without a closing delimiter there
\* is no front matter.
MdProse(d) ==
    IF d.lines # <<>> /\ IsDelim(Head(d.lines)) /\ Closings(d, IsDelim) # {}
    THEN Unfenced(d, Min(Closings(d, IsDelim))) ELSE Unfenced(d, 0)

-----------------------------------------------------------------------------
(* Headings as patch targets.                                                 *)

\* parse_heading: any indentation, but a space after the marks.
PatchHeadings(d) ==
    {i \in PatchProse(d) : d.lines[i].kind = "heading"
                           /\ d.lines[i].form \in {"plain", "indented"}}

NotFound == [at |-> 0, from |-> 0, to |-> 0]

\* One segment of a path of headings; the section of a heading reaches to the
\* next one of its level or higher and not beyond its parent's.
Descend(d, r, segment) ==
    LET H == PatchHeadings(d)
        found == {i \in H : i >= r.from /\ i < r.to /\ d.lines[i].text = segment}
        at == Min(found)
        next == {i \in H : i > at /\ d.lines[i].n <= d.lines[at].n}
    IN IF r = NotFound \/ found = {} THEN NotFound
       ELSE [at |-> at, from |-> at + 1, to |-> Min(next \cup {r.to})]

ResolveHeading(d, target) ==
    LET to[k \in 0..Len(target)] ==
            IF k = 0 THEN [at |-> 0, from |-> 1, to |-> Len(d.lines) + 1]
            ELSE Descend(d, to[k - 1], target[k])
    IN to[Len(target)]

PatchHeading(d, op, r, content) ==
    LET upTo == Part(d, 1, r.at)
        rest == Part(d, r.to, Len(d.lines))
    IN CASE op = "prepend" ->
              Join3(Ended(upTo), Ended(content), Part(d, r.at + 1, Len(d.lines)))
         [] op = "append"  ->
              Join3(Ended(Part(d, 1, r.to - 1)), Ended(content), rest)
         [] op = "replace" ->
              Join3(Ended(upTo), IF r.to > Len(d.lines) THEN content ELSE Ended(content),
                    rest)

-----------------------------------------------------------------------------
(* Block references as patch targets.                                         *)

RefLines(d, b) ==
    {i \in PatchProse(d) : d.lines[i].value = <<b>> /\ d.lines[i].form # "glued"}

\* The content, followed by a space and the reference.
Marked(content, b) ==
    IF content = Empty THEN Unclosed(<<Ref(None, b)>>)
    ELSE IF content.closed THEN Join(content, Unclosed(<<Ref(None, b)>>))
    ELSE Unclosed(Front(content.lines)
                  \o <<[Last(content.lines) EXCEPT !.value = <<b>>]>>)

PatchBlock(d, op, at, content) ==
    LET before == Part(d, 1, at - 1)
        after  == Part(d, at + 1, Len(d.lines))
    IN CASE op = "prepend" -> Join3(before, Ended(content), Part(d, at, Len(d.lines)))
         [] op = "append"  -> Join(Ended(Join(Part(d, 1, at), content)), after)
         [] op = "replace" ->
              Join3(before,
                    [Marked(content, d.lines[at].value[1])
                       EXCEPT !.closed = Part(d, at, at).closed],
                    after)

-----------------------------------------------------------------------------
(* Front matter. YAML is a mapping, something else ("other": a comment or a   *)
(* scalar) or malformed ("bad").                                              *)

Keys(ls) == {ls[i].text : i \in {j \in DOMAIN ls : ls[j].kind = "field"}}

Yaml(ls) ==
    LET kinds  == {ls[i].kind : i \in DOMAIN ls} \ {"blank"}
        fields == {i \in DOMAIN ls : ls[i].kind = "field"}
    IN IF kinds = {} THEN "mapping"
       ELSE IF fields = {} THEN "other"
       ELSE IF kinds \subseteq {"field", "heading"}
               /\ \A i, j \in fields : i # j => ls[i].text # ls[j].text
       THEN "mapping" ELSE "bad"

\* The fields by name; comments and blank lines are not part of a mapping.
Mapping(ls) ==
    [k \in Keys(ls) |-> LET l == CHOOSE x \in Range(ls) : x.kind = "field" /\ x.text = k
                        IN [form |-> l.form, value |-> l.value]]

With(fm, k, v) == [x \in DOMAIN fm \cup {k} |-> IF x = k THEN v ELSE fm[x]]
Without(fm, k) == [x \in DOMAIN fm \ {k} |-> fm[x]]
Scalar(v)      == [form |-> "scalar", value |-> <<v>>]

Rendered(fm) ==
    Text(<<Delim>> \o SetToSeq({Field(k, fm[k].form, fm[k].value) : k \in DOMAIN fm})
         \o <<Delim>>)

\* The line that closes the front matter, 0 without any. patch.rs trims the
\* delimiters, frontmatter.rs compares them.
Opened(d, Closes(_)) ==
    IF d.lines # <<>> /\ Closes(Head(d.lines)) /\ Closings(d, Closes) # {}
    THEN Min(Closings(d, Closes)) ELSE 0
FrontmatterBoundaries(d) == Opened(d, IsDelim)
IsBareDelim(l) == l = Delim
RawFrontmatter(d) == Opened(d, IsBareDelim)

GetBody(d) == Part(d, RawFrontmatter(d) + 1, Len(d.lines))

\* patch_frontmatter; None where it fails.
PatchFrontmatter(d, op, key, v) ==
    LET end == FrontmatterBoundaries(d)
        ls  == SubSeq(d.lines, 2, end - 1)
        fm  == Mapping(ls)
        old == IF key \in DOMAIN fm THEN fm[key] ELSE [form |-> "scalar", value |-> <<>>]
        new == CASE op = "replace" -> Scalar(v)
                 [] op = "append"  -> [old EXCEPT !.value = @ \o <<v>>]
                 [] op = "prepend" -> [old EXCEPT !.value = <<v>> \o @]
    IN IF end = 0 \/ Yaml(ls) # "mapping" THEN None
       ELSE Join(Rendered(With(fm, key, new)), Part(d, end + 1, Len(d.lines)))

\* parse_frontmatter: what is not a mapping counts as empty, malformed YAML is
\* an error (None).
ParseFrontmatter(d) ==
    LET end == RawFrontmatter(d)
        ls  == SubSeq(d.lines, 2, end - 1)
    IN IF end = 0 THEN Absent
       ELSE CASE Yaml(ls) = "mapping" -> Mapping(ls)
              [] Yaml(ls) = "other"   -> <<>>
              [] Yaml(ls) = "bad"     -> None

RebuildContent(fm, body) == IF DOMAIN fm = {} THEN body ELSE Join(Rendered(fm), body)

\* Mutant: the old front matter stays behind the new one.
SetFieldTwice(d, k, v) ==
    LET fm == ParseFrontmatter(d) IN
    IF fm = None THEN None
    ELSE RebuildContent(With(IF fm = Absent THEN <<>> ELSE fm, k, v), d)

SetField(d, k, v) ==
    LET fm == ParseFrontmatter(d) IN
    IF fm = None THEN None
    ELSE RebuildContent(With(IF fm = Absent THEN <<>> ELSE fm, k, v), GetBody(d))

RemoveField(d, k) ==
    LET fm == ParseFrontmatter(d) IN
    CASE fm = None -> None
      [] fm \notin {None, Absent} /\ k \in DOMAIN fm ->
           RebuildContent(Without(fm, k), GetBody(d))
      [] OTHER -> d

\* extract_string_list: a list as it is, a scalar split at commas.
StringList(fm, k) ==
    IF fm \in {None, Absent} \/ k \notin (DOMAIN fm) THEN {} ELSE Range(fm[k].value)

-----------------------------------------------------------------------------
(* What parser.rs lists of a note.                                            *)

\* Four spaces make a line code; a tab or an underline make a heading as well.
MdHeadings(d) ==
    {i \in MdProse(d) : d.lines[i].kind = "heading" /\ d.lines[i].form # "indented"}

HeadingTexts(d) == {d.lines[i].text : i \in MdHeadings(d)}

\* ^id at the end of a line, whatever stands before it.
BlockRefs(d) == {d.lines[i].value[1] : i \in {j \in MdProse(d) :
                    d.lines[j].kind # "field" /\ d.lines[j].value # <<>>}}
Inline(d, form) == {d.lines[i].text : i \in {j \in MdProse(d) :
                       d.lines[j].kind = "text" /\ d.lines[j].form = form}}
Wikilinks(d)  == Inline(d, "link")
InlineTags(d) == Inline(d, "tag")

FrontmatterKeys(d) ==
    LET fm == ParseFrontmatter(d) IN IF fm \in {None, Absent} THEN {} ELSE DOMAIN fm

DocumentMap(d) == [headings |-> HeadingTexts(d), blocks |-> BlockRefs(d),
                   fields |-> FrontmatterKeys(d)]

\* apply_patch: the new document, or None where the target is not found or the
\* front matter is not a mapping. A target is a path of headings, a block id or
\* a key; a value of front matter is the text of the content's first line.
ApplyPatch(d, p) ==
    CASE p.type = "heading" ->
           LET r == ResolveHeading(d, p.target) IN
           IF r = NotFound THEN None ELSE PatchHeading(d, p.op, r, p.content)
      [] p.type = "block" ->
           IF RefLines(d, p.target) = {} THEN None
           ELSE PatchBlock(d, p.op, Min(RefLines(d, p.target)), p.content)
      [] p.type = "frontmatter" ->
           PatchFrontmatter(d, p.op, p.target, Head(p.content.lines).text)
=============================================================================
