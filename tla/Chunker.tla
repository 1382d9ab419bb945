------------------------------- MODULE Chunker --------------------------------
(* chunker.rs: a body is cut into overlapping pieces, each below its headings.  *)
(* A body is a sequence of atoms of one unit: blanks, words, a stop, the marks  *)
(* of a fence and headings, each with its title. Offsets count from zero.       *)
EXTENDS Naturals, Sequences, SequencesExt, FiniteSetsExt

CONSTANTS
    Space, Newline, Stop,   \* atoms
    Fences,                 \* the atoms that open and close code
    Level,                  \* the headings, with their levels
    NoFence, Missing,
    MinTarget, DefaultTarget, DefaultOverlap, HardMaxFactor

ASSUME LevelAssumption  == \A h \in DOMAIN Level : Level[h] \in 1..6
ASSUME TargetAssumption == {MinTarget, DefaultTarget} \subseteq Nat \ {0, 1}
ASSUME FactorAssumption == HardMaxFactor \in Nat \ {0}
ASSUME OverlapAssumption == DefaultOverlap \in Nat

-----------------------------------------------------------------------------
(* The configuration, from the environment, where a number may be missing.     *)

Bounded(target, overlap) == Min({overlap, (target - 1) \div 2})

Config(target, overlap, packing) ==
    [target |-> target, overlap |-> Bounded(target, overlap), packing |-> packing]
FromEnv(env) ==
    Config(IF env.target = Missing \/ env.target < MinTarget THEN DefaultTarget ELSE env.target,
           IF env.overlap = Missing THEN DefaultOverlap ELSE env.overlap, env.packing)
HardMax(config) == HardMaxFactor * config.target

-----------------------------------------------------------------------------
(* Sections.                                                                   *)

\* The elements of a sequence that are in a set, in their order.
Within(s, S) ==
    LET upto[i \in 0..Len(s)] ==
            IF i = 0 THEN <<>>
            ELSE IF s[i] \in S THEN Append(upto[i - 1], s[i]) ELSE upto[i - 1]
    IN upto[Len(s)]

Blanks       == {Space, Newline}
IsBlank(s)   == Range(s) \subseteq Blanks
Starts(body) == {i \in DOMAIN body : i = 1 \/ body[i - 1] = Newline}

\* What a line begins with after its spaces; a newline for a blank line.
FirstOf(body, printed) == IF printed = {} THEN Newline ELSE body[Min(printed)]
Mark(body, i) == FirstOf(body, {j \in DOMAIN body : j >= i /\ body[j] # Space})

\* The fence that is open before a position. Only its mark counts, neither its
\* length nor what follows it.
Toggle(open, mark) ==
    IF mark \notin Fences THEN open
    ELSE IF open = NoFence THEN mark
    ELSE IF mark = open THEN NoFence ELSE open
OpenFence(body, starts) ==
    LET open[i \in 0..Len(body)] ==
            IF i = 0 THEN NoFence
            ELSE IF i \in starts THEN Toggle(open[i - 1], Mark(body, i)) ELSE open[i - 1]
    IN open

HeadingsAmong(body, starts, open) ==
    {i \in starts : Mark(body, i) \in DOMAIN Level /\ open[i] = NoFence}
HeadingStarts(body) == HeadingsAmong(body, Starts(body), OpenFence(body, Starts(body)))

\* Mutant: a heading stays open until one of a higher level.
PushedBelow(trail, h) == Append(Within(trail, {g \in DOMAIN Level : Level[g] <= Level[h]}), h)

\* The trail after a heading: its level closes those of the same and deeper.
Pushed(trail, h) == Append(Within(trail, {g \in DOMAIN Level : Level[g] < Level[h]}), h)

TrailsOf(body, headings) ==
    LET trail[i \in 0..Len(body)] ==
            IF i = 0 THEN <<>>
            ELSE IF i \in headings THEN Pushed(trail[i - 1], Mark(body, i)) ELSE trail[i - 1]
    IN trail

\* From a cut to the next one, under the trail of its first line.
SectionsAt(body, cuts, trails) ==
    [k \in DOMAIN cuts |->
        [path |-> trails[cuts[k] + 1], start |-> cuts[k],
         end |-> IF k = Len(cuts) THEN Len(body) ELSE cuts[k + 1]]]
CutsAt(body, headings) ==
    Within([i \in DOMAIN body |-> i - 1], {0} \cup {i - 1 : i \in headings})
SectionsFrom(body, headings) ==
    SectionsAt(body, CutsAt(body, headings), TrailsOf(body, headings))
Sections(body) == SectionsFrom(body, HeadingStarts(body))

Raw(body, section) == SubSeq(body, section.start + 1, section.end)

\* Following sections join the first while the span is within the target.
Reach(raw, i, target) == Max({i} \cup {j \in i..Len(raw) : raw[j].end - raw[i].start <= target})
Packed(raw, target) ==
    LET from[i \in 1..Len(raw) + 1] ==
            IF i > Len(raw) THEN <<>>
            ELSE <<[raw[i] EXCEPT !.end = raw[Reach(raw, i, target)].end]>>
                 \o from[Reach(raw, i, target) + 1]
    IN from[1]
Printed(body, sections) == Within(sections, {s \in Range(sections) : ~IsBlank(Raw(body, s))})
PackedSections(body, target) == Packed(Printed(body, Sections(body)), target)

-----------------------------------------------------------------------------
(* Where a section is cut.                                                     *)

\* A paragraph, a sentence, a line, a word, in the order of preference.
Breaks == << <<Newline, Newline>>, <<Stop, Space>>, <<Stop, Newline>>, <<Newline>>, <<Space>> >>

Occurs(window, pattern) ==
    {p \in 0..Len(window) - Len(pattern) : SubSeq(window, p + 1, p + Len(pattern)) = pattern}
\* The last place, if it is in the second half.
Late(window, pattern) == {p \in Occurs(window, pattern) : p > Len(window) \div 2
                            /\ \A q \in Occurs(window, pattern) : q <= p}
CutAt(window, usable) ==
    IF usable = {} THEN Len(window)
    ELSE Max(Late(window, Breaks[Min(usable)])) + Len(Breaks[Min(usable)])
InWindow(window) == CutAt(window, {k \in DOMAIN Breaks : Late(window, Breaks[k]) # {}})
SplitPoint(s, limit) == IF Len(s) <= limit THEN Len(s) ELSE InWindow(SubSeq(s, 1, limit))

\* The next cursor: back by the overlap, and on by one at least.
NextCursor(cursor, take, overlap) ==
    IF cursor + take > overlap THEN Max({cursor + take - overlap, cursor + 1}) ELSE cursor + 1

Trimmed(s) ==
    IF IsBlank(s) THEN <<>>
    ELSE SubSeq(s, Min({i \in DOMAIN s : s[i] \notin Blanks}), Max({i \in DOMAIN s : s[i] \notin Blanks}))
Piece(section, raw, cursor, take) ==
    IF IsBlank(SubSeq(raw, cursor + 1, cursor + take)) THEN <<>>
    ELSE <<[offset |-> section.start + cursor, path |-> section.path,
            text |-> Trimmed(SubSeq(raw, cursor + 1, cursor + take))]>>

PiecesOf(section, raw, config) ==
    LET take == [c \in 0..Len(raw) |->
                    Min({SplitPoint(SubSeq(raw, c + 1, Len(raw)), config.target), HardMax(config)})]
        rest[i \in 0..Len(raw)] ==      \* from the cursor Len(raw) - i
            LET at == Len(raw) - i IN
            IF i = 0 THEN <<>>
            ELSE Piece(section, raw, at, take[at])
                 \o (IF take[at] >= i THEN <<>>
                     ELSE rest[Len(raw) - NextCursor(at, take[at], config.overlap)])
    IN rest[Len(raw)]

Walked(body, config) ==
    IF config.packing THEN PackedSections(body, config.target) ELSE Sections(body)
\* A blank section has only blank pieces. The index of a chunk is its place.
chunk_note(body, config) ==
    FlattenSeq([k \in DOMAIN Walked(body, config) |->
        PiecesOf(Walked(body, config)[k], Raw(body, Walked(body, config)[k]), config)])

\* What is embedded, but for the title of the note.
EmbedText(chunk) == chunk.path \o chunk.text

-----------------------------------------------------------------------------
(* The reference: what a reader of the chunks relies on.                       *)

\* The headings above a position: those no later one of their level or a higher
\* one has closed.
TrailAt(body, headings, p) ==
    {Mark(body, i) : i \in {j \in headings : /\ j <= p
        /\ ~\E k \in headings : j < k /\ k <= p /\ Level[Mark(body, k)] <= Level[Mark(body, j)]}}

Lead(body, offset) == Min({i \in DOMAIN body : i > offset /\ body[i] \notin Blanks})
Span(body, chunk)  == Lead(body, chunk.offset)..Lead(body, chunk.offset) + Len(chunk.text) - 1

\* The position of a chunk names the first of the headings it is below.
Located(body, headings, chunk) ==
    /\ chunk.text = [i \in 1..Len(chunk.text) |-> body[Lead(body, chunk.offset) + i - 1]]
    /\ Range(chunk.path) = TrailAt(body, headings, Lead(body, chunk.offset))

WellCut(body, headings, chunks, config) ==
    /\ {i \in DOMAIN body : body[i] \notin Blanks}
          \subseteq UNION {Span(body, c) : c \in Range(chunks)}
    /\ \A c \in Range(chunks) : Len(c.text) <= config.target /\ Located(body, headings, c)
    /\ \A k \in 2..Len(chunks) : chunks[k - 1].offset + 1 < chunks[k].offset
IsWellCut(body, config) == WellCut(body, HeadingStarts(body), chunk_note(body, config), config)
===============================================================================
