---------------------------- MODULE NoteToolsProofs ----------------------------
(* For any vaults, requests, clients and limits: an edit that is answered is   *)
(* in the index, and one that is refused changed no document (AnswersTrue); a  *)
(* new or moved note overwrites none (NothingOverwritten); an edit of front    *)
(* matter leaves the rest as it was (FieldsKept) and a patch lands where it    *)
(* was aimed (PatchLands); a server with the profile "read" changes no file    *)
(* (ReadersNeverWrite); note_read_many accounts for what it returns and what   *)
(* it leaves out (ManyAccounted); the tools that read agree with one another   *)
(* (ReadersTell), and a periodic note is in the list of its period, if its     *)
(* format can be read back (PeriodicListed), as the default formats can        *)
(* (DefaultsAreRead).                                                          *)
(*                                                                             *)
(* Five invariants carry it. Inv has which tools lead to which steps (Fits),   *)
(* what a step takes over (Ready), the account that a read keeps while files   *)
(* change under it (Accounts), and that every document in the vault is one     *)
(* (Sound). Honesty has the vault a tree (Tidy) and, for each call, what it    *)
(* may rely on where nobody interfered (Undivided), and which documents its    *)
(* path is not one of, whoever did (Free). AllMade has the document that a     *)
(* call wrote what its tool makes of the one it read, AllSpelt that paths are  *)
(* of names, Asked that a call is one its client makes.                        *)
EXTENDS NoteTools, VaultPathsProofs

--------------------------------------------------------------------------------
(* The bytes of a list of notes: the fold sums them over the list's places.    *)

Iterates(it, s, n) ==
    it = [t \in SUBSET (1..n) |->
             IF t = {} THEN 0 ELSE it[t \ {Max(t)}] + Size(s[Max(t)][2])]

\* The sum of a list is that of the iteration over all its places.
LEMMA BytesIs ==
    ASSUME NEW T, NEW s \in Seq(T)
    PROVE  Bytes(s) = (CHOOSE it : Iterates(it, s, Len(s)))[1..Len(s)]
<1>1. DOMAIN s = 1..Len(s)
  OBVIOUS
<1> QED
  BY <1>1, Zenon DEF Bytes, FoldLeft, MapThenFoldSet, Iterates

\* The set of the first numbers up to one, and without it.
LEMMA MaxOf ==
    ASSUME NEW n \in Nat, NEW t \in SUBSET (1..n+1), n + 1 \in t
    PROVE  Max(t) = n + 1 /\ t \ {n+1} \in SUBSET (1..n)
<1>1. \A y \in t : y \in 1..n+1 /\ n + 1 >= y
  OBVIOUS
<1>2. \A x \in t : (\A y \in t : x >= y) => x = n + 1
  BY <1>1
<1>3. Max(t) \in t /\ \A y \in t : Max(t) >= y
  BY <1>1 DEF Max
<1>4. Max(t) = n + 1
  BY <1>2, <1>3
<1>5. ASSUME NEW y \in t \ {n + 1} PROVE y \in 1..n
  BY <1>1
<1> QED
  BY <1>4, <1>5

\* The sums over all sets of places exist, whatever stands there.
LEMMA IterExists == ASSUME NEW s, NEW n \in Nat PROVE \E it : Iterates(it, s, n)
<1> DEFINE S == {k \in Nat : \E it : Iterates(it, s, k)}
<1>1. 0 \in S
  <2>1. Iterates([t \in SUBSET (1..0) |-> 0], s, 0)
    BY 1..0 = {} DEF Iterates
  <2> QED
    BY <2>1
<1>2. ASSUME NEW k \in Nat, k \in S PROVE k + 1 \in S
  <2>1. PICK it : Iterates(it, s, k)
    BY <1>2
  <2> DEFINE next == [t \in SUBSET (1..k+1) |->
                         IF k + 1 \in t THEN it[t \ {k+1}] + Size(s[k+1][2]) ELSE it[t]]
  <2>2. ASSUME NEW t \in SUBSET (1..k+1)
        PROVE  next[t] = IF t = {} THEN 0 ELSE next[t \ {Max(t)}] + Size(s[Max(t)][2])
    <3>1. CASE k + 1 \in t
      BY <3>1, MaxOf
    <3>2. CASE k + 1 \notin t
      <4>1. t \in SUBSET (1..k)
        BY <3>2
      <4>2. it[t] = IF t = {} THEN 0 ELSE it[t \ {Max(t)}] + Size(s[Max(t)][2])
        BY <2>1, <4>1, Zenon DEF Iterates
      <4>3. next[t] = it[t] /\ next[t \ {Max(t)}] = it[t \ {Max(t)}]
        BY <3>2
      <4> QED
        BY <4>2, <4>3
    <3> QED
      BY <3>1, <3>2
  <2>3. Iterates(next, s, k + 1)
    BY <2>2, Zenon DEF Iterates
  <2> QED
    BY <2>3
<1> HIDE DEF S
<1>3. Nat \subseteq S
  BY <1>1, <1>2, Induction
<1> QED
  BY <1>3 DEF S

\* They agree where the lists do.
LEMMA IterAgree ==
    ASSUME NEW s, NEW r, NEW it, NEW jt, NEW n \in Nat, NEW m \in Nat, m >= n,
           Iterates(it, s, n), Iterates(jt, r, m), \A i \in 1..n : s[i] = r[i]
    PROVE  \A t \in SUBSET (1..n) : it[t] = jt[t]
<1> DEFINE S == {k \in Nat : k <= n => \A t \in SUBSET (1..k) : it[t] = jt[t]}
<1>1. 0 \in S
  <2>1. it[{}] = 0 /\ jt[{}] = 0
    BY Zenon DEF Iterates
  <2> QED
    BY <2>1, 1..0 = {}
<1>2. ASSUME NEW k \in Nat, k \in S PROVE k + 1 \in S
  <2>s. k + 1 \in Nat
    OBVIOUS
  <2> SUFFICES ASSUME k + 1 <= n, NEW t \in SUBSET (1..k+1) PROVE it[t] = jt[t]
    BY <2>s, Zenon
  <2>0. k <= n /\ \A q \in SUBSET (1..k) : it[q] = jt[q]
    BY <1>2
  <2>1. CASE k + 1 \in t
    <3>1. t \in SUBSET (1..n) /\ t \in SUBSET (1..m) /\ t # {} /\ k + 1 \in 1..n
      <4>1. k + 1 \in 1..n /\ t # {}
        BY <2>1
      <4>2. ASSUME NEW y \in t PROVE y \in 1..n /\ y \in 1..m
        OBVIOUS
      <4> QED
        BY <4>1, <4>2
    <3>2. Max(t) = k + 1 /\ t \ {k + 1} \in SUBSET (1..k)
      BY <2>1, MaxOf
    <3>3. it[t] = it[t \ {Max(t)}] + Size(s[Max(t)][2])
      BY <3>1, Zenon DEF Iterates
    <3>4. jt[t] = jt[t \ {Max(t)}] + Size(r[Max(t)][2])
      BY <3>1, Zenon DEF Iterates
    <3> QED
      BY <2>0, <3>1, <3>2, <3>3, <3>4
  <2>2. CASE k + 1 \notin t
    <3>1. t \in SUBSET (1..k)
      BY <2>2
    <3> QED
      BY <2>0, <3>1
  <2> QED
    BY <2>1, <2>2
<1> HIDE DEF S
<1>3. n \in S
  BY <1>1, <1>2, Induction
<1>4. n <= n
  OBVIOUS
<1> QED
  BY <1>3, <1>4 DEF S

\* No note has no bytes, and a note more has its own.
LEMMA BytesOfNone == Bytes(<<>>) = 0
<1>1. <<>> \in Seq({}) /\ Len(<<>>) = 0 /\ 1..0 = {}
  OBVIOUS
<1>2. Bytes(<<>>) = (CHOOSE it : Iterates(it, <<>>, 0))[{}]
  BY <1>1, BytesIs
<1>3. Iterates(CHOOSE it : Iterates(it, <<>>, 0), <<>>, 0)
  BY IterExists
<1> QED
  BY <1>2, <1>3, Zenon DEF Iterates

\* One more note adds its size.
LEMMA BytesOfMore ==
    ASSUME NEW s, IsSeq(s), NEW x
    PROVE  Bytes(Append(s, x)) = Bytes(s) + Size(x[2])
<1> DEFINE r  == Append(s, x)
           n  == Len(s)
           it == CHOOSE f : Iterates(f, s, n)
           jt == CHOOSE f : Iterates(f, r, n + 1)
           T  == Range(s) \cup {x}
<1>0. s \in Seq(T)
  BY SeqMonotonic DEF IsSeq
<1>1. r \in Seq(T) /\ Len(r) = n + 1 /\ n \in Nat /\ r[n+1] = x /\ \A i \in 1..n : s[i] = r[i]
  BY <1>0
<1>2. Iterates(it, s, n) /\ Iterates(jt, r, n + 1)
  <2>1. n + 1 \in Nat
    BY <1>1
  <2>2. (\E f : Iterates(f, s, n)) /\ \E f : Iterates(f, r, n + 1)
    BY <1>1, <2>1, IterExists
  <2> QED
    BY <2>2, Zenon
<1>3. Bytes(s) = it[1..n] /\ Bytes(r) = jt[1..n+1]
  BY <1>0, <1>1, BytesIs
<1> HIDE DEF it, jt, r
<1>4. it[1..n] = jt[1..n]
  <2> DEFINE m == n + 1
  <2>1. n \in Nat /\ m \in Nat /\ m >= n /\ \A i \in 1..n : s[i] = r[i]
    BY <1>1
  <2>2. Iterates(it, s, n) /\ Iterates(jt, r, m)
    BY <1>2
  <2> HIDE DEF n, m
  <2> QED
    BY <2>1, <2>2, IterAgree
<1>5. Max(1..n+1) = n + 1 /\ (1..n+1) \ {n+1} = 1..n /\ 1..n+1 # {}
  BY <1>1, MaxOf
<1>6. jt[1..n+1] = jt[(1..n+1) \ {Max(1..n+1)}] + Size(r[Max(1..n+1)][2])
  BY <1>2, <1>5, Zenon DEF Iterates
<1> QED
  BY <1>1, <1>3, <1>4, <1>5, <1>6 DEF r

--------------------------------------------------------------------------------
(* Documents: what the editing operations make of them are documents again.   *)

\* Lines make a document.
LEMMA DocumentOf ==
    ASSUME NEW ls, IsSeq(ls), NEW b
    PROVE  IsDocument([lines |-> ls, closed |-> b])
BY DEF IsDocument, IsSeq

\* The empty text is one.
LEMMA EmptyIsDocument == IsDocument(Empty)
BY TuplesAreSeqs, DocumentOf DEF Empty, Text

\* The lines of a document are a sequence.
LEMMA LinesAre == ASSUME NEW d, IsDocument(d) PROVE IsSeq(d.lines)
BY DEF IsDocument, IsSeq

\* A document with its last line ended or not, as one pleases.
LEMMA ClosedIsDocument ==
    ASSUME NEW d, IsDocument(d), NEW b PROVE IsDocument([d EXCEPT !.closed = b])
<1> DEFINE l == d.lines
           e == [d EXCEPT !.closed = b]
<1>1. DOMAIN d = {"lines", "closed"}
  BY DEF IsDocument
<1>2. DOMAIN e = {"lines", "closed"} /\ e.lines = l /\ e.closed = b
  BY <1>1
<1>3. e = [x \in {"lines", "closed"} |-> e[x]]
  BY <1>1
<1> HIDE DEF l, e
<1>4. [lines |-> l, closed |-> b] = e
  BY <1>2, <1>3
<1>5. IsDocument(e)
  BY <1>4, LinesAre, DocumentOf DEF l
<1> QED
  BY <1>5 DEF e

\* With a newline added it stays one.
LEMMA EndedIsDocument == ASSUME NEW d, IsDocument(d) PROVE IsDocument(Ended(d))
BY ClosedIsDocument, Zenon DEF Ended

\* The lines between two places, of which the first may be behind the second.
LEMMA PartIsDocument ==
    ASSUME NEW d, IsDocument(d), NEW from \in Nat \ {0}, NEW to \in Int, to <= Len(d.lines)
    PROVE  IsDocument(Part(d, from, to))
<1>1. CASE from > to
  BY <1>1, EmptyIsDocument DEF Part
<1>2. CASE ~(from > to)
  <2>1. IsSeq(SubSeq(d.lines, from, to))
    BY LinesAre, SubSeqIsSeq
  <2> QED
    BY <1>2, <2>1, DocumentOf DEF Part
<1> QED
  BY <1>1, <1>2

\* Two texts one after the other.
LEMMA JoinIsDocument ==
    ASSUME NEW d, IsDocument(d), NEW e, IsDocument(e)
    PROVE  IsDocument(Join(d, e))
<1>1. CASE d.lines = <<>> \/ e.lines = <<>>
  BY <1>1 DEF Join
<1>2. CASE d.lines # <<>> /\ e.lines # <<>>
  <2> DEFINE glued == Front(d.lines) \o <<Glue(Last(d.lines), Head(e.lines))>> \o Tail(e.lines)
  <2>1. IsSeq(d.lines) /\ IsSeq(e.lines)
    BY LinesAre
  <2>2. IsSeq(d.lines \o e.lines)
    BY <2>1, ConcatIsSeq
  <2>3. IsSeq(Front(d.lines)) /\ IsSeq(Tail(e.lines))
    BY <2>1, <1>2, FrontIsSeq, TailIsSeq
  <2>4. IsSeq(Front(d.lines) \o <<Glue(Last(d.lines), Head(e.lines))>>)
    BY <2>3, TuplesAreSeqs, ConcatIsSeq
  <2>5. IsSeq(glued)
    BY <2>3, <2>4, ConcatIsSeq
  <2> HIDE DEF glued
  <2>6. Join(d, e) = [lines  |-> IF d.closed THEN d.lines \o e.lines ELSE glued,
                      closed |-> e.closed]
    BY <1>2, Zenon DEF Join, glued
  <2>7. IsSeq(IF d.closed THEN d.lines \o e.lines ELSE glued)
    BY <2>2, <2>5
  <2> QED
    BY <2>6, <2>7, DocumentOf
<1> QED
  BY <1>1, <1>2

\* Three of them.
LEMMA Join3IsDocument ==
    ASSUME NEW d, IsDocument(d), NEW e, IsDocument(e), NEW f, IsDocument(f)
    PROVE  IsDocument(Join3(d, e, f))
BY JoinIsDocument DEF Join3

--------------------------------------------------------------------------------
(* Where patches go.                                                           *)

\* The lines outside of code are lines of the document.
LEMMA UnfencedIn ==
    ASSUME NEW d, NEW k PROVE Unfenced(d, k) \subseteq k+1..Len(d.lines)
BY Zenon DEF Unfenced

\* So are those that the scanner of patch.rs takes for prose.
LEMMA ProseIn ==
    ASSUME NEW d, IsDocument(d) PROVE PatchProse(d) \subseteq 1..Len(d.lines)
<1>1. Len(d.lines) \in Nat
  BY LinesAre, IsSeqLen
<1> DEFINE S == Closings(d, IsDelim) \cup {Len(d.lines)}
<1>2. S \in SUBSET Nat /\ S # {}
  BY <1>1 DEF Closings
<1>3. Min(S) \in Nat
  BY <1>2, MinIsLeast
<1>4. PatchProse(d) = Unfenced(d, Min(S)) \/ PatchProse(d) = Unfenced(d, 0)
  BY Zenon DEF PatchProse
<1> HIDE DEF S
<1>5. \A k \in Nat : k+1..Len(d.lines) \subseteq 1..Len(d.lines)
  BY <1>1
<1> QED
  BY <1>3, <1>4, <1>5, UnfencedIn

\* A heading that is found has its section behind it, within the document.
Section(d) == {NotFound} \cup
    {[at |-> i, from |-> j, to |-> k] : i \in 0..Len(d.lines), j \in 1..Len(d.lines)+1,
                                        k \in 1..Len(d.lines)+1}
Sections(d) == {r \in Section(d) : r = NotFound \/ (r.from = r.at + 1 /\ r.at < r.to)}

\* One segment of a heading path further, still a section of the document.
LEMMA DescendStays ==
    ASSUME NEW d, IsDocument(d), NEW r \in Sections(d), NEW segment
    PROVE  Descend(d, r, segment) \in Sections(d)
<1> DEFINE H == PatchHeadings(d)
           found == {i \in H : i >= r.from /\ i < r.to /\ d.lines[i].text = segment}
           at == Min(found)
           next == {i \in H : i > at /\ d.lines[i].n <= d.lines[at].n}
           to == Min(next \cup {r.to})
<1>1. CASE r = NotFound \/ found = {}
  <2>1. Descend(d, r, segment) = NotFound
    BY <1>1, Zenon DEF Descend
  <2>2. NotFound \in Sections(d)
    BY DEF Sections, Section
  <2> QED
    BY <2>1, <2>2, Zenon
<1>2. CASE r # NotFound /\ found # {}
  <2>1. Len(d.lines) \in Nat
    BY LinesAre, IsSeqLen
  <2>2. H \subseteq 1..Len(d.lines)
    BY ProseIn DEF PatchHeadings
  <2>3. /\ r.at \in 0..Len(d.lines) /\ r.from \in 1..Len(d.lines)+1
        /\ r.to \in 1..Len(d.lines)+1
    BY <1>2 DEF Sections, Section
  <2>4. found \in SUBSET Nat
    BY <2>2
  <2>5. at \in found
    BY <1>2, <2>4, MinIsLeast
  <2>6. at \in 1..Len(d.lines) /\ at < r.to
    BY <2>2, <2>5
  <2>7. next \cup {r.to} \in SUBSET Nat /\ next \cup {r.to} # {}
    BY <2>2, <2>3
  <2>8. to \in next \cup {r.to}
    BY <2>7, MinIsLeast
  <2> HIDE DEF to, at, H
  <2>9. to \in 1..Len(d.lines)+1 /\ at < to
    <3>1. CASE to \in next
      <4>1. to \in H /\ to > at
        BY <3>1
      <4> QED
        BY <2>1, <2>2, <2>6, <4>1
    <3>2. CASE to = r.to
      BY <2>3, <2>6, <3>2
    <3> QED
      BY <2>8, <3>1, <3>2
  <2>10. Descend(d, r, segment) = [at |-> at, from |-> at + 1, to |-> to]
    BY <1>2, Zenon DEF Descend, at, to, H
  <2>11. at \in 0..Len(d.lines) /\ at + 1 \in 1..Len(d.lines)+1
    BY <2>1, <2>6
  <2> QED
    BY <2>9, <2>10, <2>11 DEF Sections, Section
<1> QED
  BY <1>1, <1>2

\* A heading path is followed segment by segment, from section to section.
LEMMA ResolvedBySteps ==
    ASSUME NEW d, IsDocument(d), NEW target, IsSeq(target)
    PROVE  \E to :
              /\ to = [k \in 0..Len(target) |-> to[k]]
              /\ to[0] = [at |-> 0, from |-> 1, to |-> Len(d.lines) + 1]
              /\ \A k \in 0..Len(target) : to[k] \in Sections(d)
              /\ \A k \in 1..Len(target) : to[k] = Descend(d, to[k - 1], target[k])
              /\ ResolveHeading(d, target) = to[Len(target)]
<1> DEFINE n == Len(target)
           base == [at |-> 0, from |-> 1, to |-> Len(d.lines) + 1]
           step == [k \in 1..n |-> [r \in Sections(d) |-> Descend(d, r, target[k])]]
           Follows(f) == f = [k \in 0..n |-> IF k = 0 THEN base
                                             ELSE Descend(d, f[k - 1], target[k])]
           to == CHOOSE f : Follows(f)
<1>1. n \in Nat
  BY IsSeqLen
<1>2. base \in Sections(d)
  <2>1. Len(d.lines) \in Nat
    BY LinesAre, IsSeqLen
  <2> QED
    BY <2>1 DEF Sections, Section
<1> HIDE DEF base
<1>3. step \in [1..n -> [Sections(d) -> Sections(d)]]
  BY DescendStays
<1> HIDE DEF step, n
<1>4. PICK f \in [0..n -> Sections(d)] : Recurs(f, n, base, step)
  BY <1>1, <1>2, <1>3, Recursion
<1>5. \A k \in 0..n : k # 0 => /\ k \in 1..n /\ f[k - 1] \in Sections(d)
                               /\ step[k][f[k - 1]] = Descend(d, f[k - 1], target[k])
  <2>1. ASSUME NEW k \in 0..n, k # 0 PROVE k \in 1..n /\ f[k - 1] \in Sections(d)
    <3>1. k - 1 \in 0..n
      BY <1>1, <2>1
    <3> QED
      BY <1>1, <2>1, <3>1
  <2> QED
    BY <2>1 DEF step
<1>6. Follows(f)
  <2>1. ASSUME NEW k \in 0..n
        PROVE  f[k] = IF k = 0 THEN base ELSE Descend(d, f[k - 1], target[k])
    BY <1>4, <1>5 DEF Recurs
  <2> QED
    BY <2>1
<1>7. Follows(to)
  BY <1>6, Zenon
<1> HIDE DEF to
<1>8. to = [k \in 0..n |-> to[k]] /\ to[0] = base
  BY <1>1, <1>7
<1>9. \A k \in 1..n : to[k] = Descend(d, to[k - 1], target[k])
  <2>1. ASSUME NEW k \in 1..n PROVE k \in 0..n /\ k # 0
    BY <1>1
  <2> QED
    BY <1>7, <2>1
<1>10. \A k \in 0..n : to[k] \in Sections(d)
  <2>1. \A k \in 1..n : to[k - 1] \in Sections(d) => to[k] \in Sections(d)
    BY <1>9, DescendStays
  <2> QED
    BY <1>1, <1>2, <1>8, <2>1, RecursionStays
<1>11. ResolveHeading(d, target) = to[n]
  BY Zenon DEF ResolveHeading, to, base, n
<1> QED
  BY <1>8, <1>9, <1>10, <1>11, Zenon DEF base, n

\* A heading path names a section of the document or nothing.
LEMMA ResolveHeadingIn ==
    ASSUME NEW d, IsDocument(d), NEW target, IsSeq(target)
    PROVE  ResolveHeading(d, target) \in Sections(d)
<1>1. Len(target) \in 0..Len(target)
  BY IsSeqLen
<1> QED
  BY <1>1, ResolvedBySteps

\* A patch of a section.
LEMMA PatchHeadingIsDocument ==
    ASSUME NEW d, IsDocument(d), NEW content, IsDocument(content),
           NEW op \in {"append", "prepend", "replace"},
           NEW r \in Sections(d), r # NotFound
    PROVE  IsDocument(PatchHeading(d, op, r, content))
<1> DEFINE upTo == Part(d, 1, r.at)
           rest == Part(d, r.to, Len(d.lines))
           below == Part(d, r.at + 1, Len(d.lines))
           above == Part(d, 1, r.to - 1)
<1>1. Len(d.lines) \in Nat
  BY LinesAre, IsSeqLen
<1>2. r.at \in 0..Len(d.lines) /\ r.to \in 1..Len(d.lines)+1
  BY DEF Sections, Section
<1>3. IsDocument(upTo) /\ IsDocument(rest) /\ IsDocument(below) /\ IsDocument(above)
  <2>1. IsDocument(Part(d, 1, r.at))
    BY <1>1, <1>2, PartIsDocument
  <2>2. IsDocument(Part(d, r.to, Len(d.lines)))
    BY <1>1, <1>2, PartIsDocument
  <2>3. r.at + 1 \in Nat \ {0} /\ Len(d.lines) \in Int /\ Len(d.lines) <= Len(d.lines)
    BY <1>1, <1>2
  <2>4. IsDocument(Part(d, r.at + 1, Len(d.lines)))
    BY <2>3, PartIsDocument
  <2>5. 1 \in Nat \ {0} /\ r.to - 1 \in Int /\ r.to - 1 <= Len(d.lines)
    BY <1>1, <1>2
  <2>6. IsDocument(Part(d, 1, r.to - 1))
    BY <2>5, PartIsDocument
  <2> QED
    BY <2>1, <2>2, <2>4, <2>6
<1> HIDE DEF upTo, rest, below, above
<1>4. IsDocument(Ended(upTo)) /\ IsDocument(Ended(content)) /\ IsDocument(Ended(above))
  BY <1>3, EndedIsDocument
<1>5. CASE op = "prepend"
  <2>1. PatchHeading(d, op, r, content) = Join3(Ended(upTo), Ended(content), below)
    BY <1>5 DEF PatchHeading, upTo, below
  <2> QED
    BY <1>3, <1>4, <2>1, Join3IsDocument
<1>6. CASE op = "append"
  <2>1. PatchHeading(d, op, r, content) = Join3(Ended(above), Ended(content), rest)
    BY <1>6 DEF PatchHeading, above, rest
  <2> QED
    BY <1>3, <1>4, <2>1, Join3IsDocument
<1>7. CASE op = "replace"
  <2> DEFINE new == IF r.to > Len(d.lines) THEN content ELSE Ended(content)
  <2>1. PatchHeading(d, op, r, content) = Join3(Ended(upTo), new, rest)
    BY <1>7 DEF PatchHeading, upTo, rest
  <2>2. IsDocument(new)
    BY <1>4
  <2> QED
    BY <1>3, <1>4, <2>1, <2>2, Join3IsDocument
<1> QED
  BY <1>5, <1>6, <1>7

\* The content of a block, with its reference.
LEMMA MarkedIsDocument ==
    ASSUME NEW content, IsDocument(content), NEW b
    PROVE  IsDocument(Marked(content, b))
<1> DEFINE mark == <<Ref(None, b)>>
           last == [Last(content.lines) EXCEPT !.value = <<b>>]
<1>1. IsSeq(mark) /\ IsSeq(<<last>>)
  BY TuplesAreSeqs
<1>2. CASE content = Empty
  <2>1. Marked(content, b) = [lines |-> mark, closed |-> FALSE]
    BY <1>2, Zenon DEF Marked, Unclosed
  <2> QED
    BY <1>1, <2>1, DocumentOf
<1>3. CASE content # Empty /\ content.closed
  <2>1. IsDocument([lines |-> mark, closed |-> FALSE])
    BY <1>1, DocumentOf
  <2>2. Marked(content, b) = Join(content, [lines |-> mark, closed |-> FALSE])
    BY <1>3, Zenon DEF Marked, Unclosed
  <2> QED
    BY <2>1, <2>2, JoinIsDocument
<1>4. CASE content # Empty /\ ~content.closed
  <2>1. IsSeq(Front(content.lines))
    BY LinesAre, FrontIsSeq
  <2> HIDE DEF last
  <2>2. IsSeq(Front(content.lines) \o <<last>>)
    BY <1>1, <2>1, ConcatIsSeq
  <2>3. Marked(content, b) = [lines |-> Front(content.lines) \o <<last>>, closed |-> FALSE]
    BY <1>4, Zenon DEF Marked, Unclosed, last
  <2> QED
    BY <2>2, <2>3, DocumentOf
<1> QED
  BY <1>2, <1>3, <1>4

\* A patch of a block.
LEMMA PatchBlockIsDocument ==
    ASSUME NEW d, IsDocument(d), NEW content, IsDocument(content),
           NEW op \in {"append", "prepend", "replace"}, NEW at \in 1..Len(d.lines)
    PROVE  IsDocument(PatchBlock(d, op, at, content))
<1> DEFINE before == Part(d, 1, at - 1)
           after  == Part(d, at + 1, Len(d.lines))
           upTo   == Part(d, 1, at)
           from   == Part(d, at, Len(d.lines))
<1>1. Len(d.lines) \in Nat
  BY LinesAre, IsSeqLen
<1>2. IsDocument(before) /\ IsDocument(after) /\ IsDocument(upTo) /\ IsDocument(from)
  <2>1. at - 1 \in Int /\ at - 1 <= Len(d.lines) /\ 1 \in Nat \ {0} /\ Len(d.lines) \in Int
    BY <1>1
  <2>2. at + 1 \in Nat \ {0} /\ Len(d.lines) <= Len(d.lines) /\ at \in Nat \ {0} /\ at \in Int
    BY <1>1
  <2>3. at <= Len(d.lines)
    BY <1>1
  <2>4. IsDocument(before)
    BY <2>1, PartIsDocument
  <2>5. IsDocument(after)
    BY <2>1, <2>2, PartIsDocument
  <2>6. IsDocument(upTo)
    BY <2>1, <2>2, <2>3, PartIsDocument
  <2>7. IsDocument(from)
    BY <2>1, <2>2, PartIsDocument
  <2> QED
    BY <2>4, <2>5, <2>6, <2>7
<1> HIDE DEF before, after, upTo, from
<1>3. CASE op = "prepend"
  <2>1. PatchBlock(d, op, at, content) = Join3(before, Ended(content), from)
    BY <1>3 DEF PatchBlock, before, from
  <2> QED
    BY <1>2, <2>1, EndedIsDocument, Join3IsDocument
<1>4. CASE op = "append"
  <2>1. PatchBlock(d, op, at, content) = Join(Ended(Join(upTo, content)), after)
    BY <1>4 DEF PatchBlock, upTo, after
  <2> QED
    BY <1>2, <2>1, EndedIsDocument, JoinIsDocument
<1>5. CASE op = "replace"
  <2> DEFINE b == Part(d, at, at).closed
             marked == Marked(content, d.lines[at].value[1])
             new == [marked EXCEPT !.closed = b]
  <2>1. IsDocument(marked)
    BY MarkedIsDocument
  <2> HIDE DEF marked, b
  <2>2. IsDocument(new)
    BY <2>1, ClosedIsDocument
  <2> HIDE DEF new
  <2>3. PatchBlock(d, op, at, content) = Join3(before, new, after)
    BY <1>5 DEF PatchBlock, before, after, new, marked, b
  <2> QED
    BY <1>2, <2>2, <2>3, Join3IsDocument
<1> QED
  BY <1>3, <1>4, <1>5

--------------------------------------------------------------------------------
(* Front matter and what is made of a note.                                    *)

\* The delimiter that closes the front matter is a line, or there is none.
LEMMA BoundariesIn ==
    ASSUME NEW d, IsDocument(d)
    PROVE  FrontmatterBoundaries(d) \in 0..Len(d.lines) /\ RawFrontmatter(d) \in 0..Len(d.lines)
<1>1. Len(d.lines) \in Nat
  BY LinesAre, IsSeqLen
<1> DEFINE S == Closings(d, IsDelim)
           B == Closings(d, IsBareDelim)
<1>2. S \subseteq 2..Len(d.lines) /\ B \subseteq 2..Len(d.lines)
  BY DEF Closings
<1>3. /\ FrontmatterBoundaries(d) = 0 \/ (S # {} /\ FrontmatterBoundaries(d) = Min(S))
      /\ RawFrontmatter(d) = 0 \/ (B # {} /\ RawFrontmatter(d) = Min(B))
  BY Zenon DEF FrontmatterBoundaries, RawFrontmatter, Opened
<1> HIDE DEF S, B
<1>4. (S # {} => Min(S) \in S) /\ (B # {} => Min(B) \in B)
  <2>1. S \in SUBSET Nat /\ B \in SUBSET Nat
    BY <1>1, <1>2
  <2> QED
    BY <2>1, MinIsLeast
<1>5. FrontmatterBoundaries(d) \in 0..Len(d.lines)
  <2>1. FrontmatterBoundaries(d) = 0 \/ FrontmatterBoundaries(d) \in 2..Len(d.lines)
    BY <1>2, <1>3, <1>4
  <2> QED
    BY <1>1, <2>1
<1>6. RawFrontmatter(d) \in 0..Len(d.lines)
  <2>1. RawFrontmatter(d) = 0 \/ RawFrontmatter(d) \in 2..Len(d.lines)
    BY <1>2, <1>3, <1>4
  <2> QED
    BY <1>1, <2>1
<1> QED
  BY <1>5, <1>6

\* Front matter has finitely many fields.
LEMMA KeysFinite == ASSUME NEW ls, IsSeq(ls) PROVE IsFiniteSet(DOMAIN Mapping(ls))
<1> DEFINE F == {j \in DOMAIN ls : ls[j].kind = "field"}
<1>1. IsFiniteSet(1..Len(ls))
  BY IsSeqLen, FS_Interval
<1>2. F \subseteq 1..Len(ls)
  BY IsSeqLen
<1>3. IsFiniteSet(F)
  BY <1>1, <1>2, FS_Subset
<1>4. Keys(ls) = {ls[i].text : i \in F}
  BY DEF Keys
<1> HIDE DEF F
<1>5. IsFiniteSet(Keys(ls))
  <2> DEFINE T == {ls[i].text : i \in F}
             f == [i \in F |-> ls[i].text]
  <2>1. f \in Surjection(F, T)
    BY DEF Surjection
  <2>2. IsFiniteSet(T)
    BY <1>3, <2>1, FS_Surjection
  <2> QED
    BY <1>4, <2>2
<1>6. DOMAIN Mapping(ls) = Keys(ls)
  BY DEF Mapping
<1> QED
  BY <1>5, <1>6

\* Fields are rendered as a document.
LEMMA RenderedIsDocument ==
    ASSUME NEW fm, IsFiniteSet(DOMAIN fm) PROVE IsDocument(Rendered(fm))
<1> DEFINE fields == {Field(k, fm[k].form, fm[k].value) : k \in DOMAIN fm}
           f == [k \in DOMAIN fm |-> Field(k, fm[k].form, fm[k].value)]
<1>1. f \in Surjection(DOMAIN fm, fields)
  BY Zenon DEF Surjection
<1> HIDE DEF f, fields
<1>2. IsFiniteSet(fields)
  BY <1>1, FS_Surjection
<1>3. IsSeq(SetToSeq(fields)) /\ IsSeq(<<Delim>>)
  BY <1>2, OrderIsSeq, TuplesAreSeqs
<1>4. IsSeq(<<Delim>> \o SetToSeq(fields))
  BY <1>3, ConcatIsSeq
<1>5. IsSeq(<<Delim>> \o SetToSeq(fields) \o <<Delim>>)
  BY <1>3, <1>4, ConcatIsSeq
<1>6. Rendered(fm) = [lines |-> <<Delim>> \o SetToSeq(fields) \o <<Delim>>, closed |-> TRUE]
  BY Zenon DEF Rendered, Text, fields
<1> QED
  BY <1>5, <1>6, DocumentOf

\* A field more or less, and still finitely many.
LEMMA WithFinite ==
    ASSUME NEW fm, IsFiniteSet(DOMAIN fm), NEW k, NEW v
    PROVE  IsFiniteSet(DOMAIN With(fm, k, v)) /\ IsFiniteSet(DOMAIN Without(fm, k))
<1>1. DOMAIN With(fm, k, v) = DOMAIN fm \cup {k} /\ DOMAIN Without(fm, k) = DOMAIN fm \ {k}
  BY DEF With, Without
<1>2. IsFiniteSet(DOMAIN fm \cup {k}) /\ IsFiniteSet(DOMAIN fm \ {k})
  BY FS_AddElement, FS_RemoveElement
<1> QED
  BY <1>1, <1>2

\* Front matter and body put together.
LEMMA RebuiltIsDocument ==
    ASSUME NEW fm, IsFiniteSet(DOMAIN fm), NEW body, IsDocument(body)
    PROVE  IsDocument(RebuildContent(fm, body))
BY RenderedIsDocument, JoinIsDocument DEF RebuildContent

\* What a note's front matter says: nothing, nonsense, or finitely many fields.
LEMMA FrontmatterIs ==
    ASSUME NEW d, IsDocument(d)
    PROVE  \/ ParseFrontmatter(d) \in {None, Absent}
           \/ IsFiniteSet(DOMAIN ParseFrontmatter(d))
<1> DEFINE end == RawFrontmatter(d)
           ls  == SubSeq(d.lines, 2, end - 1)
<1>1. Len(d.lines) \in Nat /\ end \in 0..Len(d.lines)
  BY LinesAre, IsSeqLen, BoundariesIn
<1>2. IsSeq(ls)
  <2>1. end - 1 \in Int /\ end - 1 <= Len(d.lines) /\ 2 \in Nat \ {0}
    BY <1>1
  <2> QED
    BY <2>1, LinesAre, SubSeqIsSeq
<1> HIDE DEF ls
<1>3. Yaml(ls) \in {"mapping", "other", "bad"}
  BY Zenon DEF Yaml
<1>4. IsFiniteSet(DOMAIN Mapping(ls)) /\ IsFiniteSet(DOMAIN <<>>)
  <2>1. DOMAIN <<>> = {}
    OBVIOUS
  <2> QED
    BY <1>2, <2>1, KeysFinite, FS_EmptySet
<1>5. ParseFrontmatter(d) = IF end = 0 THEN Absent
                            ELSE CASE Yaml(ls) = "mapping" -> Mapping(ls)
                                   [] Yaml(ls) = "other"   -> <<>>
                                   [] Yaml(ls) = "bad"     -> None
  BY Zenon DEF ParseFrontmatter, ls
<1> HIDE DEF end
<1> QED
  BY <1>3, <1>4, <1>5

\* What is behind the front matter.
LEMMA GetBodyIsDocument == ASSUME NEW d, IsDocument(d) PROVE IsDocument(GetBody(d))
<1>1. /\ Len(d.lines) \in Int /\ Len(d.lines) <= Len(d.lines)
      /\ RawFrontmatter(d) + 1 \in Nat \ {0}
  BY LinesAre, IsSeqLen, BoundariesIn
<1> QED
  BY <1>1, PartIsDocument DEF GetBody

\* A field that is set, or front matter that does not parse.
LEMMA SetFieldIsDocument ==
    ASSUME NEW d, IsDocument(d), NEW k, NEW v
    PROVE  SetField(d, k, v) = None \/ IsDocument(SetField(d, k, v))
<1> DEFINE fm  == ParseFrontmatter(d)
           old == IF fm = Absent THEN <<>> ELSE fm
<1>1. CASE fm = None
  BY <1>1 DEF SetField
<1>2. CASE fm # None
  <2>1. IsFiniteSet(DOMAIN old)
    <3>1. DOMAIN <<>> = {}
      OBVIOUS
    <3> QED
      BY <1>2, <3>1, FrontmatterIs, FS_EmptySet
  <2> HIDE DEF old
  <2>2. IsDocument(RebuildContent(With(old, k, v), GetBody(d)))
    BY <2>1, WithFinite, GetBodyIsDocument, RebuiltIsDocument
  <2>3. SetField(d, k, v) = RebuildContent(With(old, k, v), GetBody(d))
    BY <1>2, Zenon DEF SetField, old
  <2> QED
    BY <2>2, <2>3
<1> QED
  BY <1>1, <1>2

\* A field that is removed, or front matter that does not parse.
LEMMA RemoveFieldIsDocument ==
    ASSUME NEW d, IsDocument(d), NEW k
    PROVE  RemoveField(d, k) = None \/ IsDocument(RemoveField(d, k))
<1> DEFINE fm == ParseFrontmatter(d)
<1>1. CASE fm = None
  BY <1>1, NoneAssumption DEF RemoveField
<1>2. CASE fm \notin {None, Absent} /\ k \in DOMAIN fm
  <2>1. IsDocument(RebuildContent(Without(fm, k), GetBody(d)))
    BY <1>2, FrontmatterIs, WithFinite, GetBodyIsDocument, RebuiltIsDocument
  <2>2. RemoveField(d, k) = RebuildContent(Without(fm, k), GetBody(d))
    BY <1>2 DEF RemoveField
  <2> QED
    BY <2>1, <2>2
<1>3. CASE fm # None /\ ~(fm \notin {None, Absent} /\ k \in DOMAIN fm)
  <2>1. RemoveField(d, k) = d
    BY <1>3 DEF RemoveField
  <2> QED
    BY <2>1
<1> QED
  BY <1>1, <1>2, <1>3

\* A patch of a field, where its value allows it.
LEMMA PatchFrontmatterIsDocument ==
    ASSUME NEW d, IsDocument(d), NEW op, NEW key, NEW v
    PROVE  \/ PatchFrontmatter(d, op, key, v) = None
           \/ IsDocument(PatchFrontmatter(d, op, key, v))
<1> DEFINE end == FrontmatterBoundaries(d)
           ls  == SubSeq(d.lines, 2, end - 1)
           fm  == Mapping(ls)
           old == IF key \in DOMAIN fm THEN fm[key] ELSE [form |-> "scalar", value |-> <<>>]
           new == CASE op = "replace" -> Scalar(v)
                    [] op = "append"  -> [old EXCEPT !.value = @ \o <<v>>]
                    [] op = "prepend" -> [old EXCEPT !.value = <<v>> \o @]
           rest == Part(d, end + 1, Len(d.lines))
<1>1. /\ end - 1 \in Int /\ end - 1 <= Len(d.lines) /\ 2 \in Nat \ {0}
      /\ Len(d.lines) \in Int /\ Len(d.lines) <= Len(d.lines) /\ end + 1 \in Nat \ {0}
  BY LinesAre, IsSeqLen, BoundariesIn
<1>2. IsSeq(ls)
  BY <1>1, LinesAre, SubSeqIsSeq
<1>3. IsDocument(rest)
  BY <1>1, PartIsDocument
<1>4. PatchFrontmatter(d, op, key, v) = IF end = 0 \/ Yaml(ls) # "mapping" THEN None
                                        ELSE Join(Rendered(With(fm, key, new)), rest)
  BY Zenon DEF PatchFrontmatter
<1> HIDE DEF ls, new, rest
<1>5. IsDocument(Rendered(With(fm, key, new)))
  <2>1. IsFiniteSet(DOMAIN fm)
    BY <1>2, KeysFinite
  <2> HIDE DEF fm
  <2> QED
    BY <2>1, WithFinite, RenderedIsDocument
<1>6. IsDocument(Join(Rendered(With(fm, key, new)), rest))
  BY <1>3, <1>5, JoinIsDocument
<1> HIDE DEF end, fm
<1> QED
  BY <1>4, <1>6

\* Any patch.
LEMMA ApplyPatchIsDocument ==
    ASSUME NEW d, IsDocument(d), NEW p,
           p.type \in {"heading", "block", "frontmatter"},
           p.op \in {"append", "prepend", "replace"},
           p.type = "heading" => IsSeq(p.target), IsDocument(p.content)
    PROVE  ApplyPatch(d, p) = None \/ IsDocument(ApplyPatch(d, p))
<1>1. CASE p.type = "heading"
  <2> DEFINE r == ResolveHeading(d, p.target)
  <2>1. r \in Sections(d)
    BY <1>1, ResolveHeadingIn
  <2>2. ApplyPatch(d, p) = IF r = NotFound THEN None ELSE PatchHeading(d, p.op, r, p.content)
    BY <1>1 DEF ApplyPatch
  <2> HIDE DEF r
  <2> QED
    BY <2>1, <2>2, PatchHeadingIsDocument
<1>2. CASE p.type = "block"
  <2> DEFINE S == RefLines(d, p.target)
  <2>1. ApplyPatch(d, p) = IF S = {} THEN None ELSE PatchBlock(d, p.op, Min(S), p.content)
    BY <1>2 DEF ApplyPatch
  <2>2. S \subseteq 1..Len(d.lines)
    BY ProseIn DEF RefLines
  <2>3. Len(d.lines) \in Nat
    BY LinesAre, IsSeqLen
  <2> HIDE DEF S
  <2>4. S \in SUBSET Nat
    BY <2>2, <2>3
  <2>5. S # {} => Min(S) \in 1..Len(d.lines)
    BY <2>2, <2>4, MinIsLeast
  <2> QED
    BY <2>1, <2>5, PatchBlockIsDocument
<1>3. CASE p.type = "frontmatter"
  <2>1. ApplyPatch(d, p) = PatchFrontmatter(d, p.op, p.target, Head(p.content.lines).text)
    BY <1>3 DEF ApplyPatch
  <2> QED
    BY <2>1, PatchFrontmatterIsDocument
<1> QED
  BY <1>1, <1>2, <1>3

\* A text inserted behind the front matter.
LEMMA PrependedIsDocument ==
    ASSUME NEW d, IsDocument(d), NEW content, IsDocument(content)
    PROVE  IsDocument(PrependNote(d, content))
<1> DEFINE k == RawFrontmatter(d)
<1>1. Len(d.lines) \in Nat /\ k \in 0..Len(d.lines)
  BY LinesAre, IsSeqLen, BoundariesIn
<1>2. /\ k \in Int /\ k <= Len(d.lines) /\ 1 \in Nat \ {0} /\ k + 1 \in Nat \ {0}
      /\ Len(d.lines) \in Int /\ Len(d.lines) <= Len(d.lines)
  BY <1>1
<1>3. IsDocument(Part(d, 1, k)) /\ IsDocument(Part(d, k + 1, Len(d.lines)))
  BY <1>2, PartIsDocument
<1> QED
  BY <1>3, Join3IsDocument DEF PrependNote

\* What a client may change a note to is a document, or the call fails.
LEMMA ChangedIsDocument ==
    ASSUME NEW d, IsDocument(d), NEW r, WellTyped(r), Loading(r)
    PROVE  Changed(r, d) = None \/ IsDocument(Changed(r, d))
<1>1. CASE r.tool = "note_insert"
  <2>1. Changed(r, d) = PrependNote(d, r.content) /\ IsDocument(r.content)
    BY <1>1 DEF Changed, WellTyped, HasLines
  <2> QED
    BY <2>1, PrependedIsDocument
<1>2. CASE r.tool = "note_patch"
  <2>1. Changed(r, d) = ApplyPatch(d, r.patch)
    BY <1>2 DEF Changed
  <2>2. /\ r.patch.type \in {"heading", "block", "frontmatter"}
        /\ r.patch.op \in {"append", "prepend", "replace"}
        /\ r.patch.type = "heading" => IsSeq(r.patch.target)
        /\ IsDocument(r.patch.content)
    BY <1>2 DEF WellTyped, IsSeq, HasLines
  <2> QED
    BY <2>1, <2>2, ApplyPatchIsDocument
<1>3. CASE r.tool = "note_frontmatter_edit"
  <2>1. Changed(r, d) = IF r.action = "set" THEN SetField(d, r.key, r.value)
                        ELSE RemoveField(d, r.key)
    BY <1>3 DEF Changed
  <2> QED
    BY <2>1, SetFieldIsDocument, RemoveFieldIsDocument
<1> QED
  BY <1>1, <1>2, <1>3 DEF Loading

--------------------------------------------------------------------------------
(* What holds of the vault and of each call, after every step.                 *)

Edits == Editing \cup {"periodic_create"}
Changing == {"check", "load", "put", "reindex", "unlink", "unindex", "rename", "relink"}
Scanning == {"select", "stat", "read"}
Fields == {"at", "req", "path", "doc", "reply", "kept", "alone", "grown"}

\* The root is there, paths are sequences and files documents, finitely many.
Sound ==
    /\ setup \in DOMAIN Setups
    /\ <<>> \in dirs /\ IsFiniteSet(DOMAIN disk)
    /\ \A p \in DOMAIN disk \cup dirs : IsSeq(p)
    /\ \A p \in DOMAIN disk : IsDocument(disk[p])

\* Begin refuses the tools that the server does not offer; the steps that change
\* something belong to the tools that edit, those that scan to note_read_many.
Fits(s, k) ==
    k.at \notin {"idle", "done"} =>
        /\ k.req.tool \in Offered(Setups[s].tools)
        /\ WellTyped(k.req) /\ ~BadArguments(k.req)
        /\ k.at \in {"answer"} \cup Changing \cup Scanning
        /\ k.at \in Changing <=> k.req.tool \in Edits
        /\ k.at \in Scanning <=> k.req.tool = "note_read_many"
        /\ k.at = "load" => Loading(k.req)

\* What a step takes over from the ones before it.
Ready(k) ==
    /\ k.at = "put" => \/ k.req.tool = "note_write"
                       \/ k.req.tool = "note_insert" /\ k.req.position = "end"
                       \/ /\ Loading(k.req) \/ k.req.tool \in Creating
                          /\ IsSeq(k.path) /\ IsDocument(k.doc)
    /\ k.at \in {"rename", "read"} => IsSeq(k.path)

\* The account of note_read_many: what it has read and skipped and what is left
\* make up what was asked for, and what it has read fits into the budget.
Account(r, m) ==
    /\ DOMAIN m = {"todo", "rest", "notes", "skipped", "count", "bytes"}
    /\ IsSeq(m.todo) /\ IsSeq(m.rest) /\ IsSeq(m.notes) /\ IsSeq(m.skipped)
    /\ \A p \in Range(m.todo) : IsSeq(p)
    /\ m.count \in Nat /\ m.bytes \in Nat
    /\ m.bytes <= Least(r.max_bytes, MaxBytesCap)
    /\ m.bytes = Bytes(m.notes)
    /\ Len(m.skipped) = Least(m.count, MaxDetails)
    /\ r.paths # None => Len(m.notes) + m.count + Len(m.todo) + Len(m.rest) = Len(r.paths)

Balanced(r, m) ==
    /\ m.bytes <= Least(r.max_bytes, MaxBytesCap)
    /\ m.bytes = Bytes(m.notes)
    /\ Len(m.skipped) = Least(m.count, MaxDetails)
    /\ r.paths # None => Len(m.notes) + m.count = Len(r.paths)

Accounts(k) ==
    /\ k.at \in {"stat", "read"} => Account(k.req, k.doc)
    /\ k.at = "read" => k.doc.todo # <<>>
    /\ k.at = "done" /\ k.req.tool = "note_read_many" /\ k.reply.err = "none" =>
          Balanced(k.req, k.reply.body)

GoodCall(s, k) == DOMAIN k = Fields /\ Fits(s, k) /\ Ready(k) /\ Accounts(k)

Inv == /\ Sound
       /\ DOMAIN call = Callers
       /\ \A c \in Callers : GoodCall(setup, call[c])

--------------------------------------------------------------------------------
(* How a step's new call keeps the invariant.                                  *)

\* Only these fields count, not what others have done meanwhile.
LEMMA LikeGood ==
    ASSUME NEW s, NEW k, GoodCall(s, k), NEW n, DOMAIN n = DOMAIN k, n.at = k.at,
           n.req = k.req, n.path = k.path, n.doc = k.doc, n.reply = k.reply
    PROVE  GoodCall(s, n)
BY DEF GoodCall, Fits, Ready, Accounts

\* What others do meanwhile leaves a call good.
LEMMA DisturbedGood ==
    ASSUME NEW s, NEW k, GoodCall(s, k) PROVE GoodCall(s, Disturbed(k))
<1> DEFINE kept == Restrict(k.kept, {p \in DOMAIN k.kept : Same(p)})
           alone == k.alone /\ vault' = vault
           grown == /\ k.grown /\ DOMAIN disk \subseteq DOMAIN disk'
                    /\ dirs \subseteq dirs' /\ links \subseteq links'
           n == [k EXCEPT !.kept = kept, !.alone = alone, !.grown = grown]
<1>1. DOMAIN k = Fields
  BY DEF GoodCall
<1> HIDE DEF kept, alone, grown
<1>2. /\ DOMAIN n = DOMAIN k /\ n.at = k.at /\ n.req = k.req /\ n.path = k.path
      /\ n.doc = k.doc /\ n.reply = k.reply
  BY <1>1 DEF Fields
<1> HIDE DEF n
<1>3. GoodCall(s, n)
  BY <1>2, LikeGood
<1>4. Disturbed(k) = k \/ Disturbed(k) = n
  BY Zenon DEF Disturbed, n, kept, alone, grown
<1> QED
  BY <1>3, <1>4

\* A step that makes its own call good keeps the invariant.
LEMMA StepTo ==
    ASSUME Inv, NEW c \in Callers, NEW k, Becomes(c, k), setup' = setup, Sound',
           GoodCall(setup, k)
    PROVE  Inv'
<1>1. DOMAIN call' = Callers
  BY DEF Becomes
<1>2. ASSUME NEW x \in Callers PROVE GoodCall(setup', call'[x])
  <2>1. CASE x = c
    BY <2>1 DEF Becomes
  <2>2. CASE x # c
    <3>1. call'[x] = Disturbed(call[x])
      BY <2>2 DEF Becomes
    <3>2. GoodCall(setup, call[x])
      BY DEF Inv
    <3> QED
      BY <3>1, <3>2, DisturbedGood
  <2> QED
    BY <2>1, <2>2
<1> QED
  BY <1>1, <1>2 DEF Inv

\* The vault is sound while its files and directories stay.
LEMMA SoundKept ==
    ASSUME Sound, setup' = setup, disk' = disk, dirs' = dirs PROVE Sound'
BY DEF Sound

\* An answer to anything but note_read_many needs no account.
LEMMA ReplyKeeps ==
    ASSUME Inv, NEW c \in Callers, NEW r, Reply(c, r), setup' = setup, Sound',
           call[c].req.tool = "note_read_many" => r.err # "none"
    PROVE  Inv'
<1> DEFINE k == call[c]
           n == [k EXCEPT !.at = "done", !.reply = r]
<1>1. DOMAIN k = Fields
  BY DEF Inv, GoodCall
<1>2. DOMAIN n = Fields /\ n.at = "done" /\ n.reply = r /\ n.req = k.req
  BY <1>1 DEF Fields
<1>3. Becomes(c, n)
  BY Zenon DEF Reply
<1> HIDE DEF n
<1>4. GoodCall(setup, n)
  BY <1>2 DEF GoodCall, Fits, Ready, Accounts
<1> QED
  BY <1>3, <1>4, StepTo

\* A refusal keeps the invariant.
LEMMA FailKeeps ==
    ASSUME Inv, NEW c \in Callers, NEW why, Fail(c, why), why # "none", setup' = setup
    PROVE  Inv'
<1>1. Sound'
  BY SoundKept DEF Inv, Fail, vault
<1>2. Refusal(why).err = why
  BY DEF Refusal
<1> QED
  BY <1>1, <1>2, ReplyKeeps DEF Fail

\* A call that goes on, at another step.
LEMMA GoesOn ==
    ASSUME NEW s, NEW k, GoodCall(s, k), k.at \notin {"idle", "done"},
           NEW n, DOMAIN n = Fields, n.req = k.req, Ready(n), Accounts(n),
           n.at \in {"answer"} \cup Changing \cup Scanning,
           n.at \in Changing <=> k.at \in Changing, n.at \in Scanning <=> k.at \in Scanning,
           n.at # "load"
    PROVE  GoodCall(s, n)
<1>1. n.at \notin {"idle", "done"}
  BY DEF Changing, Scanning
<1> QED
  BY <1>1 DEF GoodCall, Fits

\* The nodes of the vault are its files and directories.
LEMMA WorldIs ==
    World.disk = disk /\ World.dirs = dirs /\ Tree(World).files = DOMAIN disk
    /\ Tree(World).dirs = dirs /\ Nodes(Tree(World)) = DOMAIN disk \cup dirs
BY DEF World, Tree, Nodes

\* Which are a tree.
LEMMA TreeIs == ASSUME Sound PROVE IsTree(Tree(World))
BY WorldIs DEF Sound, IsTree

\* What is read of the vault is a document.
LEMMA ReadIsDocument ==
    ASSUME Sound, NEW raw, IsSeq(raw), ReadFile(World, raw).err = "none"
    PROVE  IsDocument(ReadFile(World, raw).body)
<1> DEFINE r == Locate(World, raw)
<1>1. r.err = "none" => r.path \in DOMAIN disk \cup dirs
  BY TreeIs, ResolvedIsThere, WorldIs DEF Locate
<1>2. ReadFile(World, raw) = IF r.err # "none" THEN Refusal(r.err)
                             ELSE IF r.path \in dirs THEN Refusal("io") ELSE Answer(disk[r.path])
  BY WorldIs DEF ReadFile, ReadAt
<1> HIDE DEF r
<1>3. r.err = "none" /\ r.path \notin dirs
  BY <1>2 DEF Refusal
<1>4. ReadFile(World, raw).body = disk[r.path] /\ r.path \in DOMAIN disk
  BY <1>1, <1>2, <1>3 DEF Answer
<1> QED
  BY <1>4 DEF Sound

\* A call begins at the first step of its tool, or is refused.
LEMMA BeginKeeps ==
    ASSUME Inv, NEW c \in Callers, NEW r \in Setups[setup].requests[c], Begin(c, r)
    PROVE  Inv'
<1> DEFINE k == [Idle EXCEPT !.req = r, !.kept = disk]
           refused(why) == [k EXCEPT !.at = "done", !.reply = Refusal(why)]
           n == [k EXCEPT !.at = FirstStep(r)]
<1>1. setup' = setup /\ Sound'
  BY SoundKept DEF Begin, Inv, vault
<1>2. DOMAIN k = Fields /\ k.req = r
  BY DEF Idle, Fields
<1> HIDE DEF k
<1>3. ASSUME NEW why \in {"no_tool", "params"} PROVE GoodCall(setup, refused(why))
  <2> DEFINE m == refused(why)
  <2>1. DOMAIN m = Fields /\ m.at = "done" /\ m.reply = Refusal(why)
    BY <1>2 DEF Fields
  <2>2. Refusal(why).err # "none"
    BY DEF Refusal
  <2> HIDE DEF m
  <2>3. GoodCall(setup, m)
    BY <2>1, <2>2 DEF GoodCall, Fits, Ready, Accounts
  <2> QED
    BY <2>3 DEF m
<1>4. ASSUME r.tool \in Offered(Setups[setup].tools), ~BadArguments(r)
      PROVE  GoodCall(setup, n)
  <2>1. DOMAIN n = Fields /\ n.at = FirstStep(r) /\ n.req = r
    BY <1>2 DEF Fields
  <2> HIDE DEF n
  <2>2. WellTyped(r)
    BY SetupsAssumption DEF Inv, Sound
  <2>3. r.tool = "note_insert" => r.position \in {"beginning", "end"}
    BY <1>4 DEF BadArguments
  <2> DEFINE at == FirstStep(r)
  <2>4. CASE r.tool \in Creating \cup {"note_move"}
    <3>1. at = "check" /\ ~Loading(r)
      BY <2>4 DEF FirstStep, Loading, Creating
    <3> QED
      BY <1>4, <2>1, <2>2, <2>4, <3>1
      DEF GoodCall, Fits, Ready, Accounts, Changing, Scanning, Edits, Editing, Creating
  <2>5. CASE Loading(r)
    <3>1. at = "load" /\ r.tool \in {"note_patch", "note_frontmatter_edit", "note_insert"}
      BY <2>5 DEF FirstStep, Loading, Creating
    <3> QED
      BY <1>4, <2>1, <2>2, <2>5, <3>1
      DEF GoodCall, Fits, Ready, Accounts, Changing, Scanning, Edits, Editing
  <2>6. CASE r.tool = "note_delete"
    <3>1. at = "unlink"
      BY <2>6 DEF FirstStep, Loading, Creating
    <3> QED
      BY <1>4, <2>1, <2>2, <2>6, <3>1
      DEF GoodCall, Fits, Ready, Accounts, Changing, Scanning, Edits, Editing
  <2>7. CASE r.tool = "note_read_many"
    <3>1. at = "select"
      BY <2>7 DEF FirstStep, Loading, Creating
    <3> QED
      BY <1>4, <2>1, <2>2, <2>7, <3>1
      DEF GoodCall, Fits, Ready, Accounts, Changing, Scanning, Edits, Editing
  <2>8. CASE r.tool \in {"note_write", "note_insert"} /\ ~Loading(r)
    <3>1. at = "put" /\ (r.tool = "note_insert" => r.position = "end")
      BY <2>3, <2>8 DEF FirstStep, Loading, Creating
    <3> QED
      BY <1>4, <2>1, <2>2, <2>8, <3>1
      DEF GoodCall, Fits, Ready, Accounts, Changing, Scanning, Edits, Editing
  <2>9. CASE /\ r.tool \notin Creating \cup {"note_move", "note_delete", "note_read_many",
                                             "note_write", "note_insert"}
             /\ ~Loading(r)
    <3>1. at = "answer" /\ r.tool \notin Edits
      BY <2>9 DEF FirstStep, Loading, Creating, Edits, Editing
    <3> QED
      BY <1>4, <2>1, <2>2, <2>9, <3>1
      DEF GoodCall, Fits, Ready, Accounts, Changing, Scanning
  <2> QED
    BY <2>4, <2>5, <2>6, <2>7, <2>8, <2>9 DEF Loading
<1>5. Becomes(c, n) \/ Becomes(c, refused("no_tool")) \/ Becomes(c, refused("params"))
  BY Zenon DEF Begin, k
<1>6. Becomes(c, n) => \/ r.tool \in Offered(Setups[setup].tools) /\ ~BadArguments(r)
                       \/ Becomes(c, refused("no_tool")) \/ Becomes(c, refused("params"))
  BY Zenon DEF Begin, k
<1> HIDE DEF n, refused
<1> QED
  BY <1>1, <1>3, <1>4, <1>5, <1>6, StepTo

--------------------------------------------------------------------------------
(* The steps that change the vault.                                            *)

\* What a call's request is, at a step that belongs to an editing tool.
LEMMA AtChange ==
    ASSUME Inv, NEW c \in Callers, call[c].at \in Changing
    PROVE  /\ Sound /\ GoodCall(setup, call[c]) /\ DOMAIN call[c] = Fields
           /\ Req(c) = call[c].req /\ WellTyped(Req(c)) /\ ~BadArguments(Req(c))
           /\ Req(c).tool \in Edits /\ Req(c).tool \in Offered(Setups[setup].tools)
           /\ Req(c).tool # "note_read_many" /\ call[c].at \notin {"idle", "done"}
<1>1. Sound /\ GoodCall(setup, call[c]) /\ call[c].at \notin {"idle", "done"}
  BY DEF Inv, Changing
<1>2. Fits(setup, call[c]) /\ DOMAIN call[c] = Fields
  BY <1>1 DEF GoodCall
<1> QED
  BY <1>1, <1>2 DEF Fits, Req, Edits, Editing

\* A path is a sequence of names.
LEMMA PathIsSeq == ASSUME NEW p, IsPath(p) PROVE IsSeq(p)
BY SeqIsSeq DEF IsPath

\* The name of a periodic note is one name below its folder.
LEMMA NewPathIs ==
    ASSUME NEW r, WellTyped(r), r.tool \in Creating PROVE IsSeq(NewPath(r))
<1>1. CASE r.tool = "note_create"
  BY <1>1, PathIsSeq DEF NewPath, WellTyped, Editing
<1>2. CASE r.tool = "periodic_create"
  <2> DEFINE config == PeriodicConfig(r.period)
             name == FormatDate(config.format, r.day)
  <2>1. IsSeq(config.folder)
    BY <1>2, PathIsSeq DEF WellTyped, NamesADay
  <2>2. NewPath(r) = Append(config.folder, name)
    BY <1>2 DEF NewPath, PeriodicNotePath
  <2> HIDE DEF config, name
  <2> QED
    BY <2>1, <2>2, AppendIsSeq
<1> QED
  BY <1>1, <1>2 DEF Creating

\* The text of a new note is a document.
LEMMA NewNoteIs ==
    ASSUME Sound, NEW r, WellTyped(r), r.tool \in Creating, NewNote(r).err = "none"
    PROVE  IsDocument(NewNote(r).body)
<1>1. CASE r.tool = "note_create"
  <2>1. NewNote(r) = IF r.front = None THEN Refusal("front_matter")
                     ELSE Answer(RebuildContent(r.front, r.content))
    BY <1>1 DEF NewNote
  <2>2. r.front # None
    BY <2>1 DEF Refusal
  <2>3. IsFiniteSet(DOMAIN r.front) /\ IsDocument(r.content)
    BY <1>1, <2>2 DEF WellTyped, HasLines
  <2>4. IsDocument(RebuildContent(r.front, r.content))
    BY <2>3, RebuiltIsDocument
  <2> QED
    BY <2>1, <2>2, <2>4 DEF Answer
<1>2. CASE r.tool = "periodic_create"
  <2> DEFINE path == PeriodicConfig(r.period).template
  <2>1. NewNote(r) = IF r.content # None THEN Answer(r.content)
                     ELSE IF path \in DOMAIN disk THEN Answer(disk[path])
                     ELSE IF path \in dirs THEN Refusal("io") ELSE Answer(Empty)
    BY <1>2 DEF NewNote, Template
  <2>2. r.content = None \/ IsDocument(r.content)
    BY <1>2 DEF WellTyped
  <2> HIDE DEF path
  <2>3. path \in DOMAIN disk => IsDocument(disk[path])
    BY DEF Sound
  <2> QED
    BY <2>1, <2>2, <2>3, EmptyIsDocument DEF Answer, Refusal
<1> QED
  BY <1>1, <1>2 DEF Creating

\* Each step of a call that edits keeps the invariant.
LEMMA CheckNewKeeps == ASSUME Inv, NEW c \in Callers, CheckNew(c) PROVE Inv'
<1> DEFINE r == Req(c)
           d == NewNote(r)
           n == [call[c] EXCEPT !.at = "put", !.path = NewPath(r), !.doc = d.body]
<1>1. call[c].at = "check" /\ setup' = setup /\ r.tool \in Creating
  BY DEF CheckNew, At, Uses
<1>2. /\ Sound /\ GoodCall(setup, call[c]) /\ DOMAIN call[c] = Fields /\ r = call[c].req
      /\ WellTyped(r) /\ call[c].at \notin {"idle", "done"}
  BY <1>1, AtChange DEF Changing
<1>3. \/ Fail(c, "io") \/ Fail(c, "exists")
      \/ d.err # "none" /\ Fail(c, d.err)
      \/ d.err = "none" /\ UNCHANGED vault /\ Becomes(c, n)
  BY Zenon DEF CheckNew
<1>4. ASSUME d.err = "none", UNCHANGED vault, Becomes(c, n) PROVE Inv'
  <2>1. IsSeq(NewPath(r)) /\ IsDocument(d.body)
    BY <1>1, <1>2, <1>4, NewPathIs, NewNoteIs
  <2> DEFINE p == NewPath(r)
             b == d.body
  <2> HIDE DEF d, p, b
  <2>2. DOMAIN n = Fields /\ n.at = "put" /\ n.path = p /\ n.doc = b /\ n.req = r
    BY <1>2 DEF Fields, p, b
  <2>3. Becomes(c, n)
    BY <1>4
  <2> HIDE DEF n, r
  <2>4. Ready(n) /\ Accounts(n)
    BY <1>1, <2>1, <2>2 DEF Ready, Accounts, p, b
  <2>5. GoodCall(setup, n)
    BY <1>1, <1>2, <2>2, <2>4, GoesOn DEF Changing, Scanning
  <2>6. Sound'
    BY <1>1, <1>2, <1>4, SoundKept DEF vault
  <2> QED
    BY <1>1, <2>3, <2>5, <2>6, StepTo
<1> HIDE DEF d, n
<1> QED
  BY <1>1, <1>3, <1>4, FailKeeps

LEMMA LoadKeeps == ASSUME Inv, NEW c \in Callers, Load(c) PROVE Inv'
<1> DEFINE r == Req(c)
           old == ReadFile(World, r.path)
           new == Changed(r, old.body)
           n == [call[c] EXCEPT !.at = "put", !.path = r.path, !.doc = new]
<1>1. call[c].at = "load" /\ setup' = setup
  BY DEF Load, At
<1>2. /\ Sound /\ GoodCall(setup, call[c]) /\ DOMAIN call[c] = Fields /\ r = call[c].req
      /\ WellTyped(r) /\ call[c].at \notin {"idle", "done"}
  BY <1>1, AtChange DEF Changing
<1>3. Loading(r)
  BY <1>1, <1>2 DEF GoodCall, Fits
<1>4. IsSeq(r.path)
  BY <1>2, <1>3, PathIsSeq DEF Loading, WellTyped, Editing
<1>5. \/ old.err # "none" /\ Fail(c, old.err)
      \/ Fail(c, "target")
      \/ old.err = "none" /\ new # None /\ UNCHANGED vault /\ Becomes(c, n)
  BY Zenon DEF Load, LoadFrom, Rewrite
<1>6. ASSUME old.err = "none", new # None, UNCHANGED vault, Becomes(c, n) PROVE Inv'
  <2>1. IsDocument(old.body)
    BY <1>2, <1>4, <1>6, ReadIsDocument
  <2> HIDE DEF old
  <2>2. IsDocument(new)
    BY <1>2, <1>3, <1>6, <2>1, ChangedIsDocument
  <2> HIDE DEF new, r
  <2>3. DOMAIN n = Fields /\ n.at = "put" /\ n.path = r.path /\ n.doc = new /\ n.req = r
    BY <1>2 DEF Fields
  <2>4. Becomes(c, n)
    BY <1>6
  <2> HIDE DEF n
  <2>5. Ready(n) /\ Accounts(n)
    BY <1>3, <1>4, <2>2, <2>3 DEF Ready, Accounts
  <2>6. GoodCall(setup, n)
    BY <1>1, <1>2, <2>3, <2>5, GoesOn DEF Changing, Scanning
  <2>7. Sound'
    BY <1>1, <1>2, <1>6, SoundKept DEF vault
  <2> QED
    BY <1>1, <2>4, <2>6, <2>7, StepTo
<1> HIDE DEF old, new, n
<1> QED
  BY <1>1, <1>5, <1>6, FailKeeps

\* What a write puts, and where.
LEMMA WrittenIs ==
    ASSUME Inv, NEW c \in Callers, call[c].at = "put", NEW p
    PROVE  IsDocument(Written(c, p)) /\ IsSeq(Target(c))
<1> DEFINE r == Req(c)
           k == call[c]
           old == IF p \in DOMAIN disk THEN disk[p] ELSE Empty
<1>1. /\ Sound /\ GoodCall(setup, k) /\ r = k.req /\ WellTyped(r) /\ r.tool \in Edits
  BY AtChange DEF Changing
<1>2. \/ r.tool = "note_write"
      \/ r.tool = "note_insert" /\ r.position = "end"
      \/ (Loading(r) \/ r.tool \in Creating) /\ IsSeq(k.path) /\ IsDocument(k.doc)
  BY <1>1 DEF GoodCall, Ready
<1>3. r.tool \in {"note_write", "note_insert"} => IsSeq(r.path) /\ IsDocument(r.content)
  BY <1>1, PathIsSeq DEF WellTyped, HasLines, Editing
<1>4. IsDocument(old)
  BY <1>1, EmptyIsDocument DEF Sound
<1> HIDE DEF old
<1>5. IsDocument(Written(c, p))
  <2>1. Written(c, p) = CASE r.tool = "note_write" -> r.content
                          [] r.tool = "note_insert" /\ r.position = "end" -> Join(old, r.content)
                          [] OTHER -> k.doc
    BY DEF Written, Uses, old
  <2> HIDE DEF r, k
  <2>2. r.tool = "note_insert" => IsDocument(Join(old, r.content))
    BY <1>3, <1>4, JoinIsDocument
  <2> QED
    BY <1>2, <1>3, <2>1, <2>2
<1>6. IsSeq(Target(c))
  <2>1. Target(c) = IF Loading(r) \/ r.tool \in Creating THEN k.path ELSE r.path
    BY DEF Target, Uses
  <2> HIDE DEF k
  <2>2. CASE r.tool \in {"note_write", "note_insert"} /\ ~Loading(r)
    BY <1>3, <2>1, <2>2 DEF Creating
  <2>3. CASE Loading(r) \/ r.tool \in Creating
    BY <1>2, <2>1, <2>3 DEF Loading, Creating
  <2> QED
    BY <1>2, <2>2, <2>3
<1> QED
  BY <1>5, <1>6

\* The directories above a path have paths.
LEMMA ParentsAreSeqs == ASSUME NEW p, IsSeq(p) PROVE \A q \in Parents(p) : IsSeq(q)
<1>1. Len(p) \in Nat
  BY IsSeqLen
<1>2. ASSUME NEW k \in 0..Len(p)-1 PROVE IsSeq(SubSeq(p, 1, k))
  <2>1. k \in Int /\ k <= Len(p) /\ 1 \in Nat \ {0}
    BY <1>1
  <2> QED
    BY <2>1, SubSeqIsSeq
<1> QED
  BY <1>2 DEF Parents

\* A file written or removed, of which the directories are there.
LEMMA SoundAfterWrite ==
    ASSUME Sound, setup' = setup, NEW p, IsSeq(p), NEW d, IsDocument(d),
           disk' = With(disk, p, d), dirs' = dirs \cup Parents(p) \/ dirs' = dirs
    PROVE  Sound'
<1>1. DOMAIN disk' = DOMAIN disk \cup {p}
  BY DEF With
<1>2. \A q \in DOMAIN disk' : IF q = p THEN disk'[q] = d ELSE disk'[q] = disk[q] /\ q \in DOMAIN disk
  BY DEF With
<1>3. IsFiniteSet(DOMAIN disk')
  BY <1>1, FS_AddElement DEF Sound
<1>4. \A q \in DOMAIN disk' \cup dirs' : IsSeq(q)
  BY <1>1, ParentsAreSeqs DEF Sound
<1> QED
  BY <1>2, <1>3, <1>4 DEF Sound

\* A vault without some of its files is sound.
LEMMA SoundAfterRemoval ==
    ASSUME Sound, setup' = setup, NEW S, disk' = Restrict(disk, DOMAIN disk \ S),
           dirs' \subseteq dirs, <<>> \in dirs'
    PROVE  Sound'
<1>1. DOMAIN disk' = DOMAIN disk \ S /\ \A q \in DOMAIN disk' : disk'[q] = disk[q]
  BY DEF Restrict
<1>2. IsFiniteSet(DOMAIN disk')
  BY <1>1, FS_Subset DEF Sound
<1> QED
  BY <1>1, <1>2 DEF Sound

LEMMA PutKeeps == ASSUME Inv, NEW c \in Callers, Put(c) PROVE Inv'
<1> DEFINE r == ResolveForWrite(Tree(World), Target(c))
           d == Written(c, r.path)
           n == [call[c] EXCEPT !.at = "reindex", !.path = r.path]
<1>1. call[c].at = "put" /\ setup' = setup
  BY DEF Put, At
<1>2. /\ Sound /\ GoodCall(setup, call[c]) /\ DOMAIN call[c] = Fields
      /\ call[c].at \notin {"idle", "done"}
  BY <1>1, AtChange DEF Changing
<1>3. \/ r.err # "none" /\ Fail(c, r.err)
      \/ Fail(c, "io")
      \/ /\ r.err = "none" /\ disk' = With(disk, r.path, d) /\ dirs' = dirs \cup Parents(r.path)
         /\ Becomes(c, n)
  BY Zenon DEF Put, PutAt
<1>4. ASSUME r.err = "none", disk' = With(disk, r.path, d), dirs' = dirs \cup Parents(r.path),
             Becomes(c, n)
      PROVE  Inv'
  <2>1. IsDocument(d) /\ IsSeq(r.path)
    BY <1>1, <1>2, <1>4, WrittenIs, TreeIs, ForWriteIsPath
  <2> HIDE DEF r, d
  <2>2. Sound'
    BY <1>1, <1>2, <1>4, <2>1, SoundAfterWrite
  <2>3. DOMAIN n = Fields /\ n.at = "reindex" /\ n.req = call[c].req
    BY <1>2 DEF Fields
  <2>4. Becomes(c, n)
    BY <1>4
  <2> HIDE DEF n
  <2>5. GoodCall(setup, n)
    BY <1>1, <1>2, <2>3, GoesOn DEF Ready, Accounts, Changing, Scanning
  <2> QED
    BY <1>1, <2>2, <2>4, <2>5, StepTo
<1> HIDE DEF r, d, n
<1> QED
  BY <1>1, <1>3, <1>4, FailKeeps

\* The index is nobody's concern here.
LEMMA IndexNoteKeeps ==
    ASSUME Inv, NEW c \in Callers, call[c].at \in Changing, NEW gone, NEW p,
           IndexNote(c, gone, p), setup' = setup, disk' = disk, dirs' = dirs
    PROVE  Inv'
<1>1. Sound /\ call[c].req.tool # "note_read_many"
  BY AtChange DEF Req
<1>2. Sound'
  BY <1>1, SoundKept
<1>3. \E r : Reply(c, r)
  BY Zenon DEF IndexNote, Done
<1> QED
  BY <1>1, <1>2, <1>3, ReplyKeeps

\* An answer that all is done keeps the invariant.
LEMMA DoneKeeps ==
    ASSUME Inv, NEW c \in Callers, call[c].at \in Changing, Done(c), setup' = setup, Sound'
    PROVE  Inv'
<1>1. call[c].req.tool # "note_read_many"
  BY AtChange DEF Req
<1> QED
  BY <1>1, ReplyKeeps DEF Done

LEMMA ReindexKeeps == ASSUME Inv, NEW c \in Callers, Reindex(c) PROVE Inv'
<1> DEFINE r == Locate(World, call[c].path)
<1>1. call[c].at \in Changing /\ setup' = setup
  BY DEF Reindex, At, Changing
<1>2. \/ r.err # "none" /\ Fail(c, r.err)
      \/ disk' = disk /\ dirs' = dirs /\ Done(c)
      \/ disk' = disk /\ dirs' = dirs /\ IndexNote(c, {r.path}, r.path)
  BY Zenon DEF Reindex, ReindexAt
<1> HIDE DEF r
<1>3. disk' = disk /\ dirs' = dirs => Sound'
  BY <1>1, SoundKept DEF Inv
<1> QED
  BY <1>1, <1>2, <1>3, FailKeeps, DoneKeeps, IndexNoteKeeps

LEMMA UnlinkKeeps == ASSUME Inv, NEW c \in Callers, Unlink(c) PROVE Inv'
<1> DEFINE r == Locate(World, Req(c).path)
           n == [call[c] EXCEPT !.at = "unindex", !.path = r.path]
<1>1. call[c].at = "unlink" /\ setup' = setup
  BY DEF Unlink, At
<1>2. /\ Sound /\ GoodCall(setup, call[c]) /\ DOMAIN call[c] = Fields
      /\ call[c].at \notin {"idle", "done"}
  BY <1>1, AtChange DEF Changing
<1>3. \/ r.err # "none" /\ Fail(c, r.err)
      \/ Fail(c, "io")
      \/ /\ ~(r.path \in dirs /\ r.path = <<>>)
         /\ disk' = Restrict(disk, DOMAIN disk \ {r.path}) /\ dirs' = dirs \ {r.path}
         /\ Becomes(c, n)
  BY Zenon DEF Unlink, UnlinkAt
<1>4. ASSUME ~(r.path \in dirs /\ r.path = <<>>),
             disk' = Restrict(disk, DOMAIN disk \ {r.path}), dirs' = dirs \ {r.path},
             Becomes(c, n)
      PROVE  Inv'
  <2> HIDE DEF r
  <2>1. dirs' \subseteq dirs /\ <<>> \in dirs'
    BY <1>2, <1>4 DEF Sound
  <2>2. Sound'
    BY <1>1, <1>2, <1>4, <2>1, SoundAfterRemoval
  <2>3. DOMAIN n = Fields /\ n.at = "unindex" /\ n.req = call[c].req
    BY <1>2 DEF Fields
  <2>4. Becomes(c, n)
    BY <1>4
  <2> HIDE DEF n
  <2>5. GoodCall(setup, n)
    BY <1>1, <1>2, <2>3, GoesOn DEF Ready, Accounts, Changing, Scanning
  <2> QED
    BY <1>1, <2>2, <2>4, <2>5, StepTo
<1> HIDE DEF r, n
<1> QED
  BY <1>1, <1>3, <1>4, FailKeeps

LEMMA UnindexKeeps == ASSUME Inv, NEW c \in Callers, Unindex(c) PROVE Inv'
<1>1. call[c].at \in Changing /\ setup' = setup /\ disk' = disk /\ dirs' = dirs /\ Done(c)
  BY DEF Unindex, At, Changing
<1>2. Sound'
  BY <1>1, SoundKept DEF Inv
<1> QED
  BY <1>1, <1>2, DoneKeeps

LEMMA CheckMoveKeeps == ASSUME Inv, NEW c \in Callers, CheckMove(c) PROVE Inv'
<1> DEFINE from == Locate(World, Req(c).path)
           to == ResolveForWrite(Tree(World), Req(c).to)
           n == [call[c] EXCEPT !.at = "rename", !.doc = from.path, !.path = to.path]
<1>1. call[c].at = "check" /\ setup' = setup /\ Req(c).tool = "note_move"
  BY DEF CheckMove, At, Uses
<1>2. /\ Sound /\ GoodCall(setup, call[c]) /\ DOMAIN call[c] = Fields /\ WellTyped(Req(c))
      /\ call[c].at \notin {"idle", "done"}
  BY <1>1, AtChange DEF Changing
<1>3. \/ from.err # "none" /\ Fail(c, from.err)
      \/ to.err # "none" /\ Fail(c, to.err)
      \/ Fail(c, "exists")
      \/ to.err = "none" /\ UNCHANGED vault /\ Becomes(c, n)
  BY Zenon DEF CheckMove, CheckMoveAt
<1>4. ASSUME to.err = "none", UNCHANGED vault, Becomes(c, n) PROVE Inv'
  <2>1. IsSeq(Req(c).to)
    BY <1>1, <1>2, PathIsSeq DEF WellTyped
  <2>2. IsSeq(to.path)
    BY <1>2, <1>4, <2>1, TreeIs, ForWriteIsPath
  <2> HIDE DEF from, to
  <2>3. DOMAIN n = Fields /\ n.at = "rename" /\ n.path = to.path /\ n.req = call[c].req
    BY <1>2 DEF Fields
  <2>4. Becomes(c, n)
    BY <1>4
  <2> HIDE DEF n
  <2>5. Ready(n) /\ Accounts(n)
    BY <2>2, <2>3 DEF Ready, Accounts
  <2>6. GoodCall(setup, n)
    BY <1>1, <1>2, <2>3, <2>5, GoesOn DEF Changing, Scanning
  <2>7. Sound'
    BY <1>1, <1>2, <1>4, SoundKept DEF vault
  <2> QED
    BY <1>1, <2>4, <2>6, <2>7, StepTo
<1> HIDE DEF from, to, n
<1> QED
  BY <1>1, <1>3, <1>4, FailKeeps

LEMMA RenameKeeps == ASSUME Inv, NEW c \in Callers, Rename(c) PROVE Inv'
<1> DEFINE from == From(c)
           to == call[c].path
           tree == {from} \cup Within(from)
           moved(p) == to \o SubSeq(p, Len(from) + 1, Len(p))
           files == DOMAIN disk \cap tree
           n == [call[c] EXCEPT !.at = "relink"]
<1>1. call[c].at = "rename" /\ setup' = setup
  BY DEF Rename, At
<1>2. /\ Sound /\ GoodCall(setup, call[c]) /\ DOMAIN call[c] = Fields
      /\ call[c].at \notin {"idle", "done"} /\ call[c].req.tool # "note_read_many"
  BY <1>1, AtChange DEF Changing, Req
<1>3. IsSeq(to)
  BY <1>1, <1>2 DEF GoodCall, Ready
<1>4. \/ Fail(c, "io")
      \/ disk' = disk /\ dirs' = dirs \cup Parents(to) /\ Reply(c, Refusal("io"))
      \/ /\ ~RenameFails(from, to)
         /\ disk' = [q \in {moved(p) : p \in files} \cup (DOMAIN disk \ tree) |->
                        IF \E p \in files : moved(p) = q
                        THEN disk[CHOOSE p \in files : moved(p) = q] ELSE disk[q]]
         /\ dirs' = (dirs \ tree) \cup Parents(to) \cup {moved(p) : p \in dirs \cap tree}
         /\ Becomes(c, n)
  BY Zenon DEF Rename
<1>5. ASSUME disk' = disk, dirs' = dirs \cup Parents(to), Reply(c, Refusal("io")) PROVE Inv'
  <2> HIDE DEF to
  <2>1. Sound'
    BY <1>1, <1>2, <1>3, <1>5, ParentsAreSeqs DEF Sound
  <2> QED
    BY <1>1, <1>2, <1>5, <2>1, ReplyKeeps
<1>6. ASSUME ~RenameFails(from, to),
             disk' = [q \in {moved(p) : p \in files} \cup (DOMAIN disk \ tree) |->
                        IF \E p \in files : moved(p) = q
                        THEN disk[CHOOSE p \in files : moved(p) = q] ELSE disk[q]],
             dirs' = (dirs \ tree) \cup Parents(to) \cup {moved(p) : p \in dirs \cap tree},
             Becomes(c, n)
      PROVE  Inv'
  <2>1. from \in DOMAIN disk \cup dirs /\ ~(from \in dirs /\ from = <<>>)
    BY <1>6, WorldIs DEF RenameFails
  <2> HIDE DEF from, to
  <2>2. IsSeq(from) /\ from # <<>>
    BY <1>2, <2>1 DEF Sound
  <2>3. Within(from) \subseteq DOMAIN disk \cup dirs /\ <<>> \notin Within(from)
    BY <2>2, WorldIs, RootIsBelowNone DEF Within
  <2>4. ASSUME NEW p \in DOMAIN disk \cup dirs PROVE IsSeq(moved(p))
    <3>1. IsSeq(p)
      BY <1>2 DEF Sound
    <3>2. Len(from) + 1 \in Nat \ {0} /\ Len(p) \in Int /\ Len(p) <= Len(p)
      BY <2>2, <3>1, IsSeqLen
    <3>3. IsSeq(SubSeq(p, Len(from) + 1, Len(p)))
      BY <3>1, <3>2, SubSeqIsSeq
    <3> QED
      BY <1>3, <3>3, ConcatIsSeq
  <2> DEFINE images == {moved(p) : p \in files}
             f == [p \in files |-> moved(p)]
  <2>5. files \subseteq DOMAIN disk
    OBVIOUS
  <2>6. <<>> \notin tree
    BY <2>2, <2>3
  <2> HIDE DEF tree, moved
  <2>7. IsFiniteSet(files)
    BY <1>2, <2>5, FS_Subset DEF Sound
  <2>8. IsFiniteSet(images)
    <3>1. f \in Surjection(files, images)
      BY Zenon DEF Surjection
    <3> HIDE DEF f, images, files
    <3> QED
      BY <2>7, <3>1, FS_Surjection
  <2>9. IsFiniteSet(DOMAIN disk \ tree)
    BY <1>2, FS_Subset DEF Sound
  <2>10. DOMAIN disk' = images \cup (DOMAIN disk \ tree)
    BY <1>6
  <2>11. IsFiniteSet(DOMAIN disk')
    BY <2>8, <2>9, <2>10, FS_Union
  <2>12. \A q \in DOMAIN disk' \cup dirs' : IsSeq(q)
    <3>1. \A q \in images : IsSeq(q)
      BY <2>4, <2>5
    <3>2. \A q \in {moved(p) : p \in dirs \cap tree} : IsSeq(q)
      BY <2>4
    <3>3. \A q \in Parents(to) : IsSeq(q)
      BY <1>3, ParentsAreSeqs
    <3>4. \A q \in DOMAIN disk \cup dirs : IsSeq(q)
      BY <1>2 DEF Sound
    <3> HIDE DEF images
    <3> QED
      BY <1>6, <2>10, <3>1, <3>2, <3>3, <3>4
  <2>13. ASSUME NEW q \in DOMAIN disk' PROVE IsDocument(disk'[q])
    <3> DEFINE old == CHOOSE p \in files : moved(p) = q
    <3>1. CASE \E p \in files : moved(p) = q
      <4>1. old \in files
        BY <3>1, Zenon
      <4> HIDE DEF old
      <4>2. disk'[q] = disk[CHOOSE p \in files : moved(p) = q]
        BY <1>6, <2>10, <3>1
      <4>3. disk'[q] = disk[old]
        BY <4>2 DEF old
      <4> QED
        BY <1>2, <2>5, <4>1, <4>3 DEF Sound
    <3>2. CASE ~\E p \in files : moved(p) = q
      <4>1. disk'[q] = disk[q] /\ q \in DOMAIN disk
        BY <1>6, <2>10, <3>2
      <4> QED
        BY <1>2, <4>1 DEF Sound
    <3> QED
      BY <3>1, <3>2
  <2>14. <<>> \in dirs'
    BY <1>2, <1>6, <2>6 DEF Sound
  <2>15. Sound'
    BY <1>1, <1>2, <2>11, <2>12, <2>13, <2>14 DEF Sound
  <2>16. DOMAIN n = Fields /\ n.at = "relink" /\ n.req = call[c].req
    BY <1>2 DEF Fields
  <2>17. Becomes(c, n)
    BY <1>6
  <2> HIDE DEF n
  <2>18. GoodCall(setup, n)
    BY <1>1, <1>2, <2>16, GoesOn DEF Ready, Accounts, Changing, Scanning
  <2> QED
    BY <1>1, <2>15, <2>17, <2>18, StepTo
<1>7. ASSUME Fail(c, "io") PROVE Inv'
  BY <1>1, <1>7, FailKeeps
<1> HIDE DEF from, to, tree, moved, files, n
<1> QED
  BY <1>4, <1>5, <1>6, <1>7, Zenon

LEMMA RelinkKeeps == ASSUME Inv, NEW c \in Callers, Relink(c) PROVE Inv'
<1>1. call[c].at \in Changing /\ setup' = setup /\ disk' = disk /\ dirs' = dirs
  BY DEF Relink, At, Changing
<1>2. Sound'
  BY <1>1, SoundKept DEF Inv
<1>3. Done(c) \/ IndexNote(c, {From(c)}, call[c].path)
  BY Zenon DEF Relink
<1> QED
  BY <1>1, <1>2, <1>3, DoneKeeps, IndexNoteKeeps

--------------------------------------------------------------------------------
(* note_read_many.                                                             *)

\* What a call's request is, while it scans.
LEMMA AtScan ==
    ASSUME Inv, NEW c \in Callers, call[c].at \in Scanning
    PROVE  /\ Sound /\ GoodCall(setup, call[c]) /\ DOMAIN call[c] = Fields
           /\ Req(c) = call[c].req /\ Req(c).tool = "note_read_many"
           /\ Req(c).max_files \in Nat /\ Req(c).max_bytes \in Nat
           /\ Req(c).paths # None => IsSeq(Req(c).paths) /\ \A p \in Range(Req(c).paths) : IsSeq(p)
           /\ call[c].at \notin {"idle", "done"}
<1>1. Sound /\ GoodCall(setup, call[c]) /\ call[c].at \notin {"idle", "done"}
  BY DEF Inv, Scanning
<1>2. Fits(setup, call[c]) /\ DOMAIN call[c] = Fields
  BY <1>1 DEF GoodCall
<1>3. WellTyped(call[c].req) /\ call[c].req.tool = "note_read_many"
  BY <1>1, <1>2 DEF Fits
<1> DEFINE r == call[c].req
<1>4. /\ r.max_files \in Nat /\ r.max_bytes \in Nat
      /\ r.paths # None => IsSeq(r.paths) /\ \A p \in Range(r.paths) : IsPath(p)
  BY <1>3 DEF WellTyped, IsSeq
<1>5. r.paths # None => \A p \in Range(r.paths) : IsSeq(p)
  BY <1>4, PathIsSeq
<1> QED
  BY <1>1, <1>2, <1>3, <1>4, <1>5 DEF Req

\* The caps of note_read_many are positive.
LEMMA CapsAre ==
    MaxFilesCap \in Nat \ {0} /\ MaxBytesCap \in Nat \ {0} /\ MaxDetails \in Nat \ {0}
BY CapsAssumption

\* A list that is capped has no more than the cap.
LEMMA CappedIs ==
    ASSUME NEW s, IsSeq(s)
    PROVE  IsSeq(Capped(s)) /\ Len(Capped(s)) = Least(Len(s), MaxDetails)
<1>1. Len(s) \in Nat
  BY IsSeqLen
<1>2. /\ Least(Len(s), MaxDetails) \in Nat /\ Least(Len(s), MaxDetails) <= Len(s)
      /\ 1 \in Nat \ {0}
  BY <1>1, CapsAre DEF Least
<1> DEFINE n == Least(Len(s), MaxDetails)
<1> HIDE DEF n
<1>3. IsSeq(SubSeq(s, 1, n)) /\ Len(SubSeq(s, 1, n)) = IF 1 <= n THEN n - 1 + 1 ELSE 0
  BY <1>2, SubSeqIsSeq DEF n
<1> QED
  BY <1>2, <1>3 DEF Capped, n

\* Head and tail of a sequence are of its elements.
LEMMA TailIn ==
    ASSUME NEW s, IsSeq(s), s # <<>>
    PROVE  Range(Tail(s)) \subseteq Range(s) /\ Head(s) \in Range(s)
<1>1. s \in Seq(Range(s))
  BY DEF IsSeq
<1>2. Tail(s) \in Seq(Range(s)) /\ Head(s) \in Range(s)
  BY <1>1
<1>3. \A i \in DOMAIN Tail(s) : Tail(s)[i] \in Range(s)
  BY <1>2
<1> QED
  BY <1>2, <1>3 DEF Range

\* Going on with the next candidate keeps the invariant.
LEMMA NextKeeps ==
    ASSUME Inv, NEW c \in Callers, call[c].at \in {"stat", "read"}, setup' = setup,
           NEW m, NextCandidate(c, m), Account(call[c].req, m)
    PROVE  Inv'
<1> DEFINE n == [call[c] EXCEPT !.at = "stat", !.doc = m]
<1>1. /\ Sound /\ GoodCall(setup, call[c]) /\ DOMAIN call[c] = Fields
      /\ call[c].at \notin {"idle", "done"}
  BY AtScan DEF Scanning
<1>2. DOMAIN n = Fields /\ n.at = "stat" /\ n.doc = m /\ n.req = call[c].req
  BY <1>1 DEF Fields
<1>3. UNCHANGED vault /\ Becomes(c, n)
  BY DEF NextCandidate
<1> HIDE DEF n
<1>4. GoodCall(setup, n)
  BY <1>1, <1>2, GoesOn DEF Ready, Accounts, Changing, Scanning
<1>5. Sound'
  BY <1>1, <1>3, SoundKept DEF vault
<1> QED
  BY <1>3, <1>4, <1>5, StepTo

\* A candidate that is left out is counted, and listed if there is room.
LEMMA SkipKeeps ==
    ASSUME NEW r, NEW m, Account(r, m), m.todo # <<>>, NEW p, NEW why
    PROVE  Account(r, Skip(m, p, why))
<1> DEFINE todo == Tail(m.todo)
           count == m.count + 1
           skipped == Capped(Append(m.skipped, <<p, why>>))
           n == [m EXCEPT !.todo = todo, !.count = count, !.skipped = skipped]
<1>1. /\ IsSeq(todo) /\ Len(todo) = Len(m.todo) - 1 /\ Range(todo) \subseteq Range(m.todo)
      /\ Len(m.todo) \in Nat /\ Len(m.rest) \in Nat /\ Len(m.notes) \in Nat
  BY TailIsSeq, TailIn, IsSeqLen DEF Account
<1>2. IsSeq(skipped) /\ Len(skipped) = Least(count, MaxDetails) /\ count \in Nat
  <2>1. /\ IsSeq(Append(m.skipped, <<p, why>>))
        /\ Len(Append(m.skipped, <<p, why>>)) = Least(m.count, MaxDetails) + 1
    BY AppendIsSeq DEF Account
  <2>2. Least(Least(m.count, MaxDetails) + 1, MaxDetails) = Least(m.count + 1, MaxDetails)
    BY CapsAre DEF Least, Account
  <2> DEFINE s == Append(m.skipped, <<p, why>>)
  <2> HIDE DEF s
  <2>3. IsSeq(Capped(s)) /\ Len(Capped(s)) = Least(Len(s), MaxDetails)
    BY <2>1, CappedIs DEF s
  <2>4. Len(s) = Least(m.count, MaxDetails) + 1 /\ skipped = Capped(s)
    BY <2>1 DEF s
  <2>5. count \in Nat
    BY DEF Account
  <2> HIDE DEF skipped
  <2> QED
    BY <2>2, <2>3, <2>4, <2>5
<1> HIDE DEF todo, count, skipped
<1>3. /\ DOMAIN n = DOMAIN m /\ n.todo = todo /\ n.count = count /\ n.skipped = skipped
      /\ n.rest = m.rest /\ n.notes = m.notes /\ n.bytes = m.bytes
  BY DEF Account
<1> HIDE DEF n
<1>4. Skip(m, p, why) = n
  BY Zenon DEF Skip, n, todo, count, skipped
<1>5. Len(m.notes) + count + Len(todo) + Len(m.rest)
      = Len(m.notes) + m.count + Len(m.todo) + Len(m.rest)
  BY <1>1 DEF Account, count
<1>6. Account(r, n)
  BY <1>1, <1>2, <1>3, <1>5 DEF Account
<1> QED
  BY <1>4, <1>6

\* One that is read is among the notes, with its bytes, which fit.
LEMMA ReadKeeps ==
    ASSUME NEW r, r.max_bytes \in Nat, NEW m, Account(r, m), m.todo # <<>>, NEW p,
           NEW d, IsDocument(d), ~(Size(d) > Least(r.max_bytes, MaxBytesCap) - m.bytes),
           NEW n, n = [m EXCEPT !.todo = Tail(@), !.bytes = @ + Size(d), !.notes = Append(@, <<p, d>>)]
    PROVE  Account(r, n)
<1> DEFINE todo == Tail(m.todo)
           bytes == m.bytes + Size(d)
           notes == Append(m.notes, <<p, d>>)
           new == [m EXCEPT !.todo = todo, !.bytes = bytes, !.notes = notes]
<1>1. /\ IsSeq(todo) /\ Len(todo) = Len(m.todo) - 1 /\ Range(todo) \subseteq Range(m.todo)
      /\ Len(m.todo) \in Nat /\ Len(m.rest) \in Nat /\ Len(m.notes) \in Nat
  BY TailIsSeq, TailIn, IsSeqLen DEF Account
<1>2. /\ IsSeq(notes) /\ Len(notes) = Len(m.notes) + 1
      /\ Bytes(notes) = Bytes(m.notes) + Size(d)
  BY AppendIsSeq, BytesOfMore DEF Account
<1>3. Size(d) \in Nat
  BY LinesAre, IsSeqLen DEF Size
<1>4. /\ bytes \in Nat /\ bytes <= Least(r.max_bytes, MaxBytesCap)
      /\ bytes = Bytes(notes)
  <2>1. Least(r.max_bytes, MaxBytesCap) \in Nat /\ m.bytes \in Nat
    BY CapsAre DEF Least, Account
  <2>2. bytes \in Nat /\ bytes <= Least(r.max_bytes, MaxBytesCap)
    BY <1>3, <2>1
  <2>3. m.bytes = Bytes(m.notes)
    BY DEF Account
  <2> QED
    BY <1>2, <2>2, <2>3
<1> HIDE DEF todo, bytes, notes
<1>5. /\ DOMAIN new = DOMAIN m /\ new.todo = todo /\ new.bytes = bytes /\ new.notes = notes
      /\ new.rest = m.rest /\ new.count = m.count /\ new.skipped = m.skipped
  BY DEF Account
<1> HIDE DEF new
<1>6. n = new
  BY Zenon DEF new, todo, bytes, notes
<1>7. Len(notes) + m.count + Len(todo) + Len(m.rest)
      = Len(m.notes) + m.count + Len(m.todo) + Len(m.rest)
  BY <1>1, <1>2 DEF Account
<1>8. Account(r, new)
  BY <1>1, <1>2, <1>4, <1>5, <1>7 DEF Account
<1> QED
  BY <1>6, <1>8

\* So does skipping a file that cannot be read.
LEMMA UnavailableKeeps ==
    ASSUME Inv, NEW c \in Callers, call[c].at \in {"stat", "read"}, setup' = setup,
           NEW m, Account(call[c].req, m), m.todo # <<>>, NEW p, NEW why, why # "none",
           Unavailable(c, m, p, why)
    PROVE  Inv'
<1>1. CASE why = "missing"
  <2>1. NextCandidate(c, Skip(m, p, "not_found"))
    BY <1>1 DEF Unavailable
  <2> QED
    BY <2>1, SkipKeeps, NextKeeps
<1>2. CASE why = "io"
  <2>1. NextCandidate(c, Skip(m, p, "unreadable"))
    BY <1>2 DEF Unavailable
  <2> QED
    BY <2>1, SkipKeeps, NextKeeps
<1>3. CASE why \notin {"missing", "io"}
  <2>1. Fail(c, why)
    BY <1>3 DEF Unavailable
  <2> QED
    BY <2>1, FailKeeps
<1> QED
  BY <1>1, <1>2, <1>3

\* The files of a directory are taken in some order, those of a request in its own.
LEMMA CandidatesAre ==
    ASSUME Sound, NEW r, r.paths # None => IsSeq(r.paths) /\ \A p \in Range(r.paths) : IsSeq(p),
           Candidates(r).err = "none"
    PROVE  /\ IsSeq(Candidates(r).body) /\ \A p \in Range(Candidates(r).body) : IsSeq(p)
           /\ r.paths # None => Candidates(r).body = r.paths
<1>1. CASE r.paths # None
  <2>1. Candidates(r) = Answer(r.paths)
    BY <1>1 DEF Candidates
  <2> QED
    BY <1>1, <2>1 DEF Answer
<1>2. CASE r.paths = None
  <2> DEFINE files == {p \in Listed(r).body : IsMd(p) /\ p \in DOMAIN disk}
  <2>1. Candidates(r) = IF Listed(r).err # "none" THEN Listed(r) ELSE Answer(SetToSeq(files))
    BY <1>2, Zenon DEF Candidates, Then
  <2>2. IsFiniteSet(files) /\ \A p \in files : IsSeq(p)
    BY FS_Subset DEF Sound
  <2> HIDE DEF files
  <2>3. SetToSeq(files) \in Seq(files) /\ IsSeq(SetToSeq(files))
    BY <2>2, OrderIsSeq
  <2>4. \A p \in Range(SetToSeq(files)) : p \in files
    BY <2>3 DEF Range
  <2>5. Candidates(r).body = SetToSeq(files)
    BY <2>1 DEF Answer
  <2> QED
    BY <1>2, <2>2, <2>3, <2>4, <2>5
<1> QED
  BY <1>1, <1>2

\* At first nothing is read, and all candidates are left.
LEMMA AmongIs ==
    ASSUME NEW r, r.max_bytes \in Nat, NEW all, IsSeq(all), \A p \in Range(all) : IsSeq(p),
           r.paths # None => all = r.paths, NEW n \in Nat, n <= Len(all)
    PROVE  Account(r, Among(all, n))
<1> DEFINE todo == SubSeq(all, 1, n)
           rest == SubSeq(all, n + 1, Len(all))
           m == Among(all, n)
<1>1. Len(all) \in Nat
  BY IsSeqLen
<1>2. IsSeq(todo) /\ Len(todo) = n
  BY <1>1, SubSeqIsSeq
<1>3. IsSeq(rest) /\ Len(rest) = Len(all) - n
  <2>1. n + 1 \in Nat \ {0} /\ Len(all) \in Int /\ Len(all) <= Len(all)
    BY <1>1
  <2>2. IsSeq(rest) /\ Len(rest) = IF n + 1 <= Len(all) THEN Len(all) - (n + 1) + 1 ELSE 0
    BY <2>1, SubSeqIsSeq
  <2> HIDE DEF rest
  <2> QED
    BY <1>1, <2>2
<1>4. \A p \in Range(todo) : IsSeq(p)
  <2>1. \A i \in 1..n : all[i] \in Range(all)
    BY <1>1, IsSeqLen DEF Range
  <2>2. \A i \in DOMAIN todo : todo[i] \in Range(all)
    <3>1. DOMAIN todo = 1..n
      BY <1>2, IsSeqLen
    <3>2. \A i \in 1..n : todo[i] = all[i]
      BY <1>1
    <3> QED
      BY <2>1, <3>1, <3>2
  <2> HIDE DEF todo
  <2> QED
    BY <2>2 DEF Range
<1> HIDE DEF todo, rest
<1>5. /\ DOMAIN m = {"todo", "rest", "notes", "skipped", "count", "bytes"}
      /\ m.todo = todo /\ m.rest = rest /\ m.notes = <<>> /\ m.skipped = <<>>
      /\ m.count = 0 /\ m.bytes = 0
  BY DEF Among, todo, rest
<1> HIDE DEF m
<1>6. /\ IsSeq(<<>>) /\ Len(<<>>) = 0 /\ Bytes(<<>>) = 0 /\ Least(0, MaxDetails) = 0
      /\ 0 <= Least(r.max_bytes, MaxBytesCap)
  BY TuplesAreSeqs, BytesOfNone, CapsAre DEF Least
<1>7. r.paths # None => 0 + 0 + Len(todo) + Len(rest) = Len(r.paths)
  BY <1>1, <1>2, <1>3
<1>8. Account(r, m)
  BY <1>2, <1>3, <1>4, <1>5, <1>6, <1>7 DEF Account
<1> QED
  BY <1>8 DEF m

\* Each step of a call that reads keeps the invariant.
LEMMA SelectKeeps == ASSUME Inv, NEW c \in Callers, Select(c) PROVE Inv'
<1> DEFINE r == Req(c)
           all == Candidates(r)
           count == Least(Len(all.body), Least(r.max_files, MaxFilesCap))
           n == [call[c] EXCEPT !.at = "stat", !.doc = Among(all.body, count)]
<1>1. call[c].at = "select" /\ setup' = setup
  BY DEF Select, At
<1>2. /\ Sound /\ GoodCall(setup, call[c]) /\ DOMAIN call[c] = Fields /\ r = call[c].req
      /\ r.max_files \in Nat /\ r.max_bytes \in Nat
      /\ r.paths # None => IsSeq(r.paths) /\ \A p \in Range(r.paths) : IsSeq(p)
      /\ call[c].at \notin {"idle", "done"}
  BY <1>1, AtScan DEF Scanning
<1>3. \/ Fail(c, "params") \/ Fail(c, "outside")
      \/ all.err # "none" /\ Fail(c, all.err)
      \/ all.err = "none" /\ UNCHANGED vault /\ Becomes(c, n)
  BY Zenon DEF Select, SelectFrom
<1>4. ASSUME all.err = "none", UNCHANGED vault, Becomes(c, n) PROVE Inv'
  <2>1. /\ IsSeq(all.body) /\ \A p \in Range(all.body) : IsSeq(p)
        /\ r.paths # None => all.body = r.paths
    BY <1>2, <1>4, CandidatesAre
  <2>2. count \in Nat /\ count <= Len(all.body)
    <3>1. Len(all.body) \in Nat
      BY <2>1, IsSeqLen
    <3> HIDE DEF all, r
    <3> QED
      BY <1>2, <3>1, CapsAre DEF Least
  <2> HIDE DEF all, r, count
  <2>3. Account(r, Among(all.body, count))
    BY <1>2, <2>1, <2>2, AmongIs
  <2>4. DOMAIN n = Fields /\ n.at = "stat" /\ n.doc = Among(all.body, count) /\ n.req = r
    BY <1>2 DEF Fields
  <2>5. Becomes(c, n)
    BY <1>4
  <2> HIDE DEF n
  <2>6. GoodCall(setup, n)
    BY <1>1, <1>2, <2>3, <2>4, GoesOn DEF Ready, Accounts, Changing, Scanning
  <2>7. Sound'
    BY <1>1, <1>2, <1>4, SoundKept DEF vault
  <2> QED
    BY <1>1, <2>5, <2>6, <2>7, StepTo
<1> HIDE DEF all, n
<1> QED
  BY <1>1, <1>3, <1>4, FailKeeps

LEMMA StatKeeps == ASSUME Inv, NEW c \in Callers, Stat(c) PROVE Inv'
<1> DEFINE m == call[c].doc
           p == Head(m.todo)
           r == Locate(World, p)
           n == [call[c] EXCEPT !.at = "read", !.path = r.path]
<1>1. call[c].at = "stat" /\ setup' = setup /\ m.todo # <<>>
  BY DEF Stat, At
<1>2. /\ Sound /\ GoodCall(setup, call[c]) /\ DOMAIN call[c] = Fields
      /\ call[c].at \notin {"idle", "done"}
  BY <1>1, AtScan DEF Scanning
<1>3. Account(call[c].req, m)
  BY <1>1, <1>2 DEF GoodCall, Accounts
<1>4. IsSeq(p)
  BY <1>1, <1>3, TailIn DEF Account
<1>5. \/ r.err # "none" /\ Unavailable(c, m, p, r.err)
      \/ NextCandidate(c, Skip(m, r.path, "byte_limit"))
      \/ r.err = "none" /\ UNCHANGED vault /\ Becomes(c, n)
  BY Zenon DEF Stat
<1>6. ASSUME NextCandidate(c, Skip(m, r.path, "byte_limit")) PROVE Inv'
  BY <1>1, <1>3, <1>6, SkipKeeps, NextKeeps
<1>7. ASSUME r.err = "none", UNCHANGED vault, Becomes(c, n) PROVE Inv'
  <2>1. r.path \in DOMAIN disk \cup dirs
    BY <1>2, <1>4, <1>7, TreeIs, ResolvedIsThere, WorldIs DEF Locate
  <2>2. IsSeq(r.path)
    BY <1>2, <2>1 DEF Sound
  <2> HIDE DEF r
  <2>3. /\ DOMAIN n = Fields /\ n.at = "read" /\ n.path = r.path /\ n.doc = m
        /\ n.req = call[c].req
    BY <1>2 DEF Fields
  <2>4. Becomes(c, n)
    BY <1>7
  <2> HIDE DEF n, m
  <2>5. GoodCall(setup, n)
    BY <1>1, <1>2, <1>3, <2>2, <2>3, GoesOn DEF Ready, Accounts, Changing, Scanning
  <2>6. Sound'
    BY <1>1, <1>2, <1>7, SoundKept DEF vault
  <2> QED
    BY <1>1, <2>4, <2>5, <2>6, StepTo
<1>8. ASSUME r.err # "none", Unavailable(c, m, p, r.err) PROVE Inv'
  <2> HIDE DEF r, p, m
  <2> QED
    BY <1>1, <1>3, <1>8, UnavailableKeeps
<1> HIDE DEF r, p, m, n
<1> QED
  BY <1>5, <1>6, <1>7, <1>8

LEMMA ReadOneKeeps == ASSUME Inv, NEW c \in Callers, ReadOne(c) PROVE Inv'
<1> DEFINE m == call[c].doc
           p == call[c].path
           d == ReadFile(World, p)
           n == [m EXCEPT !.todo = Tail(@), !.bytes = @ + Size(d.body),
                          !.notes = Append(@, <<p, d.body>>)]
<1>1. call[c].at = "read" /\ setup' = setup
  BY DEF ReadOne, At
<1>2. /\ Sound /\ GoodCall(setup, call[c]) /\ Req(c) = call[c].req
      /\ Req(c).max_bytes \in Nat
  BY <1>1, AtScan DEF Scanning
<1>3. Account(call[c].req, m) /\ m.todo # <<>> /\ IsSeq(p)
  BY <1>1, <1>2 DEF GoodCall, Accounts, Ready
<1>4. \/ d.err # "none" /\ Unavailable(c, m, p, d.err)
      \/ NextCandidate(c, Skip(m, p, "byte_limit"))
      \/ d.err = "none" /\ ~(Size(d.body) > Room(c, m)) /\ NextCandidate(c, n)
  BY Zenon DEF ReadOne
<1>5. ASSUME NextCandidate(c, Skip(m, p, "byte_limit")) PROVE Inv'
  BY <1>1, <1>3, <1>5, SkipKeeps, NextKeeps
<1>6. ASSUME d.err = "none", ~(Size(d.body) > Room(c, m)), NextCandidate(c, n) PROVE Inv'
  <2>1. IsDocument(d.body)
    BY <1>2, <1>3, <1>6, ReadIsDocument
  <2>2. ~(Size(d.body) > Least(call[c].req.max_bytes, MaxBytesCap) - m.bytes)
    BY <1>2, <1>6 DEF Room
  <2> HIDE DEF d
  <2> DEFINE b == d.body
  <2>3. n = [m EXCEPT !.todo = Tail(@), !.bytes = @ + Size(b), !.notes = Append(@, <<p, b>>)]
    OBVIOUS
  <2> HIDE DEF n, m, p, b
  <2>4. Account(call[c].req, n)
    BY <1>2, <1>3, <2>1, <2>2, <2>3, ReadKeeps DEF b
  <2> QED
    BY <1>1, <1>6, <2>4, NextKeeps
<1>7. ASSUME d.err # "none", Unavailable(c, m, p, d.err) PROVE Inv'
  <2> HIDE DEF d, p, m
  <2> QED
    BY <1>1, <1>3, <1>7, UnavailableKeeps
<1> HIDE DEF d, p, m, n
<1> QED
  BY <1>4, <1>5, <1>6, <1>7

LEMMA ConcludeKeeps == ASSUME Inv, NEW c \in Callers, Conclude(c) PROVE Inv'
<1> DEFINE m == call[c].doc
           r == call[c].req
           late == [i \in DOMAIN m.rest |-> <<m.rest[i], "file_limit">>]
           count == m.count + Len(m.rest)
           skipped == Capped(m.skipped \o late)
           b == [m EXCEPT !.count = count, !.skipped = skipped]
           n == [call[c] EXCEPT !.at = "done", !.reply = Answer(b)]
<1>1. call[c].at = "stat" /\ setup' = setup /\ m.todo = <<>> /\ UNCHANGED vault
  BY DEF Conclude, At
<1>2. Sound /\ GoodCall(setup, call[c]) /\ DOMAIN call[c] = Fields
  BY <1>1, AtScan DEF Scanning
<1>3. Account(r, m)
  BY <1>1, <1>2 DEF GoodCall, Accounts
<1>4. Becomes(c, n)
  BY Zenon DEF Conclude, Reply, Summary
<1>5. Len(m.rest) \in Nat /\ DOMAIN m.rest = 1..Len(m.rest) /\ Len(m.notes) \in Nat
  BY <1>3, IsSeqLen DEF Account
<1>6. IsSeq(late) /\ Len(late) = Len(m.rest)
  <2> DEFINE T == {<<m.rest[i], "file_limit">> : i \in DOMAIN m.rest}
  <2>1. late \in Seq(T) /\ Len(late) = Len(m.rest)
    BY <1>5
  <2> HIDE DEF late, T
  <2> QED
    BY <2>1, SeqIsSeq
<1>7. count \in Nat /\ Len(skipped) = Least(count, MaxDetails)
  <2> DEFINE s == m.skipped \o late
  <2> HIDE DEF late
  <2>1. IsSeq(s) /\ Len(s) = Least(m.count, MaxDetails) + Len(m.rest)
    BY <1>3, <1>6, ConcatIsSeq DEF Account
  <2> HIDE DEF s
  <2>2. Len(Capped(s)) = Least(Len(s), MaxDetails)
    BY <2>1, CappedIs
  <2>3. m.count \in Nat
    BY <1>3 DEF Account
  <2>4. Least(Least(m.count, MaxDetails) + Len(m.rest), MaxDetails) = Least(count, MaxDetails)
    BY <1>5, <2>3, CapsAre DEF Least
  <2> QED
    BY <1>5, <2>1, <2>2, <2>3, <2>4 DEF s
<1> HIDE DEF late, count, skipped
<1>8. b.bytes = m.bytes /\ b.notes = m.notes /\ b.count = count /\ b.skipped = skipped
  BY <1>3 DEF Account
<1>9. r.paths # None => Len(m.notes) + count = Len(r.paths)
  <2>1. r.paths # None => Len(m.notes) + m.count + Len(m.todo) + Len(m.rest) = Len(r.paths)
    BY <1>3 DEF Account
  <2>2. m.count \in Nat /\ Len(m.todo) = 0
    BY <1>1, <1>3 DEF Account
  <2> HIDE DEF m, r
  <2> QED
    BY <1>5, <2>1, <2>2 DEF count
<1> HIDE DEF b
<1>10. Balanced(r, b)
  BY <1>3, <1>7, <1>8, <1>9 DEF Balanced, Account
<1>11. DOMAIN n = Fields /\ n.at = "done" /\ n.reply = Answer(b) /\ n.req = r
  BY <1>2 DEF Fields
<1> HIDE DEF n, r
<1>12. GoodCall(setup, n)
  BY <1>10, <1>11 DEF GoodCall, Fits, Ready, Accounts, Answer
<1>13. Sound'
  BY <1>1, <1>2, SoundKept DEF vault
<1> QED
  BY <1>1, <1>4, <1>12, <1>13, StepTo

LEMMA Read1Keeps == ASSUME Inv, NEW c \in Callers, Read1(c) PROVE Inv'
<1>1. call[c].at = "answer" /\ setup' = setup /\ UNCHANGED vault /\ \E r : Reply(c, r)
  BY DEF Read1, At
<1>2. call[c].req.tool # "note_read_many"
  BY <1>1 DEF Inv, GoodCall, Fits, Scanning
<1>3. Sound'
  BY <1>1, SoundKept DEF Inv, vault
<1> QED
  BY <1>1, <1>2, <1>3, ReplyKeeps

\* Another program keeps it too.
LEMMA EditKeeps == ASSUME Inv, NEW e \in Setups[setup].edits, Edit(e) PROVE Inv'
<1>1. setup' = setup /\ dirs' = dirs /\ call' = [c \in Callers |-> Disturbed(call[c])]
  BY DEF Edit
<1>2. IsSeq(e.path) /\ (e.doc = None \/ IsDocument(e.doc)) /\ Sound
  BY SetupsAssumption, PathIsSeq DEF Inv, Sound, IsPlace
<1>3. Sound'
  <2>1. CASE e.doc = None
    <3>1. disk' = Restrict(disk, DOMAIN disk \ {e.path})
      BY <2>1 DEF Edit
    <3>2. dirs' \subseteq dirs /\ <<>> \in dirs'
      BY <1>1, <1>2 DEF Sound
    <3> QED
      BY <1>1, <1>2, <3>1, <3>2, SoundAfterRemoval
  <2>2. CASE e.doc # None
    <3>1. disk' = With(disk, e.path, e.doc)
      BY <2>2 DEF Edit
    <3> QED
      BY <1>1, <1>2, <2>2, <3>1, SoundAfterWrite
  <2> QED
    BY <2>1, <2>2
<1>4. ASSUME NEW c \in Callers PROVE GoodCall(setup', call'[c])
  <2>1. call'[c] = Disturbed(call[c]) /\ GoodCall(setup, call[c])
    BY <1>1 DEF Inv
  <2> QED
    BY <1>1, <2>1, DisturbedGood
<1> QED
  BY <1>1, <1>3, <1>4 DEF Inv

--------------------------------------------------------------------------------
(* The invariant, and what it is for.                                          *)

\* The invariant holds of the vault as it is opened, without calls.
LEMMA InitSound == Init => Inv
<1> SUFFICES ASSUME Init PROVE Inv
  OBVIOUS
<1>1. Sound
  BY SetupsAssumption, PathIsSeq DEF Init, Sound, IsPlace
<1>2. ASSUME NEW c \in Callers PROVE GoodCall(setup, call[c])
  <2>1. call[c] = Idle
    BY DEF Init
  <2> QED
    BY <2>1 DEF Idle, GoodCall, Fits, Ready, Accounts, Fields
<1>3. DOMAIN call = Callers
  BY DEF Init
<1> QED
  BY <1>1, <1>2, <1>3 DEF Inv

\* Every step keeps it.
LEMMA StepKeeps == Inv /\ [Next]_vars => Inv'
<1> SUFFICES ASSUME Inv, [Next]_vars PROVE Inv'
  OBVIOUS
<1>1. ASSUME NEW c \in Callers, NEW r \in Setups[setup].requests[c], Begin(c, r) PROVE Inv'
  BY <1>1, BeginKeeps
<1>2. ASSUME NEW c \in Callers, Step1(c) PROVE Inv'
  BY <1>2, CheckNewKeeps, LoadKeeps, PutKeeps, ReindexKeeps, UnlinkKeeps, UnindexKeeps,
     CheckMoveKeeps, RenameKeeps, RelinkKeeps, SelectKeeps, StatKeeps, ReadOneKeeps,
     ConcludeKeeps, Read1Keeps DEF Step1
<1>3. ASSUME NEW e \in Setups[setup].edits, Edit(e) PROVE Inv'
  BY <1>3, EditKeeps
<1>4. CASE UNCHANGED vars
  BY <1>4 DEF vars, Inv, Sound
<1> QED
  BY <1>1, <1>2, <1>3, <1>4 DEF Next

\* In every reachable state the vault is a tree of documents with a root, a call
\* is at a step of its tool, and a read of many notes keeps its account.
THEOREM CallsCorrect == Spec => []Inv
BY InitSound, StepKeeps, PTL DEF Spec

\* note_read_many returns no more than its budget allows, each candidate once or
\* with a reason, and counts what it does not list (tools/notes.rs): however many
\* clients write, delete and move the files while it reads.
THEOREM ManyAccounted == Spec => []ReadManyAccounts
<1>1. Inv => ReadManyAccounts
  <2> SUFFICES ASSUME Inv, NEW c \in Callers, Answered(c, {"note_read_many"})
               PROVE  Balanced(Req(c), call[c].reply.body)
    BY DEF ReadManyAccounts, Balanced
  <2> QED
    BY DEF Inv, GoodCall, Accounts, Answered, Req
<1> QED
  BY <1>1, CallsCorrect, PTL

\* A read-only server offers no tool that edits.
LEMMA ReadersOfferNone ==
    ASSUME Sound, ReadOnlyServer PROVE Offered(Setups[setup].tools) \cap Edits = {}
<1> DEFINE tools == Setups[setup].tools
<1>1. tools \in Seq(Range(tools)) /\ Named(tools) = {"read"} /\ ~IsDenyList(tools)
  BY SetupsAssumption DEF Sound, ReadOnlyServer
<1> HIDE DEF tools
<1>2. tools # <<>>
  BY <1>1 DEF Named, Range
<1>3. CASE Len(tools) = 1
  <2>1. tools[1] \in Range(tools)
    BY <1>1, <1>3 DEF Range
  <2>2. tools[1].name = "read"
    BY <1>1, <2>1 DEF Named
  <2>3. Offered(tools) = AllToolNames \ (AllToolNames \ ReadOnly)
    BY <1>1, <1>2, <1>3, <2>2 DEF Offered, DisabledTools, ProfileTools, Profiles
  <2>4. ReadOnly \cap Edits = {}
    BY DEF ReadOnly, Edits, Editing, Searching, Relating, Reading, AboutVault
  <2> QED
    BY <2>3, <2>4 DEF tools
<1>4. CASE Len(tools) # 1
  <2>1. Offered(tools) = AllToolNames \ (AllToolNames \ {"read"})
    BY <1>1, <1>2, <1>4 DEF Offered, DisabledTools
  <2>2. "read" \notin Edits
    BY DEF Edits, Editing
  <2> QED
    BY <2>1, <2>2 DEF tools
<1> QED
  BY <1>3, <1>4

\* Where no tool edits, no call comes to a step that changes a file.
LEMMA ReadersAt ==
    ASSUME Inv, ReadOnlyServer, NEW c \in Callers PROVE call[c].at \notin Changing
<1>1. Offered(Setups[setup].tools) \cap Edits = {}
  BY ReadersOfferNone DEF Inv
<1> QED
  BY <1>1, AtChange

\* A step of such a server's clients leaves the files as they are.
LEMMA ReadersStep ==
    ASSUME Inv, edits \in Nat, [Next]_vars, ReadOnlyServer, edits' = edits
    PROVE  UNCHANGED <<disk, dirs>>
<1>1. ASSUME NEW c \in Callers, NEW r \in Setups[setup].requests[c], Begin(c, r)
      PROVE  UNCHANGED <<disk, dirs>>
  BY <1>1 DEF Begin, vault
<1>2. ASSUME NEW c \in Callers, Step1(c) PROVE UNCHANGED <<disk, dirs>>
  <2>1. call[c].at \notin Changing
    BY ReadersAt
  <2>2. Select(c) \/ Stat(c) \/ ReadOne(c) \/ Conclude(c) \/ Read1(c)
    BY <1>2, <2>1 DEF Step1, CheckNew, Load, Put, Reindex, Unlink, Unindex, CheckMove, Rename,
       Relink, At, Changing
  <2>3. UNCHANGED vault
    BY <2>2, Zenon DEF Select, SelectFrom, Stat, ReadOne, Conclude, Read1, Fail, NextCandidate,
       Unavailable
  <2> QED
    BY <2>3 DEF vault
<1>3. ASSUME NEW e \in Setups[setup].edits, Edit(e) PROVE FALSE
  BY <1>3 DEF Edit
<1>4. CASE UNCHANGED vars
  BY <1>4 DEF vars
<1> QED
  BY <1>1, <1>2, <1>3, <1>4 DEF Next

\* Only other programs' edits are counted.
LEMMA EditsCounted == edits \in Nat /\ [Next]_vars => (edits \in Nat)'
<1> SUFFICES ASSUME edits \in Nat, [Next]_vars PROVE edits' = edits \/ edits' = edits + 1
  OBVIOUS
<1>1. ASSUME NEW c \in Callers, NEW r \in Setups[setup].requests[c], Begin(c, r)
      PROVE  edits' = edits
  BY <1>1 DEF Begin
<1>2. ASSUME NEW c \in Callers, Step1(c) PROVE edits' = edits
  BY <1>2 DEF Step1, At, CheckNew, Load, Put, Reindex, Unlink, Unindex, CheckMove, Rename,
     Relink, Select, Stat, ReadOne, Conclude, Read1
<1>3. ASSUME NEW e \in Setups[setup].edits, Edit(e) PROVE edits' = edits + 1
  BY <1>3 DEF Edit
<1>4. CASE UNCHANGED vars
  BY <1>4 DEF vars
<1> QED
  BY <1>1, <1>2, <1>3, <1>4 DEF Next

\* A server with the profile "read" changes no file and makes no directory,
\* whatever its clients send (config.rs: "Strictly read-only").
THEOREM ReadersNeverWrite == Spec => ReadProfileNeverWrites
<1>1. Init => edits \in Nat
  BY DEF Init
<1>2. Inv /\ edits \in Nat /\ [Next]_vars
      => [ReadOnlyServer /\ edits' = edits => UNCHANGED <<disk, dirs>>]_vars
  BY ReadersStep
<1> QED
  BY <1>1, <1>2, EditsCounted, CallsCorrect, PTL DEF Spec, ReadProfileNeverWrites

--------------------------------------------------------------------------------
(* What a call may rely on of the vault w, and what it has to say of it.        *)

Tidy(w) ==
    /\ IsVault(Tree(w)) /\ IsMap(w.disk)
    /\ \A p \in w.excluded : IsExcluded(Excluded, p)

\* Which tools come to which steps, with what.
Writing  == Creating \cup {"note_write", "note_insert", "note_patch", "note_frontmatter_edit"}
Kind(k) ==
    /\ k.at = "check" => k.req.tool \in Creating \cup {"note_move"}
    /\ k.at \in {"load", "put", "reindex"} => k.req.tool \in Writing
    /\ k.at \in {"unlink", "unindex"} => k.req.tool = "note_delete"
    /\ k.at \in {"rename", "relink"} => k.req.tool = "note_move"
    /\ k.at = "rename" => Plain(k.path)

\* The steps up to the one that changes a file.
Untouched == {"check", "load", "put", "unlink", "rename", "select", "stat", "read", "answer"}

InTables(w, p) ==
    IF p \notin DOMAIN w.disk THEN p \notin DOMAIN w.meta \cup w.excluded
    ELSE IF IsExcluded(Excluded, p) THEN p \notin DOMAIN w.meta /\ p \in w.excluded
    ELSE p \notin w.excluded /\ p \in DOMAIN w.meta /\ w.meta[p] = w.disk[p]

\* What an answer says is so, as AnswersAreTrue has it.
Told(w, k) ==
    /\ k.reply.err = "none" /\ k.req.tool \in Creating \cup Editing /\ k.path \notin w.dirs =>
          InTables(w, k.path) /\ (k.req.tool = "note_move" => InTables(w, k.doc))
    /\ k.reply.err \notin {"none", "yaml"} => w.disk = k.kept
    /\ k.reply.err = "yaml" /\ k.req.tool \in Creating \cup Editing =>
          (IF k.req.tool = "note_move" THEN k.doc ELSE k.path) \notin DOMAIN w.meta

\* A call with which nobody interfered finds what it left.
Undivided(w, k) ==
    /\ k.at \in Untouched => k.kept = w.disk
    /\ k.at = "reindex" => k.path \in DOMAIN w.disk /\ Locate(w, k.path) = Found(k.path)
    /\ k.at = "unindex" => k.path \notin DOMAIN w.disk
    /\ k.at = "relink" => k.doc \notin DOMAIN w.disk /\ k.path \in Nodes(Tree(w))
    /\ k.at = "done" => Told(w, k)

\* Where a document will be written none is that was there all along.
Free(w, k) ==
    /\ k.at \in Untouched => DOMAIN k.kept \subseteq DOMAIN w.disk
    /\ k.at \in {"rename", "relink"} => k.doc # k.path /\ k.path \notin DOMAIN k.kept
    /\ k.at = "done" /\ k.req.tool = "note_move" /\ k.reply.err = "none" =>
          k.path \notin DOMAIN k.kept
    /\ k.req.tool \in Creating /\ k.grown =>
          /\ k.at = "put" => Locate(w, k.path) \notin {Found(p) : p \in DOMAIN k.kept}
          /\ k.at = "reindex" \/ (k.at = "done" /\ k.reply.err = "none") =>
                k.path \notin DOMAIN k.kept

Honest(w, k) ==
    k.at # "idle" => Kind(k) /\ (k.alone => Undivided(w, k)) /\ Free(w, k)
Honesty == Tidy(World) /\ \A c \in Callers : Honest(World, call[c])

--------------------------------------------------------------------------------
(* What a step of one call leaves true of the others.                          *)

\* The vault before and after a step.
LEMMA WorldsAre ==
    /\ World.disk = disk /\ World.dirs = dirs /\ World.links = links
    /\ World.meta = meta /\ World.excluded = excluded
    /\ Tree(World).files = DOMAIN disk /\ Tree(World).dirs = dirs /\ Tree(World).links = links
    /\ World'.disk = disk' /\ World'.dirs = dirs' /\ World'.links = links'
    /\ World'.meta = meta' /\ World'.excluded = excluded'
    /\ Tree(World').files = DOMAIN disk' /\ Tree(World').dirs = dirs' /\ Tree(World').links = links'
BY DEF World, Tree

\* The vault v, and what a call in it says, after w and the same call: it has kept
\* what nobody changed, and knows whether the vault is still what it was.
LEMMA HonestOn ==
    ASSUME NEW w, Tidy(w), NEW v, Tidy(v), NEW k, k.at # "idle", Honest(w, k),
           k.at = "put" /\ k.req.tool \in Creating => IsSeq(k.path),
           NEW n, n.at = k.at, n.req = k.req, n.path = k.path, n.doc = k.doc, n.reply = k.reply,
           \A p \in DOMAIN n.kept : p \in DOMAIN k.kept /\ (p \in DOMAIN w.disk => p \in DOMAIN v.disk),
           n.alone => k.alone /\ v = w /\ (IsMap(k.kept) => n.kept = k.kept),
           n.grown => /\ k.grown /\ DOMAIN w.disk \subseteq DOMAIN v.disk
                      /\ w.dirs \subseteq v.dirs /\ w.links \subseteq v.links
    PROVE  Honest(v, n)
<1>1. Kind(n)
  BY DEF Honest, Kind
<1>2. ASSUME n.alone PROVE Undivided(v, n)
  <2>1. Undivided(w, k) /\ v = w
    BY <1>2 DEF Honest
  <2>2. k.kept = w.disk => n.kept = k.kept
    BY <1>2 DEF Tidy
  <2> QED
    BY <2>1, <2>2 DEF Undivided, Told
<1>3. Free(w, k)
  BY DEF Honest
<1>4. n.at \in Untouched => DOMAIN n.kept \subseteq DOMAIN v.disk
  BY <1>3 DEF Free
<1>5. n.at \in {"rename", "relink"} => n.doc # n.path /\ n.path \notin DOMAIN n.kept
  BY <1>3 DEF Free
<1>6. n.at = "done" /\ n.req.tool = "note_move" /\ n.reply.err = "none" => n.path \notin DOMAIN n.kept
  BY <1>3 DEF Free
<1>7. ASSUME n.req.tool \in Creating, n.grown, n.at = "put",
             NEW p \in DOMAIN n.kept, Locate(v, n.path) = Found(p)
      PROVE  FALSE
  <2>1. p \in DOMAIN k.kept /\ DOMAIN k.kept \subseteq DOMAIN w.disk
    BY <1>3, <1>7 DEF Free, Untouched
  <2>2. Locate(w, k.path) # Found(p)
    BY <1>3, <1>7, <2>1 DEF Free
  <2> DEFINE tree == Tree(w)
             grown == Tree(v)
  <2>3. /\ tree.files = DOMAIN w.disk /\ tree.dirs = w.dirs /\ tree.links = w.links
        /\ grown.files = DOMAIN v.disk /\ grown.dirs = v.dirs /\ grown.links = v.links
    BY DEF Tree
  <2>4. IsVault(tree) /\ IsVault(grown)
    BY DEF Tidy
  <2>5. Locate(v, n.path) = ResolveExisting(grown, k.path) /\ Locate(w, k.path) = ResolveExisting(tree, k.path)
    BY DEF Locate
  <2> HIDE DEF tree, grown
  <2>6. IsTree(grown) /\ p \in Nodes(tree)
    BY <2>1, <2>3, <2>4 DEF IsVault, Nodes
  <2>7. /\ tree.files \subseteq grown.files /\ tree.dirs \subseteq grown.dirs
        /\ tree.links \subseteq grown.links
    BY <1>7, <2>3
  <2>8. IsSeq(k.path) /\ ResolveExisting(grown, k.path) = Found(p)
    BY <1>7, <2>5
  <2>9. ResolveExisting(tree, k.path) = Found(p)
    BY <2>4, <2>6, <2>7, <2>8, FoundBefore
  <2> QED
    BY <2>2, <2>5, <2>9
<1>8. n.req.tool \in Creating /\ n.grown =>
          /\ n.at = "put" => Locate(v, n.path) \notin {Found(p) : p \in DOMAIN n.kept}
          /\ n.at = "reindex" \/ (n.at = "done" /\ n.reply.err = "none") => n.path \notin DOMAIN n.kept
  <2>1. n.req.tool \in Creating /\ n.grown /\ n.at = "put"
        => Locate(v, n.path) \notin {Found(p) : p \in DOMAIN n.kept}
    BY <1>7
  <2>2. /\ n.req.tool \in Creating /\ n.grown
        /\ n.at = "reindex" \/ (n.at = "done" /\ n.reply.err = "none")
        => n.path \notin DOMAIN n.kept
    BY <1>3 DEF Free
  <2> QED
    BY <2>1, <2>2
<1>9. Free(v, n)
  BY <1>4, <1>5, <1>6, <1>8 DEF Free
<1> QED
  BY <1>1, <1>2, <1>9 DEF Honest

\* A step of one call leaves what is said of another true.
LEMMA OthersHonest ==
    ASSUME Inv, Honesty, Tidy(World'), NEW c \in Callers
    PROVE  Honest(World', Disturbed(call[c]))
<1> DEFINE k == call[c]
           kept == Restrict(k.kept, {p \in DOMAIN k.kept : Same(p)})
           alone == k.alone /\ vault' = vault
           grown == /\ k.grown /\ DOMAIN disk \subseteq DOMAIN disk'
                    /\ dirs \subseteq dirs' /\ links \subseteq links'
           n == [k EXCEPT !.kept = kept, !.alone = alone, !.grown = grown]
<1>1. DOMAIN k = Fields /\ Tidy(World) /\ Honest(World, k)
      /\ (k.at = "put" /\ k.req.tool \in Creating => IsSeq(k.path))
  <2>1. GoodCall(setup, k)
    BY DEF Inv
  <2>2. k.req.tool \in Creating => ~Loading(k.req) /\ k.req.tool \notin {"note_write", "note_insert"}
    BY DEF Creating, Loading
  <2> HIDE DEF k
  <2>3. k.at = "put" /\ k.req.tool \in Creating => IsSeq(k.path)
    BY <2>1, <2>2 DEF GoodCall, Ready
  <2> QED
    BY <2>1, <2>3 DEF GoodCall, Honesty, k
<1>2. CASE k.at = "idle"
  BY <1>2 DEF Disturbed, Honest
<1>3. CASE k.at # "idle"
  <2>1. Disturbed(k) = n
    BY <1>3, Zenon DEF Disturbed
  <2>2. \A p \in DOMAIN kept : p \in DOMAIN k.kept /\ (p \in DOMAIN disk => p \in DOMAIN disk')
    BY DEF Restrict, Same
  <2>3. alone => k.alone /\ World' = World
    BY DEF vault, World
  <2>4. alone /\ IsMap(k.kept) => kept = k.kept
    <3> SUFFICES ASSUME alone, IsMap(k.kept) PROVE kept = k.kept
      OBVIOUS
    <3>1. \A p \in DOMAIN k.kept : Same(p)
      BY DEF vault, Same
    <3>2. {p \in DOMAIN k.kept : Same(p)} = DOMAIN k.kept
      BY <3>1
    <3>3. kept = [p \in DOMAIN k.kept |-> k.kept[p]]
      BY <3>2 DEF Restrict
    <3> HIDE DEF kept
    <3> QED
      BY <3>3 DEF IsMap
  <2> HIDE DEF kept, alone
  <2>5. grown => /\ k.grown /\ DOMAIN World.disk \subseteq DOMAIN World'.disk
                 /\ World.dirs \subseteq World'.dirs /\ World.links \subseteq World'.links
    BY WorldsAre
  <2> HIDE DEF grown
  <2>6. /\ n.at = k.at /\ n.req = k.req /\ n.path = k.path /\ n.doc = k.doc /\ n.reply = k.reply
        /\ n.kept = kept /\ n.alone = alone /\ n.grown = grown
    BY <1>1 DEF Fields
  <2> HIDE DEF n, k
  <2>7. \A p \in DOMAIN n.kept :
            p \in DOMAIN k.kept /\ (p \in DOMAIN World.disk => p \in DOMAIN World'.disk)
    BY <2>2, <2>6, WorldsAre
  <2>8. n.alone => k.alone /\ World' = World /\ (IsMap(k.kept) => n.kept = k.kept)
    BY <2>3, <2>4, <2>6
  <2>9. n.grown => /\ k.grown /\ DOMAIN World.disk \subseteq DOMAIN World'.disk
                   /\ World.dirs \subseteq World'.dirs /\ World.links \subseteq World'.links
    BY <2>5, <2>6
  <2> DEFINE w == World
             v == World'
  <2> HIDE DEF w, v
  <2>10. Honest(v, n)
    <3>1. Tidy(w) /\ Tidy(v) /\ Honest(w, k)
      BY <1>1 DEF w, v
    <3>2. \A p \in DOMAIN n.kept : p \in DOMAIN k.kept /\ (p \in DOMAIN w.disk => p \in DOMAIN v.disk)
      BY <2>7 DEF w, v
    <3>3. n.alone => k.alone /\ v = w /\ (IsMap(k.kept) => n.kept = k.kept)
      BY <2>8 DEF w, v
    <3>4. n.grown => /\ k.grown /\ DOMAIN w.disk \subseteq DOMAIN v.disk
                     /\ w.dirs \subseteq v.dirs /\ w.links \subseteq v.links
      BY <2>9 DEF w, v
    <3> QED
      BY <1>1, <1>3, <2>6, <3>1, <3>2, <3>3, <3>4, HonestOn
  <2> QED
    BY <2>1, <2>10 DEF v, k
<1> QED
  BY <1>2, <1>3

\* A step is honest if its own call is.
LEMMA StepHonest ==
    ASSUME Inv, Honesty, NEW c \in Callers, NEW n, Becomes(c, n), Tidy(World'), Honest(World', n)
    PROVE  Honesty'
<1>1. ASSUME NEW x \in Callers PROVE Honest(World', call'[x])
  <2>1. CASE x = c
    BY <2>1 DEF Becomes
  <2>2. CASE x # c
    <3>1. call'[x] = Disturbed(call[x])
      BY <2>2 DEF Becomes
    <3> QED
      BY <3>1, OthersHonest
  <2> QED
    BY <2>1, <2>2
<1> QED
  BY <1>1 DEF Honesty

\* A step that leaves the vault as it is.
LEMMA SameHonest ==
    ASSUME Inv, Honesty, NEW c \in Callers, NEW n, Becomes(c, n), UNCHANGED vault,
           Honest(World, n)
    PROVE  Honesty'
<1>1. World' = World
  BY DEF World, vault
<1>2. Tidy(World')
  BY <1>1 DEF Honesty
<1>3. Honest(World', n)
  BY <1>1
<1> QED
  BY <1>2, <1>3, StepHonest

\* What a caller's own call is.
LEMMA HonestCall ==
    ASSUME Inv, Honesty, NEW c \in Callers, call[c].at # "idle"
    PROVE  /\ DOMAIN call[c] = Fields /\ GoodCall(setup, call[c]) /\ Req(c) = call[c].req
           /\ Kind(call[c]) /\ Free(World, call[c])
           /\ call[c].alone => Undivided(World, call[c])
           /\ Sound /\ Tidy(World) /\ IsVault(Tree(World))
BY DEF Inv, GoodCall, Req, Honesty, Honest, Tidy

\* An answer before any file was changed, which says so if it is a failure.
LEMMA ReplyHonest ==
    ASSUME Inv, Honesty, NEW c \in Callers, NEW r, UNCHANGED vault, Reply(c, r),
           call[c].at \in Untouched, r.err = "none" \/ r.err = "yaml" => call[c].req.tool \notin Edits
    PROVE  Honesty'
<1> DEFINE k == call[c]
           n == [k EXCEPT !.at = "done", !.reply = r]
<1>1. k.at # "idle"
  BY DEF Untouched
<1>2. /\ DOMAIN k = Fields /\ Kind(k) /\ Free(World, k)
      /\ k.alone => Undivided(World, k)
  BY <1>1, HonestCall
<1>3. Becomes(c, n)
  BY Zenon DEF Reply
<1>4. /\ n.at = "done" /\ n.reply = r /\ n.req = k.req /\ n.path = k.path /\ n.doc = k.doc
      /\ n.kept = k.kept /\ n.alone = k.alone /\ n.grown = k.grown
  BY <1>2 DEF Fields
<1>5. Creating \cup Editing \subseteq Edits
  BY DEF Creating, Editing, Edits
<1> HIDE DEF n
<1>6. Kind(n)
  BY <1>4 DEF Kind
<1>7. n.alone => Undivided(World, n)
  <2>1. n.alone => World.disk = n.kept
    BY <1>2, <1>4 DEF Undivided
  <2>2. n.reply.err = "none" \/ n.reply.err = "yaml" => n.req.tool \notin Creating \cup Editing
    BY <1>4, <1>5
  <2>3. n.alone => Told(World, n)
    BY <2>1, <2>2 DEF Told
  <2> QED
    BY <1>4, <2>3 DEF Undivided, Untouched
<1>8. Free(World, n)
  <2>1. n.reply.err = "none" => n.req.tool \notin Creating /\ n.req.tool # "note_move"
    BY <1>4, <1>5 DEF Editing
  <2> QED
    BY <1>4, <2>1 DEF Free, Untouched
<1>9. Honest(World, n)
  BY <1>6, <1>7, <1>8 DEF Honest
<1> QED
  BY <1>3, <1>9, SameHonest

\* A refusal before any file was changed.
LEMMA FailHonest ==
    ASSUME Inv, Honesty, NEW c \in Callers, NEW why, Fail(c, why), call[c].at \in Untouched,
           why \notin {"none", "yaml"}
    PROVE  Honesty'
<1>1. Refusal(why).err = why
  BY DEF Refusal
<1> QED
  BY <1>1, ReplyHonest DEF Fail

--------------------------------------------------------------------------------
(* Each step of a call leaves what is said true.                               *)

\* Looking up a path fails for one of these reasons; none is a parse.
Reasons == {"none", "invalid", "outside", "missing", "io"}

\* A path fails to resolve for one of these reasons, for reading and for writing.
LEMMA LookupFails ==
    ASSUME NEW tree, IsTree(tree), NEW raw, IsSeq(raw)
    PROVE  ResolveExisting(tree, raw).err \in Reasons /\ ResolveForWrite(tree, raw).err \in Reasons
<1> DEFINE r == NormalizeRelative(raw)
           n == Len(r.path)
           w == Walk(tree, r.path)
<1>1. r.path \in Seq(Range(raw)) /\ r.err \in Reasons
  BY NormalizedIs DEF Normalized, Reasons
<1>2. IsSeq(r.path) /\ n \in Nat /\ n \in 0..n
  BY <1>1, SeqIsSeq, IsSeqLen
<1>3. w[n].err \in Reasons
  BY <1>2, WalkFinds DEF Results, Reasons
<1>4. ResolveExisting(tree, raw) = IF r.err # "none" THEN r ELSE w[n]
  BY DEF ResolveExisting, Existing
<1>5. ResolveForWrite(tree, raw).err \in {r.err, w[n].err, "none"}
  BY DEF ResolveForWrite, ForWrite, Extended, Found
<1> HIDE DEF r, w
<1>6. ResolveExisting(tree, raw).err \in Reasons
  BY <1>1, <1>3, <1>4
<1>7. ResolveForWrite(tree, raw).err \in Reasons
  BY <1>1, <1>3, <1>5 DEF Reasons
<1> QED
  BY <1>6, <1>7

\* And so it does in the vault.
LEMMA LocateFails ==
    ASSUME Sound, NEW raw, IsSeq(raw)
    PROVE  /\ Locate(World, raw).err \in Reasons /\ ReadFile(World, raw).err \in Reasons
           /\ ResolveForWrite(Tree(World), raw).err \in Reasons
<1>1. Locate(World, raw).err \in Reasons /\ ResolveForWrite(Tree(World), raw).err \in Reasons
  BY TreeIs, LookupFails DEF Locate
<1>2. ReadFile(World, raw).err \in {Locate(World, raw).err, "io", "none"}
  BY DEF ReadFile, ReadAt, Refusal, Answer
<1>3. ReadFile(World, raw).err \in Reasons
  BY <1>1, <1>2 DEF Reasons
<1> QED
  BY <1>1, <1>3

\* A call begins with the vault as it is.
LEMMA BeginHonest ==
    ASSUME Inv, Honesty, NEW c \in Callers, NEW r, Begin(c, r) PROVE Honesty'
<1> DEFINE k == [Idle EXCEPT !.req = r, !.kept = disk]
           refused(why) == [k EXCEPT !.at = "done", !.reply = Refusal(why)]
           n == [k EXCEPT !.at = FirstStep(r)]
<1>1. UNCHANGED vault
  BY DEF Begin, vault
<1>2. DOMAIN k = Fields /\ k.req = r /\ k.kept = disk
  BY DEF Idle, Fields
<1> HIDE DEF k
<1>3. ASSUME NEW why, why \notin {"none", "yaml"} PROVE Honest(World, refused(why))
  <2> DEFINE m == refused(why)
  <2>1. m.at = "done" /\ m.reply = Refusal(why) /\ m.req = r /\ m.kept = disk
    BY <1>2 DEF Fields
  <2>2. Refusal(why).err = why
    BY DEF Refusal
  <2> HIDE DEF m
  <2>3. Kind(m) /\ Undivided(World, m) /\ Free(World, m)
    BY <1>3, <2>1, <2>2, WorldsAre DEF Kind, Undivided, Told, Free, Untouched
  <2>4. Honest(World, m)
    BY <2>3 DEF Honest
  <2> QED
    BY <2>4 DEF m
<1>4. Honest(World, n)
  <2>1. n.at = FirstStep(r) /\ n.req = r /\ n.kept = disk
    BY <1>2 DEF Fields
  <2> HIDE DEF n
  <2> DEFINE at == FirstStep(r)
  <2>2. \/ at = "check" /\ r.tool \in Creating \cup {"note_move"}
        \/ at \in {"load", "put"} /\ r.tool \in Writing \ Creating
        \/ at = "unlink" /\ r.tool = "note_delete"
        \/ at \in {"select", "answer"}
    BY DEF FirstStep, Loading, Writing, Creating
  <2> HIDE DEF at
  <2>3. Kind(n)
    BY <2>1, <2>2 DEF Kind, at
  <2>4. n.at \in Untouched \ {"rename"} /\ (n.at = "put" => r.tool \notin Creating)
    BY <2>1, <2>2 DEF Untouched, at
  <2>5. Undivided(World, n)
    BY <2>1, <2>4, WorldsAre DEF Undivided, Untouched
  <2>6. Free(World, n)
    BY <2>1, <2>4, WorldsAre DEF Free, Untouched
  <2> QED
    BY <2>3, <2>5, <2>6 DEF Honest
<1>5. Becomes(c, n) \/ Becomes(c, refused("no_tool")) \/ Becomes(c, refused("params"))
  BY Zenon DEF Begin, k
<1>6. Honest(World, refused("no_tool")) /\ Honest(World, refused("params"))
  BY <1>3
<1> HIDE DEF n, refused
<1> QED
  BY <1>1, <1>4, <1>5, <1>6, SameHonest

\* Where a new note is to be, none of the documents is that were there.
LEMMA CheckNewHonest ==
    ASSUME Inv, Honesty, NEW c \in Callers, CheckNew(c) PROVE Honesty'
<1> DEFINE k == call[c]
           r == Req(c)
           d == NewNote(r)
           n == [k EXCEPT !.at = "put", !.path = NewPath(r), !.doc = d.body]
<1>1. k.at = "check" /\ r.tool \in Creating
  BY DEF CheckNew, At, Uses
<1>2. /\ DOMAIN k = Fields /\ Kind(k) /\ Free(World, k) /\ r = k.req
      /\ k.alone => Undivided(World, k)
  BY <1>1, HonestCall
<1>3. \/ Fail(c, "io") \/ Fail(c, "exists")
      \/ d.err # "none" /\ Fail(c, d.err)
      \/ ~FileExists(NewPath(r)) /\ UNCHANGED vault /\ Becomes(c, n)
  BY Zenon DEF CheckNew
<1>4. d.err # "yaml"
  BY DEF NewNote, Template, Refusal, Answer
<1>5. ASSUME ~FileExists(NewPath(r)), UNCHANGED vault, Becomes(c, n) PROVE Honesty'
  <2> DEFINE at == Locate(World, NewPath(r))
  <2>1. at \notin {Found(p) : p \in DOMAIN disk}
    <3>1. ~(at.err = "none" /\ at.path \in DOMAIN disk)
      BY <1>5 DEF FileExists, FileAt
    <3> HIDE DEF at
    <3> QED
      BY <3>1 DEF Found
  <2>2. /\ n.at = "put" /\ n.path = NewPath(r) /\ n.req = r /\ n.kept = k.kept
        /\ n.alone = k.alone /\ n.grown = k.grown
    BY <1>2 DEF Fields
  <2>3. DOMAIN k.kept \subseteq DOMAIN disk
    BY <1>1, <1>2, WorldsAre DEF Free, Untouched
  <2>4. at \notin {Found(p) : p \in DOMAIN n.kept}
    BY <2>1, <2>2, <2>3
  <2>5. Becomes(c, n)
    BY <1>5
  <2> HIDE DEF n
  <2>6. Kind(n)
    BY <1>1, <2>2 DEF Kind, Writing
  <2>7. n.alone => Undivided(World, n)
    BY <1>1, <1>2, <2>2 DEF Undivided, Untouched
  <2>8. Free(World, n)
    BY <1>1, <2>2, <2>3, <2>4, WorldsAre DEF Free, Untouched
  <2>9. Honest(World, n)
    BY <2>6, <2>7, <2>8 DEF Honest
  <2> QED
    BY <1>5, <2>5, <2>9, SameHonest
<1> HIDE DEF d, n
<1>6. call[c].at \in Untouched
  BY <1>1 DEF Untouched
<1> QED
  BY <1>3, <1>4, <1>5, <1>6, FailHonest

\* What is read is not changed.
LEMMA LoadHonest == ASSUME Inv, Honesty, NEW c \in Callers, Load(c) PROVE Honesty'
<1> DEFINE k == call[c]
           old == ReadFile(World, Req(c).path)
           new == Changed(Req(c), old.body)
           n == [k EXCEPT !.at = "put", !.path = Req(c).path, !.doc = new]
<1>1. k.at = "load"
  BY DEF Load, At
<1>2. /\ DOMAIN k = Fields /\ GoodCall(setup, k) /\ Kind(k) /\ Free(World, k) /\ Req(c) = k.req
      /\ k.alone => Undivided(World, k)
      /\ Sound
  BY <1>1, HonestCall
<1>3. Loading(k.req) /\ WellTyped(k.req) /\ k.req.tool \notin Creating
      /\ k.req.tool \in Writing \cap Editing
  <2>1. Loading(k.req) /\ WellTyped(k.req)
    BY <1>1, <1>2 DEF GoodCall, Fits
  <2> QED
    BY <2>1 DEF Loading, Creating, Writing, Editing
<1>4. IsSeq(Req(c).path)
  BY <1>2, <1>3, PathIsSeq DEF WellTyped
<1>5. old.err \in Reasons
  BY <1>2, <1>4, LocateFails
<1>6. \/ old.err # "none" /\ Fail(c, old.err)
      \/ Fail(c, "target")
      \/ UNCHANGED vault /\ Becomes(c, n)
  BY Zenon DEF Load, LoadFrom, Rewrite
<1>7. ASSUME UNCHANGED vault, Becomes(c, n) PROVE Honesty'
  <2>1. /\ n.at = "put" /\ n.req = k.req /\ n.kept = k.kept /\ n.alone = k.alone
    BY <1>2 DEF Fields
  <2>2. Becomes(c, n)
    BY <1>7
  <2> HIDE DEF n
  <2>3. Kind(n)
    BY <1>3, <2>1 DEF Kind
  <2>4. n.alone => Undivided(World, n)
    BY <1>1, <1>2, <2>1 DEF Undivided, Untouched
  <2>5. Free(World, n)
    BY <1>1, <1>2, <1>3, <2>1 DEF Free, Untouched
  <2>6. Honest(World, n)
    BY <2>3, <2>4, <2>5 DEF Honest
  <2> QED
    BY <1>7, <2>2, <2>6, SameHonest
<1>8. k.at \in Untouched
  BY <1>1 DEF Untouched
<1> HIDE DEF old, n
<1> QED
  BY <1>5, <1>6, <1>7, <1>8, FailHonest DEF Reasons

\* A document is written where the path is found or where nothing is.
LEMMA PutHonest == ASSUME Inv, Inv', Honesty, NEW c \in Callers, Put(c) PROVE Honesty'
<1> DEFINE k == call[c]
           raw == Target(c)
           r == ResolveForWrite(Tree(World), raw)
           q == r.path
           n == [k EXCEPT !.at = "reindex", !.path = q]
<1>1. k.at = "put"
  BY DEF Put, At
<1>2. /\ DOMAIN k = Fields /\ Kind(k) /\ Free(World, k) /\ Req(c) = k.req
      /\ k.alone => Undivided(World, k)
      /\ Sound /\ Tidy(World) /\ IsVault(Tree(World))
  BY <1>1, HonestCall
<1>3. IsSeq(raw) /\ k.req.tool \in Writing
  BY <1>1, <1>2, WrittenIs DEF Kind
<1>4. r.err \in Reasons
  BY <1>2, <1>3, LocateFails
<1>5. \/ r.err # "none" /\ Fail(c, r.err)
      \/ Fail(c, "io")
      \/ /\ r.err = "none" /\ q \notin dirs
         /\ \E d : disk' = With(disk, q, d)
         /\ dirs' = dirs \cup Parents(q) /\ UNCHANGED <<links, meta, excluded>> /\ Becomes(c, n)
  BY Zenon DEF Put, PutAt
<1>6. ASSUME r.err = "none", q \notin dirs, \E d : disk' = With(disk, q, d),
             dirs' = dirs \cup Parents(q), UNCHANGED <<links, meta, excluded>>, Becomes(c, n)
      PROVE  Honesty'
  <2> DEFINE tree == Tree(World)
             next == Tree(World')
  <2>1. /\ tree.files = DOMAIN disk /\ tree.dirs = dirs /\ tree.links = links
        /\ next.files = DOMAIN disk' /\ next.dirs = dirs' /\ next.links = links'
    BY WorldsAre
  <2>2. Writable(tree, q) /\ (q \in Nodes(tree) => ResolveExisting(tree, raw) = Found(q))
    BY <1>2, <1>3, <1>6, WritePlace
  <2>3. Locate(World, raw) = ResolveExisting(tree, raw) /\ Locate(World', q) = ResolveExisting(next, q)
    BY DEF Locate
  <2>4. IsVault(tree)
    BY <1>2
  <2>5. /\ n.at = "reindex" /\ n.path = q /\ n.req = k.req /\ n.kept = k.kept
        /\ n.alone = k.alone /\ n.grown = k.grown
    BY <1>2 DEF Fields
  <2>6. Becomes(c, n)
    BY <1>6
  <2> HIDE DEF tree, next, n, q, r
  <2>7. DOMAIN disk' = DOMAIN disk \cup {q} /\ IsMap(disk')
    BY <1>6 DEF With, IsMap
  <2>8. IsVault(next) /\ ResolveExisting(next, q) = Found(q)
    BY <1>6, <2>1, <2>2, <2>4, <2>7, PutVault
  <2>9. Tidy(World')
    BY <1>2, <1>6, <2>7, <2>8, WorldsAre DEF Tidy, next
  <2>10. Kind(n)
    BY <1>3, <2>5 DEF Kind
  <2>11. Undivided(World', n)
    BY <2>3, <2>5, <2>7, <2>8, WorldsAre DEF Undivided, Untouched
  <2>12. ASSUME k.req.tool \in Creating, k.grown, q \in DOMAIN k.kept PROVE FALSE
    <3>1. DOMAIN k.kept \subseteq DOMAIN disk
      BY <1>1, <1>2, WorldsAre DEF Free, Untouched
    <3>2. Locate(World, raw) = Found(q)
      BY <2>1, <2>2, <2>3, <2>12, <3>1 DEF Nodes
    <3>3. raw = k.path
      BY <1>2, <2>12 DEF Target, Uses
    <3> HIDE DEF raw, k
    <3>4. Locate(World, k.path) # Found(q)
      BY <1>1, <1>2, <2>12 DEF Free
    <3> QED
      BY <3>2, <3>3, <3>4
  <2>13. Free(World', n)
    BY <1>3, <2>5, <2>12 DEF Free, Untouched, Writing, Creating
  <2>14. Honest(World', n)
    BY <2>10, <2>11, <2>13 DEF Honest
  <2> QED
    BY <2>6, <2>9, <2>14, StepHonest
<1>7. k.at \in Untouched
  BY <1>1 DEF Untouched
<1> HIDE DEF r, q, n
<1> QED
  BY <1>4, <1>5, <1>6, <1>7, FailHonest DEF Reasons

\* The index has the path as it says, where nobody interfered.
LEMMA AnswerHonest ==
    ASSUME Inv, Honesty, NEW c \in Callers, NEW r, Reply(c, r),
           call[c].at \in {"reindex", "unindex", "relink"},
           Tidy(World'), dirs' = dirs, links' = links, disk' = disk,
           r.err \in {"none", "yaml"},
           call[c].alone /\ r.err = "none" /\ call[c].path \notin dirs =>
              /\ InTables(World', call[c].path)
              /\ call[c].req.tool = "note_move" => InTables(World', call[c].doc),
           call[c].alone /\ r.err = "yaml" =>
              (IF call[c].req.tool = "note_move" THEN call[c].doc ELSE call[c].path) \notin DOMAIN meta'
    PROVE  Honesty'
<1> DEFINE k == call[c]
           n == [k EXCEPT !.at = "done", !.reply = r]
<1>1. /\ DOMAIN k = Fields /\ Kind(k) /\ Free(World, k)
  BY HonestCall
<1>2. Becomes(c, n)
  BY Zenon DEF Reply
<1>3. /\ n.at = "done" /\ n.reply = r /\ n.req = k.req /\ n.path = k.path /\ n.doc = k.doc
      /\ n.kept = k.kept /\ n.alone = k.alone /\ n.grown = k.grown
  BY <1>1 DEF Fields
<1> HIDE DEF n
<1>4. Kind(n)
  BY <1>3 DEF Kind
<1>5. n.alone => Told(World', n)
  BY <1>3, WorldsAre DEF Told
<1>6. n.alone => Undivided(World', n)
  BY <1>3, <1>5 DEF Undivided, Untouched
<1>7. Free(World', n)
  <2>1. k.req.tool = "note_move" => k.at = "relink"
    BY <1>1 DEF Kind, Writing, Creating
  <2>2. k.req.tool \in Creating => k.at = "reindex"
    BY <1>1 DEF Kind, Creating
  <2> QED
    BY <1>1, <1>3, <2>1, <2>2 DEF Free, Untouched
<1>8. Honest(World', n)
  BY <1>4, <1>6, <1>7 DEF Honest
<1> QED
  BY <1>2, <1>8, StepHonest

\* The tables keep what is excluded apart, and their files are the vault's.
LEMMA TidyTables ==
    ASSUME Tidy(World), dirs' = dirs, links' = links, disk' = disk,
           \A p \in excluded' : p \in excluded \/ IsExcluded(Excluded, p)
    PROVE  Tidy(World')
<1>1. Tree(World') = Tree(World)
  BY WorldsAre DEF Tree
<1> QED
  BY <1>1, WorldsAre DEF Tidy

\* The index takes up what was written.
LEMMA ReindexHonest == ASSUME Inv, Honesty, NEW c \in Callers, Reindex(c) PROVE Honesty'
<1> DEFINE k == call[c]
           r == Locate(World, k.path)
           p == r.path
<1>1. k.at = "reindex"
  BY DEF Reindex, At
<1>2. /\ DOMAIN k = Fields /\ Kind(k) /\ Free(World, k) /\ k.req.tool # "note_move"
      /\ k.alone => k.path \in DOMAIN disk /\ r = Found(k.path)
      /\ Tidy(World)
  <2>1. /\ DOMAIN k = Fields /\ Kind(k) /\ Free(World, k) /\ Tidy(World)
        /\ k.alone => Undivided(World, k)
    BY <1>1, HonestCall
  <2> QED
    BY <1>1, <2>1, WorldsAre DEF Undivided, Kind, Writing, Creating
<1>3. k.alone => r.err = "none" /\ p = k.path
  BY <1>2 DEF Found
<1>4. \/ r.err # "none" /\ Fail(c, r.err)
      \/ /\ IsExcluded(Excluded, p) /\ meta' = Forgotten({p}) /\ excluded' = excluded \cup {p}
         /\ UNCHANGED <<disk, dirs, links>> /\ Reply(c, Answer(k.path))
      \/ /\ ~IsExcluded(Excluded, p) /\ excluded' = excluded \ {p}
         /\ UNCHANGED <<disk, dirs, links>>
         /\ \/ meta' = With(Forgotten({p}), p, disk[p]) /\ Reply(c, Answer(k.path))
            \/ meta' = Forgotten({p}) /\ Reply(c, Refusal("yaml"))
  BY Zenon DEF Reindex, ReindexAt, IndexNote, Done
<1> HIDE DEF r, p
<1>5. DOMAIN Forgotten({p}) = DOMAIN meta \ {p}
  BY DEF Forgotten, Restrict
<1>6. Answer(k.path).err = "none" /\ Refusal("yaml").err = "yaml"
  BY DEF Answer, Refusal
<1>7. ASSUME r.err # "none", Fail(c, r.err) PROVE Honesty'
  <2> DEFINE n == [k EXCEPT !.at = "done", !.reply = Refusal(r.err)]
  <2>1. Becomes(c, n) /\ UNCHANGED vault
    BY <1>7, Zenon DEF Fail, Reply
  <2>2. /\ n.at = "done" /\ n.reply = Refusal(r.err) /\ n.req = k.req
        /\ n.kept = k.kept /\ n.alone = k.alone
    BY <1>2 DEF Fields
  <2>3. ~n.alone /\ n.reply.err # "none"
    BY <1>3, <1>7, <2>2 DEF Refusal
  <2> HIDE DEF n
  <2>4. Kind(n) /\ Free(World, n)
    BY <2>2, <2>3 DEF Kind, Free, Untouched
  <2>5. Honest(World, n)
    BY <2>3, <2>4 DEF Honest
  <2> QED
    BY <2>1, <2>5, SameHonest
<1>8. ASSUME IsExcluded(Excluded, p), meta' = Forgotten({p}), excluded' = excluded \cup {p},
             UNCHANGED <<disk, dirs, links>>, Reply(c, Answer(k.path))
      PROVE  Honesty'
  <2>1. Tidy(World')
    BY <1>2, <1>8, TidyTables
  <2>2. k.alone => InTables(World', k.path)
    BY <1>2, <1>3, <1>5, <1>8, WorldsAre DEF InTables
  <2> QED
    BY <1>1, <1>2, <1>6, <1>8, <2>1, <2>2, AnswerHonest
<1>9. ASSUME ~IsExcluded(Excluded, p), excluded' = excluded \ {p}, UNCHANGED <<disk, dirs, links>>,
             \/ meta' = With(Forgotten({p}), p, disk[p]) /\ Reply(c, Answer(k.path))
             \/ meta' = Forgotten({p}) /\ Reply(c, Refusal("yaml"))
      PROVE  Honesty'
  <2>1. Tidy(World')
    BY <1>2, <1>9, TidyTables
  <2>2. ASSUME meta' = With(Forgotten({p}), p, disk[p]), Reply(c, Answer(k.path)) PROVE Honesty'
    <3>1. p \in DOMAIN meta' /\ meta'[p] = disk[p]
      BY <2>2 DEF With
    <3>2. k.alone => InTables(World', k.path)
      BY <1>2, <1>3, <1>9, <3>1, WorldsAre DEF InTables
    <3> QED
      BY <1>1, <1>2, <1>6, <1>9, <2>1, <2>2, <3>2, AnswerHonest
  <2>3. ASSUME meta' = Forgotten({p}), Reply(c, Refusal("yaml")) PROVE Honesty'
    <3>1. k.alone => k.path \notin DOMAIN meta'
      BY <1>3, <1>5, <2>3
    <3> QED
      BY <1>1, <1>2, <1>6, <1>9, <2>1, <2>3, <3>1, AnswerHonest
  <2> QED
    BY <1>9, <2>2, <2>3
<1> QED
  BY <1>4, <1>7, <1>8, <1>9

\* A file or an empty directory goes, and its path with it.
LEMMA UnlinkHonest == ASSUME Inv, Honesty, NEW c \in Callers, Unlink(c) PROVE Honesty'
<1> DEFINE k == call[c]
           r == Locate(World, Req(c).path)
           x == r.path
           n == [k EXCEPT !.at = "unindex", !.path = x]
<1>1. k.at = "unlink"
  BY DEF Unlink, At
<1>2. /\ DOMAIN k = Fields /\ Kind(k) /\ Free(World, k) /\ Req(c) = k.req
      /\ Sound /\ Tidy(World) /\ IsVault(Tree(World)) /\ k.req.tool = "note_delete"
      /\ k.alone => Undivided(World, k)
  BY <1>1, HonestCall DEF Kind
<1>3. IsSeq(Req(c).path)
  <2>1. WellTyped(k.req)
    BY <1>1, <1>2, AtChange DEF Changing
  <2> QED
    BY <1>2, <2>1, PathIsSeq DEF WellTyped, Editing
<1>4. r.err \in Reasons
  BY <1>2, <1>3, LocateFails
<1>5. \/ r.err # "none" /\ Fail(c, r.err)
      \/ Fail(c, "io")
      \/ /\ r.err = "none" /\ ~(x \in dirs /\ (x = <<>> \/ Within(x) # {}))
         /\ disk' = Restrict(disk, DOMAIN disk \ {x}) /\ dirs' = dirs \ {x}
         /\ UNCHANGED <<links, meta, excluded>> /\ Becomes(c, n)
  BY Zenon DEF Unlink, UnlinkAt
<1>6. ASSUME r.err = "none", ~(x \in dirs /\ (x = <<>> \/ Within(x) # {})),
             disk' = Restrict(disk, DOMAIN disk \ {x}), dirs' = dirs \ {x},
             UNCHANGED <<links, meta, excluded>>, Becomes(c, n)
      PROVE  Honesty'
  <2> DEFINE tree == Tree(World)
             next == Tree(World')
  <2>1. /\ tree.files = DOMAIN disk /\ tree.dirs = dirs /\ tree.links = links
        /\ next.files = DOMAIN disk' /\ next.dirs = dirs' /\ next.links = links'
    BY WorldsAre
  <2>2. IsVault(tree) /\ IsTree(tree) /\ <<>> \in dirs
    BY <1>2 DEF IsVault, Sound
  <2>3. r = ResolveExisting(tree, Req(c).path)
    BY DEF Locate
  <2>4. x \in Nodes(tree)
    BY <1>3, <1>6, <2>2, <2>3, ResolvedIsThere
  <2>5. x # <<>> /\ x \notin links
    <3>1. x # <<>>
      BY <1>6, <2>2
    <3>2. r.err = "none" => r \in {Found(y) : y \in Nodes(tree)}
      <4> DEFINE s == NormalizeRelative(Req(c).path)
                 w == Walk(tree, s.path)
      <4>1. s.path \in Seq(Range(Req(c).path))
        BY <1>3, NormalizedIs DEF Normalized
      <4>2. IsSeq(s.path) /\ Len(s.path) \in 0..Len(s.path)
        BY <4>1, SeqIsSeq, IsSeqLen
      <4>3. w[Len(s.path)] \in Results(tree)
        BY <2>2, <4>2, WalkFinds
      <4>4. r = IF s.err # "none" THEN s ELSE w[Len(s.path)]
        BY <2>3 DEF ResolveExisting, Existing
      <4> HIDE DEF r, s, w
      <4> QED
        BY <4>3, <4>4 DEF Results, Found
    <3> DEFINE s == NormalizeRelative(Req(c).path)
               w == Walk(tree, s.path)
               m == Len(s.path)
    <3> HIDE DEF r
    <3>3. r = Found(x)
      <4>1. PICK y \in Nodes(tree) : r = Found(y)
        BY <1>6, <3>2
      <4>2. Found(y).path = y
        BY DEF Found
      <4> QED
        BY <4>1, <4>2
    <3>4. m \in Nat /\ w[m] = Found(x) /\ Trail(tree, w, m)
      BY <1>3, <2>2, <2>3, <3>3, FoundByWalk
    <3> HIDE DEF w, m
    <3>5. w[m].path = x
      BY <3>4 DEF Found
    <3>6. IsSeq(x) /\ Len(x) = m /\ \A i \in 1..m : SubSeq(x, 1, i) \notin links
      BY <2>1, <3>4, <3>5 DEF Trail
    <3>7. m \in 1..m /\ SubSeq(x, 1, m) = x
      BY <3>1, <3>4, <3>6, IsSeqLen, EndsOfPrefix
    <3> QED
      BY <3>1, <3>6, <3>7
  <2>6. ASSUME NEW p \in Nodes(tree), x \in Parents(p) PROVE FALSE
    <3>1. x \in dirs /\ IsSeq(p) /\ IsSeq(x)
      BY <2>1, <2>2, <2>4, <2>6 DEF IsVault, IsTree
    <3>2. p \in Within(x)
      BY <2>6, <3>1, BelowIs DEF Within
    <3> QED
      BY <1>6, <3>1, <3>2
  <2>7. DOMAIN disk' = DOMAIN disk \ {x} /\ IsMap(disk')
    BY <1>6 DEF Restrict, IsMap
  <2>8. /\ n.at = "unindex" /\ n.path = x /\ n.req = k.req /\ n.alone = k.alone
    BY <1>2 DEF Fields
  <2>9. Becomes(c, n)
    BY <1>6
  <2> HIDE DEF tree, next, n, x, r
  <2>10. IsVault(next)
    BY <1>6, <2>1, <2>2, <2>5, <2>6, <2>7, WithoutLeaf
  <2>11. Tidy(World')
    BY <1>2, <1>6, <2>7, <2>10, WorldsAre DEF Tidy, next
  <2>12. Kind(n)
    BY <1>2, <2>8 DEF Kind
  <2>13. Undivided(World', n)
    BY <2>7, <2>8, WorldsAre DEF Undivided, Untouched
  <2>14. Free(World', n)
    BY <1>2, <2>8 DEF Free, Untouched, Creating
  <2>15. Honest(World', n)
    BY <2>12, <2>13, <2>14 DEF Honest
  <2> QED
    BY <2>9, <2>11, <2>15, StepHonest
<1>7. k.at \in Untouched
  BY <1>1 DEF Untouched
<1> HIDE DEF r, x, n
<1> QED
  BY <1>4, <1>5, <1>6, <1>7, FailHonest DEF Reasons

\* The index has it no more.
LEMMA UnindexHonest == ASSUME Inv, Honesty, NEW c \in Callers, Unindex(c) PROVE Honesty'
<1> DEFINE k == call[c]
<1>1. /\ k.at = "unindex" /\ meta' = Forgotten({k.path}) /\ excluded' = excluded \ {k.path}
      /\ UNCHANGED <<disk, dirs, links>> /\ Reply(c, Answer(k.path))
  BY DEF Unindex, At, Done
<1>2. /\ Tidy(World) /\ k.req.tool = "note_delete"
      /\ k.alone => k.path \notin DOMAIN disk
  <2>1. k.at # "idle"
    BY <1>1
  <2>2. Tidy(World) /\ Kind(k) /\ (k.alone => Undivided(World, k))
    BY <2>1, HonestCall
  <2> QED
    BY <1>1, <2>2, WorldsAre DEF Undivided, Kind
<1>3. Tidy(World')
  BY <1>1, <1>2, TidyTables
<1>4. DOMAIN meta' = DOMAIN meta \ {k.path}
  BY <1>1 DEF Forgotten, Restrict
<1>5. k.alone => InTables(World', k.path)
  BY <1>1, <1>2, <1>4, WorldsAre DEF InTables
<1>6. Answer(k.path).err = "none"
  BY DEF Answer
<1> QED
  BY <1>1, <1>2, <1>3, <1>5, <1>6, AnswerHonest

\* What is moved is there, and nothing is where it goes.
LEMMA CheckMoveHonest == ASSUME Inv, Honesty, NEW c \in Callers, CheckMove(c) PROVE Honesty'
<1> DEFINE k == call[c]
           from == Locate(World, Req(c).path)
           to == ResolveForWrite(Tree(World), Req(c).to)
           n == [k EXCEPT !.at = "rename", !.doc = from.path, !.path = to.path]
<1>1. k.at = "check" /\ Req(c).tool = "note_move"
  BY DEF CheckMove, At, Uses
<1>2. /\ DOMAIN k = Fields /\ Kind(k) /\ Free(World, k) /\ Req(c) = k.req
      /\ k.alone => Undivided(World, k)
      /\ Sound /\ IsVault(Tree(World))
  BY <1>1, HonestCall
<1>3. IsSeq(Req(c).path) /\ IsSeq(Req(c).to)
  <2>1. WellTyped(Req(c))
    BY <1>1, AtChange DEF Changing
  <2> QED
    BY <1>1, <2>1, PathIsSeq DEF WellTyped, Editing
<1>4. from.err \in Reasons /\ to.err \in Reasons
  BY <1>2, <1>3, LocateFails
<1>5. \/ from.err # "none" /\ Fail(c, from.err)
      \/ to.err # "none" /\ Fail(c, to.err)
      \/ Fail(c, "exists")
      \/ /\ from.err = "none" /\ to.err = "none" /\ to.path \notin Nodes(Tree(World))
         /\ UNCHANGED vault /\ Becomes(c, n)
  BY Zenon DEF CheckMove, CheckMoveAt
<1>6. ASSUME from.err = "none", to.err = "none", to.path \notin Nodes(Tree(World)),
             UNCHANGED vault, Becomes(c, n)
      PROVE  Honesty'
  <2> DEFINE tree == Tree(World)
             doc == from.path
             q == to.path
  <2>1. from = ResolveExisting(tree, Req(c).path)
    BY DEF Locate
  <2>2. IsVault(tree) /\ IsTree(tree)
    BY <1>2 DEF IsVault
  <2>3. doc \in Nodes(tree)
    BY <1>3, <1>6, <2>1, <2>2, ResolvedIsThere
  <2>4. Plain(q) /\ q \notin Nodes(tree)
    BY <1>3, <1>6, <2>2, WritePlace DEF Writable
  <2>5. /\ n.at = "rename" /\ n.path = q /\ n.doc = doc /\ n.req = k.req /\ n.kept = k.kept
        /\ n.alone = k.alone
    BY <1>2 DEF Fields
  <2>6. Becomes(c, n)
    BY <1>6
  <2>7. DOMAIN disk \subseteq Nodes(tree)
    BY WorldsAre DEF Nodes
  <2> HIDE DEF n, q, doc, tree
  <2>8. Kind(n)
    BY <1>1, <1>2, <2>4, <2>5 DEF Kind
  <2>9. n.alone => Undivided(World, n)
    BY <1>1, <1>2, <2>5 DEF Undivided, Untouched
  <2>10. DOMAIN k.kept \subseteq DOMAIN disk
    BY <1>1, <1>2, WorldsAre DEF Free, Untouched
  <2>11. Free(World, n)
    BY <1>1, <1>2, <2>3, <2>4, <2>5, <2>7, <2>10, WorldsAre DEF Free, Creating
  <2>12. Honest(World, n)
    BY <2>8, <2>9, <2>11 DEF Honest
  <2> QED
    BY <1>6, <2>6, <2>12, SameHonest
<1>7. k.at \in Untouched
  BY <1>1 DEF Untouched
<1> HIDE DEF from, to, n
<1> QED
  BY <1>4, <1>5, <1>6, <1>7, FailHonest DEF Reasons

\* Afterwards it is where it was to go and no more where it was.
LEMMA RenameHonest == ASSUME Inv, Honesty, NEW c \in Callers, Rename(c) PROVE Honesty'
<1> DEFINE k == call[c]
           from == From(c)
           to == k.path
           branch == {from} \cup Within(from)
           moved(p) == to \o SubSeq(p, Len(from) + 1, Len(p))
           files == DOMAIN disk \cap branch
           n == [k EXCEPT !.at = "relink"]
           m == [k EXCEPT !.at = "done", !.reply = Refusal("io")]
           tree == Tree(World)
           next == Tree(World')
<1>1. k.at = "rename"
  BY DEF Rename, At
<1>2. /\ DOMAIN k = Fields /\ Kind(k) /\ Free(World, k)
      /\ k.alone => Undivided(World, k)
      /\ GoodCall(setup, k) /\ Sound /\ Tidy(World) /\ IsVault(tree)
  BY <1>1, HonestCall
<1>3. IsSeq(to) /\ Plain(to) /\ k.req.tool = "note_move" /\ from = k.doc
  <2>1. IsSeq(k.path)
    BY <1>1, <1>2 DEF GoodCall, Ready
  <2>2. Plain(k.path) /\ k.req.tool = "note_move"
    BY <1>1, <1>2 DEF Kind
  <2> QED
    BY <2>1, <2>2 DEF From
<1>4. from # to /\ to \notin DOMAIN k.kept /\ (k.alone => k.kept = disk)
  <2>1. k.doc # k.path /\ k.path \notin DOMAIN k.kept
    BY <1>1, <1>2 DEF Free
  <2>2. k.alone => k.kept = disk
    BY <1>1, <1>2, WorldsAre DEF Undivided, Untouched
  <2> QED
    BY <1>3, <2>1, <2>2
<1>5. \/ Fail(c, "io")
      \/ /\ Parents(to) \cap DOMAIN disk = {} /\ dirs' = dirs \cup Parents(to)
         /\ UNCHANGED <<disk, links, meta, excluded>> /\ Reply(c, Refusal("io"))
      \/ /\ Parents(to) \cap DOMAIN disk = {} /\ ~RenameFails(from, to)
         /\ disk' = [q \in {moved(p) : p \in files} \cup (DOMAIN disk \ branch) |->
                        IF \E p \in files : moved(p) = q
                        THEN disk[CHOOSE p \in files : moved(p) = q] ELSE disk[q]]
         /\ dirs' = (dirs \ branch) \cup Parents(to) \cup {moved(p) : p \in dirs \cap branch}
         /\ links' = (links \ branch) \cup {moved(p) : p \in links \cap branch}
         /\ UNCHANGED <<meta, excluded>>
         /\ Becomes(c, n)
  BY Zenon DEF Rename
<1>6. /\ tree.files = DOMAIN disk /\ tree.dirs = dirs /\ tree.links = links
      /\ next.files = DOMAIN disk' /\ next.dirs = dirs' /\ next.links = links'
  BY WorldsAre
<1>7. ASSUME Parents(to) \cap DOMAIN disk = {}, dirs' = dirs \cup Parents(to),
             UNCHANGED <<disk, links, meta, excluded>>, Reply(c, Refusal("io"))
      PROVE  Honesty'
  <2>1. Becomes(c, m)
    BY <1>7, Zenon DEF Reply
  <2>2. /\ m.at = "done" /\ m.reply = Refusal("io") /\ m.req = k.req
        /\ m.kept = k.kept /\ m.alone = k.alone
    BY <1>2 DEF Fields
  <2>3. m.reply.err = "io"
    BY <2>2 DEF Refusal
  <2> HIDE DEF m, tree, next, to
  <2>4. IsVault(next)
    BY <1>2, <1>3, <1>6, <1>7, WithParents
  <2>5. Tidy(World')
    BY <1>2, <1>7, <2>4, WorldsAre DEF Tidy, next
  <2>6. Kind(m)
    BY <2>2 DEF Kind
  <2>7. m.alone => Undivided(World', m)
    BY <1>4, <1>7, <2>2, <2>3, WorldsAre DEF Undivided, Told, Untouched
  <2>8. Free(World', m)
    BY <2>2, <2>3 DEF Free, Untouched
  <2>9. Honest(World', m)
    BY <2>6, <2>7, <2>8 DEF Honest
  <2> QED
    BY <2>1, <2>5, <2>9, StepHonest
<1>8. ASSUME Parents(to) \cap DOMAIN disk = {}, ~RenameFails(from, to),
             disk' = [q \in {moved(p) : p \in files} \cup (DOMAIN disk \ branch) |->
                        IF \E p \in files : moved(p) = q
                        THEN disk[CHOOSE p \in files : moved(p) = q] ELSE disk[q]],
             dirs' = (dirs \ branch) \cup Parents(to) \cup {moved(p) : p \in dirs \cap branch},
             links' = (links \ branch) \cup {moved(p) : p \in links \cap branch},
             UNCHANGED <<meta, excluded>>, Becomes(c, n)
      PROVE  Honesty'
  <2>1. /\ from \in Nodes(tree)
        /\ from \in tree.dirs => from # <<>> /\ to \notin tree.files
        /\ to \in tree.dirs => /\ from \in tree.dirs /\ to \notin tree.links
                               /\ ~IsStrictPrefix(from, to)
                               /\ \A q \in Nodes(tree) : ~IsStrictPrefix(to, q)
    BY <1>6, <1>8 DEF RenameFails, Vacant, Within
  <2>2. <<>> \in tree.dirs /\ from # <<>>
    BY <1>2, <1>6, <2>1 DEF Sound, IsVault, Nodes
  <2>3. DOMAIN disk' = {moved(p) : p \in files} \cup (DOMAIN disk \ branch)
    BY <1>8
  <2>4. IsMap(disk')
    BY <1>8 DEF IsMap
  <2>5. branch = Branch(tree, from)
    BY DEF Branch, Within
  <2>6. \A p : moved(p) = Moved(from, to, p)
    BY DEF Moved
  <2> HIDE DEF branch, moved, tree, next, from, to
  <2>7. next.files = Renamed(tree, from, to, tree.files)
    BY <1>6, <2>3, <2>5, <2>6 DEF Renamed
  <2>8. next.dirs = Renamed(tree, from, to, tree.dirs) \cup Parents(to)
    BY <1>6, <1>8, <2>5, <2>6 DEF Renamed
  <2>9. next.links = Renamed(tree, from, to, tree.links)
    BY <1>6, <1>8, <2>5, <2>6 DEF Renamed
  <2>10. IsVault(next) /\ from \notin next.files /\ to \in Nodes(next)
    <3>1. CASE to \notin tree.dirs
      BY <1>2, <1>3, <1>4, <1>6, <1>8, <2>1, <2>2, <2>7, <2>8, <2>9, <3>1, MoveVault
    <3>2. CASE to \in tree.dirs
      BY <1>2, <1>3, <1>4, <1>6, <1>8, <2>1, <2>2, <2>7, <2>8, <2>9, <3>2, ReplaceVault
    <3> QED
      BY <3>1, <3>2
  <2>11. /\ n.at = "relink" /\ n.req = k.req /\ n.path = to /\ n.doc = from
         /\ n.kept = k.kept /\ n.alone = k.alone
    BY <1>2, <1>3 DEF Fields, to
  <2>12. Becomes(c, n)
    BY <1>8
  <2> HIDE DEF n
  <2>13. Tidy(World')
    BY <1>2, <1>8, <2>4, <2>10, WorldsAre DEF Tidy, next
  <2>14. Kind(n)
    BY <1>3, <2>11 DEF Kind
  <2>15. Undivided(World', n)
    BY <1>6, <2>10, <2>11, WorldsAre DEF Undivided, Untouched, next
  <2>16. Free(World', n)
    BY <1>3, <1>4, <2>11 DEF Free, Untouched, Creating
  <2>17. Honest(World', n)
    BY <2>14, <2>15, <2>16 DEF Honest
  <2> QED
    BY <2>12, <2>13, <2>17, StepHonest
<1>9. k.at \in Untouched
  BY <1>1 DEF Untouched
<1> HIDE DEF from, n, m, moved, branch, files
<1> QED
  BY <1>5, <1>7, <1>8, <1>9, FailHonest

\* The index follows.
LEMMA RelinkHonest == ASSUME Inv, Honesty, NEW c \in Callers, Relink(c) PROVE Honesty'
<1> DEFINE k == call[c]
           p == k.path
           q == k.doc
<1>1. k.at = "relink"
  BY DEF Relink, At
<1>2. /\ DOMAIN k = Fields /\ k.req.tool = "note_move" /\ p # q /\ Tidy(World)
      /\ k.alone => q \notin DOMAIN disk /\ (p \notin dirs => p \in DOMAIN disk)
  <2>1. /\ DOMAIN k = Fields /\ Kind(k) /\ Free(World, k) /\ Tidy(World)
        /\ k.alone => Undivided(World, k)
    BY <1>1, HonestCall
  <2>2. Nodes(Tree(World)) = DOMAIN disk \cup dirs
    BY WorldIs
  <2> QED
    BY <1>1, <2>1, <2>2, WorldsAre DEF Undivided, Kind, Free
<1>3. \/ /\ IsExcluded(Excluded, p) /\ meta' = Forgotten({q, p})
         /\ excluded' = (excluded \ {q}) \cup {p}
         /\ UNCHANGED <<disk, dirs, links>> /\ Reply(c, Answer(p))
      \/ /\ ~IsExcluded(Excluded, p) /\ excluded' = excluded \ {q}
         /\ UNCHANGED <<disk, dirs, links>>
         /\ \/ meta' = With(Forgotten({q}), p, disk[p]) /\ Reply(c, Answer(p))
            \/ meta' = Forgotten({q}) /\ Reply(c, Refusal("yaml"))
  BY Zenon DEF Relink, IndexNote, Done, From
<1>4. \A S : DOMAIN Forgotten(S) = DOMAIN meta \ S
  BY DEF Forgotten, Restrict
<1>5. Answer(p).err = "none" /\ Refusal("yaml").err = "yaml"
  BY DEF Answer, Refusal
<1>6. ASSUME IsExcluded(Excluded, p), meta' = Forgotten({q, p}),
             excluded' = (excluded \ {q}) \cup {p},
             UNCHANGED <<disk, dirs, links>>, Reply(c, Answer(p))
      PROVE  Honesty'
  <2>1. Tidy(World')
    BY <1>2, <1>6, TidyTables
  <2>2. DOMAIN meta' = DOMAIN meta \ {q, p}
    BY <1>4, <1>6
  <2>3. k.alone /\ p \notin dirs => InTables(World', p) /\ InTables(World', q)
    BY <1>2, <1>6, <2>2, WorldsAre DEF InTables
  <2> QED
    BY <1>1, <1>2, <1>5, <1>6, <2>1, <2>3, AnswerHonest
<1>7. ASSUME ~IsExcluded(Excluded, p), excluded' = excluded \ {q}, UNCHANGED <<disk, dirs, links>>,
             \/ meta' = With(Forgotten({q}), p, disk[p]) /\ Reply(c, Answer(p))
             \/ meta' = Forgotten({q}) /\ Reply(c, Refusal("yaml"))
      PROVE  Honesty'
  <2>1. Tidy(World')
    BY <1>2, <1>7, TidyTables
  <2>2. ASSUME meta' = With(Forgotten({q}), p, disk[p]), Reply(c, Answer(p)) PROVE Honesty'
    <3>1. DOMAIN meta' = (DOMAIN meta \ {q}) \cup {p} /\ meta'[p] = disk[p]
      BY <1>4, <2>2 DEF With
    <3>2. p \notin excluded
      BY <1>2, <1>7, WorldsAre DEF Tidy
    <3>3. k.alone /\ p \notin dirs => InTables(World', p) /\ InTables(World', q)
      BY <1>2, <1>7, <3>1, <3>2, WorldsAre DEF InTables
    <3> QED
      BY <1>1, <1>2, <1>5, <1>7, <2>1, <2>2, <3>3, AnswerHonest
  <2>3. ASSUME meta' = Forgotten({q}), Reply(c, Refusal("yaml")) PROVE Honesty'
    <3>1. DOMAIN meta' = DOMAIN meta \ {q}
      BY <1>4, <2>3
    <3>2. q \notin DOMAIN meta'
      BY <3>1
    <3> QED
      BY <1>1, <1>2, <1>5, <1>7, <2>1, <2>3, <3>2, AnswerHonest
  <2> QED
    BY <1>7, <2>2, <2>3
<1> QED
  BY <1>3, <1>6, <1>7

\* A call that reads changes nothing that it would have to tell the truth about.
LEMMA ScanHonest ==
    ASSUME Inv, Honesty, NEW c \in Callers, call[c].at \in Scanning, UNCHANGED vault,
           NEW n, Becomes(c, n), n.at \in {"stat", "read"}, n.req = call[c].req,
           n.kept = call[c].kept, n.alone = call[c].alone
    PROVE  Honesty'
<1> DEFINE k == call[c]
<1>1. /\ Free(World, k)
      /\ k.alone => Undivided(World, k)
      /\ k.req.tool = "note_read_many"
  BY HonestCall, AtScan DEF Scanning
<1>2. k.at \in Untouched /\ n.at \in Untouched
  BY DEF Scanning, Untouched
<1>3. Kind(n)
  BY DEF Kind
<1>4. n.alone => Undivided(World, n)
  BY <1>1, <1>2 DEF Undivided
<1>5. Free(World, n)
  BY <1>1, <1>2 DEF Free, Creating
<1>6. Honest(World, n)
  BY <1>3, <1>4, <1>5 DEF Honest
<1> QED
  BY <1>6, SameHonest

\* It may answer anything,
LEMMA ScanAnswers ==
    ASSUME Inv, Honesty, NEW c \in Callers, call[c].at \in Scanning, UNCHANGED vault,
           NEW r, Reply(c, r)
    PROVE  Honesty'
<1>1. call[c].at \in Untouched
  BY DEF Scanning, Untouched
<1>2. call[c].req.tool \notin Edits
  BY AtScan DEF Edits, Editing
<1> QED
  BY <1>1, <1>2, ReplyHonest

\* or fail for any reason,
LEMMA ScanFails ==
    ASSUME Inv, Honesty, NEW c \in Callers, call[c].at \in Scanning, NEW why, Fail(c, why)
    PROVE  Honesty'
BY ScanAnswers DEF Fail

\* or go on with the next file,
LEMMA NextHonest ==
    ASSUME Inv, Honesty, NEW c \in Callers, call[c].at \in Scanning, NEW m, NextCandidate(c, m)
    PROVE  Honesty'
<1> DEFINE n == [call[c] EXCEPT !.at = "stat", !.doc = m]
<1>1. Becomes(c, n) /\ UNCHANGED vault
  BY Zenon DEF NextCandidate
<1>2. /\ n.at = "stat" /\ n.req = call[c].req /\ n.kept = call[c].kept /\ n.alone = call[c].alone
  BY AtScan DEF Fields
<1> HIDE DEF n
<1> QED
  BY <1>1, <1>2, ScanHonest

\* leaving one out.
LEMMA UnavailableHonest ==
    ASSUME Inv, Honesty, NEW c \in Callers, call[c].at \in Scanning, NEW m, NEW p, NEW why,
           Unavailable(c, m, p, why)
    PROVE  Honesty'
<1>1. (\E x : NextCandidate(c, x)) \/ Fail(c, why)
  BY Zenon DEF Unavailable
<1> QED
  BY <1>1, NextHonest, ScanFails

\* So each of its steps is honest.
LEMMA SelectHonest == ASSUME Inv, Honesty, NEW c \in Callers, Select(c) PROVE Honesty'
<1>1. call[c].at \in Scanning
  BY DEF Select, At, Scanning
<1>2. \/ \E why : Fail(c, why)
      \/ \E m : NextCandidate(c, m)
  BY Zenon DEF Select, SelectFrom, NextCandidate
<1> QED
  BY <1>1, <1>2, NextHonest, ScanFails

LEMMA StatHonest == ASSUME Inv, Honesty, NEW c \in Callers, Stat(c) PROVE Honesty'
<1> DEFINE m == call[c].doc
           r == Locate(World, Head(m.todo))
           n == [call[c] EXCEPT !.at = "read", !.path = r.path]
<1>1. call[c].at \in Scanning
  BY DEF Stat, At, Scanning
<1>2. \/ Unavailable(c, m, Head(m.todo), r.err)
      \/ NextCandidate(c, Skip(m, r.path, "byte_limit"))
      \/ UNCHANGED vault /\ Becomes(c, n)
  BY Zenon DEF Stat
<1>3. /\ n.at = "read" /\ n.req = call[c].req /\ n.kept = call[c].kept /\ n.alone = call[c].alone
  BY <1>1, AtScan DEF Fields
<1> HIDE DEF m, r, n
<1> QED
  BY <1>1, <1>2, <1>3, UnavailableHonest, NextHonest, ScanHonest

LEMMA ReadOneHonest == ASSUME Inv, Honesty, NEW c \in Callers, ReadOne(c) PROVE Honesty'
<1>1. call[c].at \in Scanning
  BY DEF ReadOne, At, Scanning
<1>2. \/ \E m, p, why : Unavailable(c, m, p, why)
      \/ \E m : NextCandidate(c, m)
  BY Zenon DEF ReadOne
<1> QED
  BY <1>1, <1>2, UnavailableHonest, NextHonest

LEMMA ConcludeHonest == ASSUME Inv, Honesty, NEW c \in Callers, Conclude(c) PROVE Honesty'
<1>1. call[c].at \in Scanning /\ UNCHANGED vault
  BY DEF Conclude, At, Scanning
<1>2. \E r : Reply(c, r)
  BY Zenon DEF Conclude
<1> QED
  BY <1>1, <1>2, ScanAnswers

LEMMA Read1Honest == ASSUME Inv, Honesty, NEW c \in Callers, Read1(c) PROVE Honesty'
<1>1. call[c].at = "answer" /\ UNCHANGED vault
  BY DEF Read1, At
<1>2. \E r : Reply(c, r)
  BY Zenon DEF Read1
<1>3. call[c].req.tool \notin Edits
  BY <1>1, HonestCall DEF GoodCall, Fits, Changing
<1>4. call[c].at \in Untouched
  BY <1>1 DEF Untouched
<1> QED
  BY <1>1, <1>2, <1>3, <1>4, ReplyHonest

\* What other programs save lies in the directories of the vault.
LEMMA EditHonest ==
    ASSUME Inv, Honesty, NEW e \in Setups[setup].edits, Edit(e) PROVE Honesty'
<1> DEFINE tree == Tree(World)
           next == Tree(World')
           p == e.path
<1>1. /\ UNCHANGED <<dirs, links, meta, excluded>> /\ p \notin dirs /\ Front(p) \in dirs
      /\ call' = [c \in Callers |-> Disturbed(call[c])]
      /\ disk' = IF e.doc = None THEN Restrict(disk, DOMAIN disk \ {p}) ELSE With(disk, p, e.doc)
  BY DEF Edit
<1>2. /\ tree.files = DOMAIN disk /\ tree.dirs = dirs /\ tree.links = links
      /\ next.files = DOMAIN disk' /\ next.dirs = dirs' /\ next.links = links'
  BY WorldsAre
<1>3. Tidy(World) /\ IsVault(tree) /\ <<>> \in dirs
  BY DEF Honesty, Tidy, Inv, Sound
<1>4. IsSeq(p) /\ Plain(p)
  BY SetupsAssumption, PathIsSeq DEF Inv, Sound, IsPlace, Plain
<1>5. IsMap(disk') /\ (DOMAIN disk' = DOMAIN disk \ {p} \/ DOMAIN disk' = DOMAIN disk \cup {p})
  <2>1. CASE e.doc = None
    BY <1>1, <2>1 DEF Restrict, IsMap
  <2>2. CASE e.doc # None
    BY <1>1, <2>2 DEF With, IsMap
  <2> QED
    BY <2>1, <2>2
<1> HIDE DEF tree, next, p
<1>6. p # <<>>
  BY <1>1, <1>3
<1>7. Parents(p) \subseteq tree.dirs
  <2>1. IsSeq(Front(p)) /\ Len(p) \in Nat \ {0} /\ Front(p) = SubSeq(p, 1, Len(p) - 1)
    BY <1>4, <1>6, IsSeqLen, FrontIsSeq DEF Front
  <2>2. Front(p) \in Nodes(tree)
    BY <1>1, <1>2 DEF Nodes
  <2>3. Parents(Front(p)) \subseteq tree.dirs
    BY <1>3, <2>2 DEF IsVault
  <2>4. ASSUME NEW y \in Parents(p) PROVE y \in tree.dirs
    <3>1. IsSeq(y) /\ Len(y) < Len(p) /\ y = SubSeq(p, 1, Len(y)) /\ Len(y) \in Nat
      BY <1>4, <2>4, ParentsAre, IsSeqLen
    <3>2. CASE Len(y) = Len(p) - 1
      BY <1>1, <1>2, <2>1, <3>1, <3>2
    <3>3. CASE Len(y) < Len(p) - 1
      <4>1. Len(p) - 1 \in 0..Len(p) /\ Len(y) \in 0..(Len(p) - 1)
        BY <2>1, <3>1, <3>3
      <4>2. SubSeq(Front(p), 1, Len(y)) = y /\ Len(Front(p)) = Len(p) - 1
        BY <1>4, <2>1, <3>1, <4>1, PrefixOfPrefix, PrefixIs
      <4>3. y \in Parents(Front(p))
        <5> DEFINE q == Front(p)
        <5>1. IsSeq(q) /\ Len(q) = Len(p) - 1 /\ SubSeq(q, 1, Len(y)) = y
          BY <2>1, <4>2
        <5> HIDE DEF q
        <5>2. Len(y) \in 0..Len(q)-1
          BY <2>1, <3>1, <3>3, <5>1
        <5>3. PICK j \in 0..Len(q)-1 : y = SubSeq(q, 1, j)
          BY <5>1, <5>2
        <5>4. y \in Parents(q)
          BY <5>3, Zenon DEF Parents
        <5> QED
          BY <5>4 DEF q
      <4> QED
        BY <2>3, <4>3
    <3> QED
      BY <2>1, <3>1, <3>2, <3>3
  <2> QED
    BY <2>4
<1>8. IsVault(next)
  <2>1. CASE DOMAIN disk' = DOMAIN disk \ {p}
    <3>1. \A x \in Nodes(tree) : p \notin Parents(x)
      BY <1>1, <1>2, <1>3, NothingBelow
    <3>2. p \notin tree.links
      BY <1>1, <1>2, <1>3 DEF IsVault
    <3>3. next.files = tree.files \ {p} /\ next.dirs = tree.dirs \ {p} /\ next.links = tree.links
      BY <1>1, <1>2, <2>1
    <3> QED
      BY <1>3, <1>6, <3>1, <3>2, <3>3, WithoutLeaf
  <2>2. CASE DOMAIN disk' = DOMAIN disk \cup {p}
    <3>1. next.files = tree.files \cup {p} /\ next.dirs = tree.dirs /\ next.links = tree.links
          /\ p \notin tree.dirs
      BY <1>1, <1>2, <2>2
    <3> QED
      BY <1>3, <1>4, <1>7, <3>1, WithFile
  <2> QED
    BY <1>5, <2>1, <2>2
<1>9. Tidy(World')
  BY <1>1, <1>3, <1>5, <1>8, WorldsAre DEF Tidy, next
<1>10. ASSUME NEW c \in Callers PROVE Honest(World', call'[c])
  <2>1. call'[c] = Disturbed(call[c])
    BY <1>1
  <2> QED
    BY <1>9, <2>1, OthersHonest
<1> QED
  BY <1>9, <1>10 DEF Honesty

\* The vault as it is opened is a tree, and no call has begun.
LEMMA InitHonest == Init => Honesty
<1> SUFFICES ASSUME Init PROVE Honesty
  OBVIOUS
<1> DEFINE tree == Tree(World)
<1>1. /\ IsMap(disk) /\ <<>> \in dirs /\ links \subseteq dirs \ {<<>>} /\ dirs \cap DOMAIN disk = {}
      /\ \A p \in dirs \cup DOMAIN disk : IsPlace(p) /\ Parents(p) \subseteq dirs
      /\ \A p \in excluded : IsExcluded(Excluded, p)
      /\ \A c \in Callers : call[c] = Idle
  BY SetupsAssumption DEF Init
<1>2. tree.files = DOMAIN disk /\ tree.dirs = dirs /\ tree.links = links
  BY WorldsAre
<1> HIDE DEF tree
<1>3. Nodes(tree) = dirs \cup DOMAIN disk
  BY <1>2 DEF Nodes
<1>4. IsTree(tree)
  BY <1>1, <1>3, PathIsSeq DEF IsTree, IsPlace
<1>5. IsVault(tree)
  BY <1>1, <1>2, <1>3, <1>4 DEF IsVault, IsPlace, Plain
<1>6. Tidy(World)
  BY <1>1, <1>5, WorldsAre DEF Tidy, tree
<1>7. ASSUME NEW c \in Callers PROVE Honest(World, call[c])
  <2>1. call[c].at = "idle"
    BY <1>1 DEF Idle
  <2> QED
    BY <2>1 DEF Honest
<1> QED
  BY <1>6, <1>7 DEF Honesty

\* Every step leaves what is said true.
LEMMA HonestyKeeps == Inv /\ Honesty /\ [Next]_vars => Honesty'
<1> SUFFICES ASSUME Inv, Honesty, [Next]_vars PROVE Honesty'
  OBVIOUS
<1>1. Inv'
  BY StepKeeps
<1>2. ASSUME NEW c \in Callers, NEW r \in Setups[setup].requests[c], Begin(c, r) PROVE Honesty'
  BY <1>2, BeginHonest
<1>3. ASSUME NEW c \in Callers, Step1(c) PROVE Honesty'
  BY <1>1, <1>3, CheckNewHonest, LoadHonest, PutHonest, ReindexHonest, UnlinkHonest, UnindexHonest,
     CheckMoveHonest, RenameHonest, RelinkHonest, SelectHonest, StatHonest, ReadOneHonest,
     ConcludeHonest, Read1Honest DEF Step1
<1>4. ASSUME NEW e \in Setups[setup].edits, Edit(e) PROVE Honesty'
  BY <1>4, EditHonest
<1>5. CASE UNCHANGED vars
  <2>1. World' = World /\ call' = call
    BY <1>5 DEF vars, World
  <2> HIDE DEF World
  <2> QED
    BY <2>1 DEF Honesty, Tidy
<1> QED
  BY <1>2, <1>3, <1>4, <1>5 DEF Next

\* In every reachable state the vault is a tree of directories and files in them,
\* and each call finds the vault as it left it, where nobody interfered.
THEOREM CallsHonest == Spec => []Honesty
BY CallsCorrect, InitHonest, HonestyKeeps, PTL DEF Spec

\* An edit that is answered as done is in the index as well; one that is answered
\* as failed left every document as it was, but for one that does not parse, which
\* the index then has no more (Vault::reindex, move_note): for any vault, links and
\* names in two Unicode forms among it.
THEOREM AnswersTrue == Spec => []AnswersAreTrue
<1>1. Honesty => AnswersAreTrue
  <2> SUFFICES ASSUME Honesty, NEW c \in Callers, call[c].alone
               PROVE  /\ Answered(c, Creating \cup Editing) /\ call[c].path \notin dirs =>
                            InStep(call[c].path) /\ (Uses(c, {"note_move"}) => InStep(From(c)))
                      /\ Failed(c) /\ call[c].reply.err # "yaml" => disk = call[c].kept
                      /\ Failed(c) /\ call[c].reply.err = "yaml" /\ Uses(c, Creating \cup Editing) =>
                            (IF Uses(c, {"note_move"}) THEN From(c) ELSE call[c].path) \notin DOMAIN meta
    BY DEF AnswersAreTrue
  <2> DEFINE k == call[c]
  <2>1. k.at = "done" => Told(World, k)
    BY DEF Honesty, Honest, Undivided
  <2>2. \A p : InTables(World, p) <=> InStep(p)
    BY WorldsAre DEF InTables, InStep
  <2>3. Req(c) = k.req /\ From(c) = k.doc
    BY DEF Req, From
  <2>4. (Uses(c, {"note_move"}) <=> k.req.tool = "note_move")
        /\ (Uses(c, Creating \cup Editing) <=> k.req.tool \in Creating \cup Editing)
    BY <2>3 DEF Uses
  <2> QED
    BY <2>1, <2>2, <2>3, <2>4, WorldsAre DEF Answered, Failed, Told
<1> QED
  BY <1>1, CallsHonest, PTL

\* A note that a client creates or moves takes the place of no document that was
\* there all along, in either Unicode form (Vault::create_note, create_periodic_note,
\* fs::move_file): what the path is checked for and what is written are two look-ups,
\* between which other clients and programs may do anything but, for a new note,
\* take away what the first went by.
THEOREM NothingOverwritten == Spec => []NewNotesAreNew
<1>1. Honesty => NewNotesAreNew
  <2> SUFFICES ASSUME Honesty, NEW c \in Callers,
                      (Answered(c, Creating) /\ call[c].grown) \/ Answered(c, {"note_move"})
               PROVE  call[c].path \notin DOMAIN call[c].kept
    BY DEF NewNotesAreNew
  <2>1. call[c].at = "done" /\ call[c].reply.err = "none" /\ Req(c) = call[c].req
    BY DEF Answered, Req
  <2>2. Free(World, call[c])
    BY <2>1 DEF Honesty, Honest
  <2> QED
    BY <2>1, <2>2 DEF Free, Answered
<1> QED
  BY <1>1, CallsHonest, PTL

--------------------------------------------------------------------------------
(* Sequences, place by place.                                                  *)

\* What a concatenation is.
LEMMA ConcatAt ==
    ASSUME NEW s, IsSeq(s), NEW t, IsSeq(t)
    PROVE  /\ IsSeq(s \o t) /\ Len(s \o t) = Len(s) + Len(t)
           /\ \A i \in 1..Len(s) : (s \o t)[i] = s[i]
           /\ \A i \in 1..Len(t) : (s \o t)[Len(s) + i] = t[i]
<1> DEFINE T == Range(s) \cup Range(t)
<1>1. s \in Seq(T) /\ t \in Seq(T)
  BY SeqMonotonic DEF IsSeq
<1> HIDE DEF T
<1>2. /\ Len(s \o t) = Len(s) + Len(t)
      /\ \A i \in 1..Len(s) + Len(t) : (s \o t)[i] = IF i <= Len(s) THEN s[i] ELSE t[i - Len(s)]
  BY <1>1, ConcatProperties
<1>3. IsSeq(s \o t)
  BY ConcatIsSeq
<1>4. Len(s) \in Nat /\ Len(t) \in Nat
  BY IsSeqLen
<1>5. \A i \in 1..Len(s) : (s \o t)[i] = s[i]
  BY <1>2, <1>4
<1>6. ASSUME NEW i \in 1..Len(t) PROVE (s \o t)[Len(s) + i] = t[i]
  <2>1. Len(s) + i \in 1..Len(s) + Len(t) /\ ~(Len(s) + i <= Len(s)) /\ (Len(s) + i) - Len(s) = i
    BY <1>4
  <2> QED
    BY <1>2, <2>1
<1> QED
  BY <1>2, <1>3, <1>5, <1>6

\* What a part of a sequence is.
LEMMA SubSeqAt ==
    ASSUME NEW s, IsSeq(s), NEW m \in Nat \ {0}, NEW n \in Int, n <= Len(s)
    PROVE  /\ IsSeq(SubSeq(s, m, n)) /\ Len(SubSeq(s, m, n)) = IF m <= n THEN n - m + 1 ELSE 0
           /\ \A i \in 1..Len(SubSeq(s, m, n)) : SubSeq(s, m, n)[i] = s[m + i - 1]
           /\ m > n => SubSeq(s, m, n) = <<>>
<1>1. \A i \in m..n : s[i] \in Range(s)
  <2>1. \A i \in m..n : i \in DOMAIN s
    BY IsSeqLen
  <2> QED
    BY <2>1 DEF Range
<1>2. /\ IsSeq(SubSeq(s, m, n))
      /\ Len(SubSeq(s, m, n)) = IF m <= n THEN n - m + 1 ELSE 0
  BY SubSeqIsSeq
<1>3. \A i \in 1..n-m+1 : SubSeq(s, m, n)[i] = s[m + i - 1]
  BY <1>1, SubSeqProperties
<1>4. \A i \in 1..Len(SubSeq(s, m, n)) : i \in 1..n-m+1
  BY <1>2
<1>5. m > n => SubSeq(s, m, n) = <<>>
  BY <1>2, IsSeqLen
<1> QED
  BY <1>2, <1>3, <1>4, <1>5

\* The sequence of one element.
LEMMA SingleIs == ASSUME NEW x PROVE IsSeq(<<x>>) /\ Len(<<x>>) = 1 /\ <<x>>[1] = x
BY TuplesAreSeqs

\* Nothing in front or behind changes nothing.
LEMMA ConcatNone == ASSUME NEW s, IsSeq(s) PROVE <<>> \o s = s /\ s \o <<>> = s
BY DEF IsSeq

\* A finite set in some order: each element has one place.
LEMMA OrderIs ==
    ASSUME NEW S, IsFiniteSet(S)
    PROVE  /\ IsSeq(SetToSeq(S))
           /\ \A i \in 1..Len(SetToSeq(S)) : SetToSeq(S)[i] \in S
           /\ \A i, j \in 1..Len(SetToSeq(S)) : SetToSeq(S)[i] = SetToSeq(S)[j] => i = j
           /\ \A x \in S : \E i \in 1..Len(SetToSeq(S)) : SetToSeq(S)[i] = x
<1> DEFINE n == Cardinality(S)
           f == SetToSeq(S)
<1>1. n \in Nat /\ ExistsBijection(1..n, S)
  BY FS_CardinalityType, Zenon
<1>2. PICK g : g \in Bijection(1..n, S)
  BY <1>1, Zenon DEF ExistsBijection
<1>3. g \in [1..n -> S] /\ IsInjective(g)
  BY <1>2, Zenon DEF Bijection, Injection
<1>4. f \in [1..n -> S] /\ IsInjective(f)
  BY <1>3, Zenon DEF SetToSeq
<1>5. IsSeq(f)
  BY OrderIsSeq
<1> HIDE DEF f
<1>6. f \in Injection(1..n, S)
  BY <1>4, Zenon DEF Injection
<1>7. Cardinality(1..n) = n
  <2>1. 1 \in Int /\ n \in Int /\ (IF 1 > n THEN 0 ELSE n - 1 + 1) = n
    BY <1>1
  <2> HIDE DEF n
  <2> QED
    BY <2>1, FS_Interval
<1>8. f \in Surjection(1..n, S)
  BY <1>6, <1>7, FS_Injection, Zenon
<1>9. \A x \in S : \E i \in 1..n : f[i] = x
  BY <1>8, Zenon DEF Surjection
<1>10. \A i, j \in 1..n : f[i] = f[j] => i = j
  BY <1>4 DEF IsInjective
<1>11. Len(f) = n
  BY <1>1, <1>4, <1>5, IsSeqLen
<1> HIDE DEF n
<1> QED
  BY <1>4, <1>5, <1>9, <1>10, <1>11 DEF f

--------------------------------------------------------------------------------
(* Parts of documents put together again, line by line.                        *)

\* The lines of a part.
LEMMA PartIs ==
    ASSUME NEW d, IsDocument(d), NEW from \in Nat \ {0}, NEW to \in Int, to <= Len(d.lines)
    PROVE  /\ Part(d, from, to).lines = SubSeq(d.lines, from, to)
           /\ d.closed => Part(d, from, to).closed
<1>1. CASE from > to
  <2>1. SubSeq(d.lines, from, to) = <<>>
    BY <1>1, LinesAre, SubSeqAt
  <2>2. Part(d, from, to) = [lines |-> <<>>, closed |-> TRUE]
    BY <1>1 DEF Part, Empty, Text
  <2> QED
    BY <2>1, <2>2
<1>2. CASE ~(from > to)
  BY <1>2 DEF Part
<1> QED
  BY <1>1, <1>2

\* The parts of a document.
LEMMA PartsAre ==
    ASSUME NEW d, NEW ls, NEW c, d = [lines |-> ls, closed |-> c]
    PROVE  d.lines = ls /\ d.closed = c
OBVIOUS

\* The lines of two texts, the first of which ends with a newline.
LEMMA JoinIs ==
    ASSUME NEW d, IsDocument(d), NEW e, IsDocument(e), d.closed
    PROVE  Join(d, e).lines = d.lines \o e.lines /\ (e.closed => Join(d, e).closed)
<1>1. IsSeq(d.lines) /\ IsSeq(e.lines)
  BY LinesAre
<1>2. CASE d.lines = <<>>
  BY <1>1, <1>2, ConcatNone DEF Join
<1>3. CASE d.lines # <<>> /\ e.lines = <<>>
  BY <1>1, <1>3, ConcatNone DEF Join
<1>4. CASE d.lines # <<>> /\ e.lines # <<>>
  <2>1. Join(d, e) = [lines |-> d.lines \o e.lines, closed |-> e.closed]
    BY <1>4 DEF Join
  <2>2. Join(d, e).lines = d.lines \o e.lines /\ Join(d, e).closed = e.closed
    BY <2>1, PartsAre, Zenon
  <2> QED
    BY <2>2, Zenon
<1> QED
  BY <1>2, <1>3, <1>4

\* The same of three.
LEMMA Join3Is ==
    ASSUME NEW d, IsDocument(d), NEW e, IsDocument(e), NEW f, IsDocument(f), d.closed, e.closed
    PROVE  Join3(d, e, f).lines = d.lines \o e.lines \o f.lines
<1>1. /\ IsDocument(Join(d, e)) /\ Join(d, e).closed
      /\ Join(d, e).lines = d.lines \o e.lines
  BY JoinIs, JoinIsDocument
<1>2. Join(Join(d, e), f).lines = Join(d, e).lines \o f.lines
  BY <1>1, JoinIs
<1> QED
  BY <1>1, <1>2, Zenon DEF Join3

\* With a newline added a text has the same lines.
LEMMA EndedIs ==
    ASSUME NEW d, IsDocument(d) PROVE Ended(d).lines = d.lines /\ Ended(d).closed
<1>1. DOMAIN d = {"lines", "closed"}
  BY DEF IsDocument
<1> QED
  BY <1>1 DEF Ended

\* What Part makes of the end of a document.
Proper(b) == b = Empty \/ (b.lines # <<>> /\ \E x \in BOOLEAN : b = [lines |-> b.lines, closed |-> x])

\* The end of a document is such a text.
LEMMA PartIsProper ==
    ASSUME NEW d, IsDocument(d), NEW from \in Nat \ {0} PROVE Proper(Part(d, from, Len(d.lines)))
<1> DEFINE n == Len(d.lines)
           s == SubSeq(d.lines, from, n)
<1>1. n \in Nat
  BY LinesAre, IsSeqLen
<1>2. CASE from > n
  BY <1>2 DEF Part, Proper
<1>3. CASE ~(from > n)
  <2>1. IsSeq(s) /\ Len(s) = n - from + 1
    <3>1. n \in Int /\ n <= Len(d.lines) /\ from <= n
      BY <1>1, <1>3
    <3> HIDE DEF n
    <3> QED
      BY <3>1, LinesAre, SubSeqAt
  <2>2. s # <<>>
    <3>1. Len(s) > 0
      BY <1>1, <1>3, <2>1
    <3> HIDE DEF s
    <3> QED
      BY <2>1, <3>1, IsSeqLen, TuplesAreSeqs
  <2>3. Part(d, from, n) = [lines |-> s, closed |-> n < n \/ d.closed]
    BY <1>3 DEF Part
  <2>4. (n < n \/ d.closed) \in BOOLEAN
    OBVIOUS
  <2> HIDE DEF n, s
  <2> DEFINE x == n < n \/ d.closed
  <2>5. x \in BOOLEAN
    BY <2>4
  <2>6. Part(d, from, n) = [lines |-> s, closed |-> x]
    BY <2>3
  <2> HIDE DEF x
  <2>7. Proper(Part(d, from, n))
    BY <2>2, <2>5, <2>6 DEF Proper
  <2> QED
    BY <2>7 DEF n
<1> QED
  BY <1>2, <1>3

\* The end of two texts is the second.
LEMMA PartOfJoin ==
    ASSUME NEW d, IsDocument(d), d.closed, NEW b, IsDocument(b), Proper(b)
    PROVE  Part(Join(d, b), Len(d.lines) + 1, Len(Join(d, b).lines)) = b
<1> DEFINE j == Join(d, b)
           m == Len(d.lines)
           n == Len(b.lines)
<1>1. IsDocument(j) /\ j.lines = d.lines \o b.lines /\ IsSeq(d.lines) /\ IsSeq(b.lines)
      /\ m \in Nat /\ n \in Nat
  BY JoinIsDocument, JoinIs, LinesAre, IsSeqLen
<1>2. IsSeq(j.lines) /\ Len(j.lines) = m + n /\ \A i \in 1..n : j.lines[m + i] = b.lines[i]
  <2>1. /\ IsSeq(d.lines \o b.lines) /\ Len(d.lines \o b.lines) = Len(d.lines) + Len(b.lines)
        /\ \A i \in 1..Len(b.lines) : (d.lines \o b.lines)[Len(d.lines) + i] = b.lines[i]
    <3> DEFINE p == d.lines
               q == b.lines
    <3>1. IsSeq(p) /\ IsSeq(q)
      BY <1>1
    <3> HIDE DEF p, q
    <3>2. /\ IsSeq(p \o q) /\ Len(p \o q) = Len(p) + Len(q)
          /\ \A i \in 1..Len(q) : (p \o q)[Len(p) + i] = q[i]
      BY <3>1, ConcatAt
    <3> QED
      BY <3>2 DEF p, q
  <2> QED
    BY <1>1, <2>1, Zenon
<1>3. CASE b = Empty
  <2>1. n = 0
    BY <1>3 DEF Empty, Text
  <2>2. Len(j.lines) = m + n /\ m \in Nat
    BY <1>1, <1>2, Zenon
  <2> HIDE DEF j, m, n
  <2>3. m + 1 > Len(j.lines)
    BY <2>1, <2>2
  <2>4. Part(j, m + 1, Len(j.lines)) = Empty
    BY <2>3, Zenon DEF Part
  <2> QED
    BY <1>3, <2>4, Zenon DEF j, m
<1>4. CASE b # Empty
  <2>1. PICK x \in BOOLEAN : b = [lines |-> b.lines, closed |-> x]
    BY <1>4 DEF Proper
  <2>2. n > 0 /\ b.lines # <<>> /\ b.closed = x
    BY <1>1, <1>4, <2>1, IsSeqLen DEF Proper
  <2>3. j.closed = x
    <3>1. CASE d.lines = <<>>
      BY <2>2, <3>1 DEF Join
    <3>2. CASE d.lines # <<>>
      <4>1. j = [lines |-> d.lines \o b.lines, closed |-> b.closed]
        BY <2>2, <3>2 DEF Join
      <4> QED
        BY <2>2, <4>1
    <3> QED
      BY <3>1, <3>2
  <2> DEFINE t == SubSeq(j.lines, m + 1, m + n)
  <2>4. /\ IsSeq(t) /\ Len(t) = n
        /\ \A i \in 1..n : t[i] = j.lines[(m + 1) + i - 1]
    <3>1. m + 1 \in Nat \ {0} /\ m + n \in Int /\ m + n <= Len(j.lines)
          /\ (IF m + 1 <= m + n THEN (m + n) - (m + 1) + 1 ELSE 0) = n
      BY <1>1, <1>2, <2>2
    <3> HIDE DEF j, m, n
    <3> QED
      BY <1>2, <3>1, SubSeqAt
  <2> HIDE DEF t
  <2>5. t = b.lines
    <3>1. \A i \in 1..n : t[i] = b.lines[i]
      <4>1. \A i \in 1..n : (m + 1) + i - 1 = m + i
        BY <1>1
      <4> HIDE DEF m, n, j
      <4> QED
        BY <1>2, <2>4, <4>1
    <3> QED
      BY <1>1, <2>4, <3>1, SamePath
  <2>6. Part(j, m + 1, Len(j.lines)) = [lines |-> t, closed |-> Len(j.lines) < Len(j.lines) \/ j.closed]
    <3>1. m \in Nat /\ n \in Nat /\ n > 0
      BY <1>1, <2>2
    <3>2. Len(j.lines) = m + n
      BY <1>2
    <3> HIDE DEF m, n, j
    <3>3. ~(m + 1 > m + n)
      BY <3>1
    <3> QED
      BY <3>2, <3>3, Zenon DEF Part, t
  <2>7. (Len(j.lines) < Len(j.lines) \/ j.closed) = x
    <3> HIDE DEF j, m, n
    <3>1. ~(Len(j.lines) < Len(j.lines))
      BY <1>1, <1>2
    <3> QED
      BY <2>3, <3>1
  <2> QED
    BY <2>1, <2>5, <2>6, <2>7
<1> QED
  BY <1>3, <1>4

--------------------------------------------------------------------------------
(* Front matter that is read, and read back.                                   *)

\* The first of a sequence.
LEMMA HeadIs == ASSUME NEW s, IsSeq(s), s # <<>> PROVE Head(s) = s[1]
BY DEF IsSeq

\* The front matter is what lies between two delimiters and has none in it.
LEMMA RawIs ==
    ASSUME NEW d, IsDocument(d), NEW k, k = RawFrontmatter(d), k # 0
    PROVE  /\ k \in 2..Len(d.lines) /\ d.lines[1] = Delim /\ d.lines[k] = Delim
           /\ \A i \in 2..k-1 : d.lines[i] # Delim
<1> DEFINE ls == d.lines
           S == Closings(d, IsBareDelim)
<1>1. IsSeq(ls) /\ Len(ls) \in Nat
  BY LinesAre, IsSeqLen
<1>2. S = {i \in 2..Len(ls) : ls[i] = Delim}
  BY DEF Closings, IsBareDelim
<1>3. ls # <<>> /\ Head(ls) = Delim /\ S # {} /\ k = Min(S)
  BY Zenon DEF RawFrontmatter, Opened, IsBareDelim
<1> HIDE DEF ls, S
<1>4. S \in SUBSET Nat
  BY <1>1, <1>2
<1>5. k \in S /\ \A i \in S : k <= i
  BY <1>3, <1>4, MinIsLeast
<1>6. ls[1] = Delim
  BY <1>1, <1>3, HeadIs
<1>7. k \in 2..Len(ls) /\ ls[k] = Delim
  BY <1>2, <1>5
<1>8. ASSUME NEW i \in 2..k-1 PROVE ls[i] # Delim
  <2>1. i \in 2..Len(ls) /\ ~(k <= i)
    BY <1>1, <1>7
  <2> QED
    BY <1>2, <1>5, <2>1
<1> QED
  BY <1>6, <1>7, <1>8 DEF ls

\* Two delimiters with none between them are front matter.
LEMMA RawAt ==
    ASSUME NEW d, IsDocument(d), NEW k \in 2..Len(d.lines), d.lines[1] = Delim, d.lines[k] = Delim,
           \A i \in 2..k-1 : d.lines[i] # Delim
    PROVE  RawFrontmatter(d) = k
<1> DEFINE ls == d.lines
           S == Closings(d, IsBareDelim)
<1>1. IsSeq(ls) /\ Len(ls) \in Nat
  BY LinesAre, IsSeqLen
<1>2. S = {i \in 2..Len(ls) : ls[i] = Delim}
  BY DEF Closings, IsBareDelim
<1>3. RawFrontmatter(d) = IF ls # <<>> /\ Head(ls) = Delim /\ S # {} THEN Min(S) ELSE 0
  BY Zenon DEF RawFrontmatter, Opened, IsBareDelim
<1>4. k \in 2..Len(ls) /\ ls[1] = Delim /\ ls[k] = Delim /\ \A i \in 2..k-1 : ls[i] # Delim
  OBVIOUS
<1> HIDE DEF ls, S
<1>5. ls # <<>> /\ Head(ls) = Delim
  <2>1. Len(ls) >= 2
    BY <1>1, <1>4
  <2>2. ls # <<>>
    BY <2>1, TuplesAreSeqs
  <2> QED
    BY <1>1, <1>4, <2>2, HeadIs
<1>6. S \in SUBSET Nat /\ k \in S
  BY <1>1, <1>2, <1>4
<1>7. \A i \in S : k <= i
  <2>1. ASSUME NEW i \in S, ~(k <= i) PROVE FALSE
    <3>1. i \in 2..k-1 /\ ls[i] = Delim
      BY <1>1, <1>2, <1>4, <2>1
    <3> QED
      BY <1>4, <3>1
  <2> QED
    BY <2>1
<1>8. Min(S) = k
  <2> DEFINE m == Min(S)
  <2>1. m \in S /\ \A i \in S : m <= i
    BY <1>6, MinIsLeast
  <2> HIDE DEF m
  <2>2. m \in Nat /\ k \in Nat /\ m <= k /\ k <= m
    BY <1>6, <1>7, <2>1
  <2>3. m = k
    BY <2>2
  <2> QED
    BY <2>3 DEF m
<1> QED
  BY <1>3, <1>5, <1>6, <1>8

\* A text that begins with another's front matter has the same.
LEMMA FrontKept ==
    ASSUME NEW d, IsDocument(d), NEW e, IsDocument(e), NEW k, k = RawFrontmatter(d), k # 0,
           k <= Len(e.lines), \A i \in 1..k : e.lines[i] = d.lines[i]
    PROVE  RawFrontmatter(e) = k /\ ParseFrontmatter(e) = ParseFrontmatter(d)
<1> DEFINE s == d.lines
           t == e.lines
<1>1. IsSeq(s) /\ Len(s) \in Nat /\ IsSeq(t) /\ Len(t) \in Nat
  BY LinesAre, IsSeqLen
<1>2. /\ k \in 2..Len(s) /\ s[1] = Delim /\ s[k] = Delim
      /\ \A i \in 2..k-1 : s[i] # Delim
  BY RawIs
<1>3. k <= Len(t) /\ \A i \in 1..k : t[i] = s[i]
  OBVIOUS
<1> HIDE DEF s, t
<1>4. /\ k \in 2..Len(t) /\ t[1] = Delim /\ t[k] = Delim
      /\ \A i \in 2..k-1 : t[i] # Delim
  <2>1. 1 \in 1..k /\ k \in 1..k /\ \A i \in 2..k-1 : i \in 1..k
    BY <1>1, <1>2
  <2> QED
    BY <1>1, <1>2, <1>3, <2>1
<1>5. RawFrontmatter(e) = k
  BY <1>4, RawAt DEF t
<1>6. SubSeq(s, 2, k - 1) = SubSeq(t, 2, k - 1)
  <2> DEFINE p == SubSeq(s, 2, k - 1)
             q == SubSeq(t, 2, k - 1)
             n == IF 2 <= k - 1 THEN (k - 1) - 2 + 1 ELSE 0
  <2>1. k - 1 \in Int /\ k - 1 <= Len(s) /\ k - 1 <= Len(t) /\ 2 \in Nat \ {0}
    BY <1>1, <1>2, <1>4
  <2>2. IsSeq(p) /\ Len(p) = n /\ \A i \in 1..Len(p) : p[i] = s[2 + i - 1]
    BY <1>1, <2>1, SubSeqAt
  <2>3. IsSeq(q) /\ Len(q) = n /\ \A i \in 1..Len(q) : q[i] = t[2 + i - 1]
    BY <1>1, <2>1, SubSeqAt
  <2>4. \A i \in 1..n : 2 + i - 1 \in 1..k
    BY <1>1, <1>2
  <2> HIDE DEF p, q, n
  <2>5. \A i \in 1..Len(p) : p[i] = q[i]
    BY <1>3, <2>2, <2>3, <2>4
  <2>6. p = q
    BY <2>2, <2>3, <2>5, SamePath
  <2> QED
    BY <2>6 DEF p, q
<1>7. ParseFrontmatter(e) = ParseFrontmatter(d)
  <2>1. SubSeq(d.lines, 2, RawFrontmatter(d) - 1) = SubSeq(e.lines, 2, RawFrontmatter(e) - 1)
    BY <1>5, <1>6 DEF s, t
  <2>2. RawFrontmatter(d) = RawFrontmatter(e)
    BY <1>5
  <2> DEFINE G(end, ls) == IF end = 0 THEN Absent
                           ELSE CASE Yaml(ls) = "mapping" -> Mapping(ls)
                                  [] Yaml(ls) = "other"   -> <<>>
                                  [] Yaml(ls) = "bad"     -> None
  <2>3. /\ ParseFrontmatter(d) = G(RawFrontmatter(d), SubSeq(d.lines, 2, RawFrontmatter(d) - 1))
        /\ ParseFrontmatter(e) = G(RawFrontmatter(e), SubSeq(e.lines, 2, RawFrontmatter(e) - 1))
    BY Zenon DEF ParseFrontmatter
  <2> HIDE DEF G
  <2> QED
    BY <2>1, <2>2, <2>3, Zenon
<1> QED
  BY <1>5, <1>7

\* Fields as Mapping gives them.
IsFields(fm) == /\ fm = [k \in DOMAIN fm |-> [form |-> fm[k].form, value |-> fm[k].value]]
                /\ IsFiniteSet(DOMAIN fm)

\* A rendered field, and what is a field of it.
LEMMA FieldIs ==
    ASSUME NEW k, NEW f, NEW v
    PROVE  /\ Field(k, f, v).kind = "field" /\ Field(k, f, v).text = k
           /\ Field(k, f, v).form = f /\ Field(k, f, v).value = v
           /\ Field(k, f, v) # Delim
BY DEF Field, Line, Delim

\* Fields are rendered between delimiters, each in one line.
LEMMA RenderedIs ==
    ASSUME NEW fm, IsFields(fm)
    PROVE  \E ls : /\ IsSeq(ls) /\ Rendered(fm).lines = <<Delim>> \o ls \o <<Delim>>
                   /\ Rendered(fm).closed
                   /\ \A i \in 1..Len(ls) : \E k \in DOMAIN fm :
                         ls[i] = Field(k, fm[k].form, fm[k].value)
                   /\ \A i, j \in 1..Len(ls) : ls[i] = ls[j] => i = j
                   /\ \A k \in DOMAIN fm : \E i \in 1..Len(ls) :
                         ls[i] = Field(k, fm[k].form, fm[k].value)
<1> DEFINE fields == {Field(k, fm[k].form, fm[k].value) : k \in DOMAIN fm}
           f == [k \in DOMAIN fm |-> Field(k, fm[k].form, fm[k].value)]
<1>1. f \in Surjection(DOMAIN fm, fields)
  BY Zenon DEF Surjection
<1> HIDE DEF f
<1>2. IsFiniteSet(fields)
  <2> HIDE DEF fields
  <2> QED
    BY <1>1, FS_Surjection DEF IsFields
<1>3. /\ \A x \in fields : \E k \in DOMAIN fm : x = Field(k, fm[k].form, fm[k].value)
      /\ \A k \in DOMAIN fm : Field(k, fm[k].form, fm[k].value) \in fields
  OBVIOUS
<1>4. Rendered(fm) = [lines |-> <<Delim>> \o SetToSeq(fields) \o <<Delim>>, closed |-> TRUE]
  BY Zenon DEF Rendered, Text
<1> HIDE DEF fields
<1> DEFINE ls == SetToSeq(fields)
<1>5. /\ IsSeq(ls)
      /\ \A i \in 1..Len(ls) : ls[i] \in fields
      /\ \A i, j \in 1..Len(ls) : ls[i] = ls[j] => i = j
      /\ \A x \in fields : \E i \in 1..Len(ls) : ls[i] = x
  BY <1>2, OrderIs
<1>6. Rendered(fm).lines = <<Delim>> \o ls \o <<Delim>> /\ Rendered(fm).closed
  BY <1>4
<1> HIDE DEF ls
<1> WITNESS ls
<1> QED
  BY <1>3, <1>5, <1>6, Zenon

\* What is read of rendered fields is the fields.
LEMMA FieldsRead ==
    ASSUME NEW fm, IsFields(fm), NEW ls, IsSeq(ls),
           \A i \in 1..Len(ls) : \E k \in DOMAIN fm : ls[i] = Field(k, fm[k].form, fm[k].value),
           \A i, j \in 1..Len(ls) : ls[i] = ls[j] => i = j,
           \A k \in DOMAIN fm : \E i \in 1..Len(ls) : ls[i] = Field(k, fm[k].form, fm[k].value)
    PROVE  Yaml(ls) = "mapping" /\ Mapping(ls) = fm
<1>1. DOMAIN ls = 1..Len(ls)
  BY IsSeqLen
<1>2. \A i \in 1..Len(ls) : /\ ls[i].kind = "field" /\ ls[i].text \in DOMAIN fm
                            /\ ls[i] = Field(ls[i].text, fm[ls[i].text].form, fm[ls[i].text].value)
  BY FieldIs
<1>3. {j \in DOMAIN ls : ls[j].kind = "field"} = 1..Len(ls)
  BY <1>1, <1>2
<1>4. \A i, j \in 1..Len(ls) : ls[i].text = ls[j].text => i = j
  <2>1. ASSUME NEW i \in 1..Len(ls), NEW j \in 1..Len(ls), ls[i].text = ls[j].text
        PROVE  ls[i] = ls[j]
    <3> DEFINE k == ls[i].text
    <3>1. ls[j].text = k
      BY <2>1, Zenon
    <3>2. ls[i] = Field(k, fm[k].form, fm[k].value)
      BY <1>2, Zenon
    <3>3. ls[j] = Field(ls[j].text, fm[ls[j].text].form, fm[ls[j].text].value)
      BY <1>2, Zenon
    <3> HIDE DEF k
    <3> QED
      BY <3>1, <3>2, <3>3, Zenon
  <2> QED
    BY <2>1, Zenon
<1>5. Yaml(ls) = "mapping"
  <2> DEFINE kinds == {ls[i].kind : i \in DOMAIN ls} \ {"blank"}
             fs == {i \in DOMAIN ls : ls[i].kind = "field"}
  <2>1. kinds \subseteq {"field"}
    BY <1>1, <1>2
  <2>2. fs = {} => kinds = {}
    BY <1>1, <1>3
  <2>3. \A i, j \in fs : i # j => ls[i].text # ls[j].text
    BY <1>3, <1>4
  <2>4. Yaml(ls) = IF kinds = {} THEN "mapping"
                   ELSE IF fs = {} THEN "other"
                   ELSE IF kinds \subseteq {"field", "heading"}
                           /\ \A i, j \in fs : i # j => ls[i].text # ls[j].text
                   THEN "mapping" ELSE "bad"
    BY Zenon DEF Yaml
  <2>5. kinds \subseteq {"field", "heading"}
    BY <2>1
  <2> HIDE DEF kinds, fs
  <2> QED
    BY <2>2, <2>3, <2>4, <2>5, Zenon
<1>6. Keys(ls) = DOMAIN fm
  <2>1. Keys(ls) = {ls[i].text : i \in 1..Len(ls)}
    BY <1>3 DEF Keys
  <2>2. \A k \in DOMAIN fm : \E i \in 1..Len(ls) : ls[i].text = k
    BY FieldIs
  <2>3. \A i \in 1..Len(ls) : ls[i].text \in DOMAIN fm
    BY <1>2, Zenon
  <2>4. ASSUME NEW k \in DOMAIN fm PROVE k \in {ls[i].text : i \in 1..Len(ls)}
    BY <2>2
  <2> DEFINE A == {ls[i].text : i \in 1..Len(ls)}
  <2>5. A \subseteq DOMAIN fm /\ DOMAIN fm \subseteq A
    BY <2>3, <2>4, Zenon
  <2> HIDE DEF A
  <2>6. A = DOMAIN fm
    BY <2>5
  <2> QED
    BY <2>1, <2>6, Zenon DEF A
<1>7. ASSUME NEW k \in DOMAIN fm
      PROVE  (CHOOSE x \in Range(ls) : x.kind = "field" /\ x.text = k)
             = Field(k, fm[k].form, fm[k].value)
  <2> DEFINE P(x) == x \in Range(ls) /\ x.kind = "field" /\ x.text = k
             y == Field(k, fm[k].form, fm[k].value)
  <2>1. PICK i \in 1..Len(ls) : ls[i] = y
    BY <1>7
  <2>2. y \in Range(ls)
    BY <1>1, <2>1 DEF Range
  <2>3. y.kind = "field" /\ y.text = k
    BY FieldIs
  <2>4. \A x \in Range(ls) : x.text = k => x = y
    <3>1. ASSUME NEW x \in Range(ls), x.text = k PROVE x = y
      <4>1. PICK j \in 1..Len(ls) : ls[j] = x
        BY <1>1 DEF Range
      <4> QED
        BY <1>2, <3>1, <4>1
    <3> QED
      BY <3>1
  <2> HIDE DEF y
  <2>5. (CHOOSE x \in Range(ls) : x.kind = "field" /\ x.text = k) = y
    BY <2>2, <2>3, <2>4
  <2> QED
    BY <2>5 DEF y
<1>8. Mapping(ls) = [k \in DOMAIN fm |-> [form |-> fm[k].form, value |-> fm[k].value]]
  <2> DEFINE l(k) == CHOOSE x \in Range(ls) : x.kind = "field" /\ x.text = k
  <2>1. Mapping(ls) = [k \in DOMAIN fm |-> [form |-> l(k).form, value |-> l(k).value]]
    BY <1>6, Zenon DEF Mapping
  <2>2. \A k \in DOMAIN fm : l(k).form = fm[k].form /\ l(k).value = fm[k].value
    <3>1. ASSUME NEW k \in DOMAIN fm
          PROVE  l(k).form = fm[k].form /\ l(k).value = fm[k].value
      <4>1. l(k) = Field(k, fm[k].form, fm[k].value)
        BY <1>7, Zenon
      <4> HIDE DEF l
      <4> QED
        BY <4>1, FieldIs
    <3> QED
      BY <3>1, Zenon
  <2> HIDE DEF l
  <2> QED
    BY <2>1, <2>2
<1> QED
  BY <1>5, <1>8 DEF IsFields

\* None and Absent stand for no fields: they are none.
MarkersAreNoData == \A f : f = [x \in DOMAIN f |-> f[x]] => f \notin {None, Absent}

\* Fields written before a body are read back, and so is the body.
LEMMA ReadBack ==
    ASSUME NEW fm, IsFields(fm), NEW body, IsDocument(body), Proper(body)
    PROVE  /\ ParseFrontmatter(Join(Rendered(fm), body)) = fm
           /\ GetBody(Join(Rendered(fm), body)) = body
<1> DEFINE d == Rendered(fm)
           e == Join(d, body)
<1>1. PICK ls :
        /\ IsSeq(ls) /\ d.lines = <<Delim>> \o ls \o <<Delim>> /\ d.closed
        /\ \A i \in 1..Len(ls) : \E k \in DOMAIN fm : ls[i] = Field(k, fm[k].form, fm[k].value)
        /\ \A i, j \in 1..Len(ls) : ls[i] = ls[j] => i = j
        /\ \A k \in DOMAIN fm : \E i \in 1..Len(ls) : ls[i] = Field(k, fm[k].form, fm[k].value)
  BY RenderedIs
<1>2. IsDocument(d)
  BY RenderedIsDocument DEF IsFields
<1> HIDE DEF d
<1> DEFINE n == Len(ls)
           p == <<Delim>> \o ls
           q == d.lines
           t == e.lines
           b == body.lines
<1>3. n \in Nat /\ IsSeq(ls)
  BY <1>1, IsSeqLen
<1>4. IsSeq(p) /\ Len(p) = 1 + n /\ p[1] = Delim /\ \A i \in 1..n : p[1 + i] = ls[i]
  <2>1. IsSeq(<<Delim>>) /\ Len(<<Delim>>) = 1 /\ <<Delim>>[1] = Delim
    BY SingleIs
  <2>2. 1 \in 1..Len(<<Delim>>)
    BY <2>1
  <2> QED
    BY <1>3, <2>1, <2>2, ConcatAt
<1>5. IsSeq(q) /\ Len(q) = n + 2 /\ q[n + 2] = Delim /\ \A i \in 1..n+1 : q[i] = p[i]
  <2>1. IsSeq(<<Delim>>) /\ Len(<<Delim>>) = 1 /\ <<Delim>>[1] = Delim
    BY SingleIs
  <2>2. 1 \in 1..Len(<<Delim>>)
    BY <2>1
  <2>3. q = p \o <<Delim>>
    BY <1>1
  <2> HIDE DEF q, p
  <2>4. /\ IsSeq(q) /\ Len(q) = Len(p) + 1 /\ q[Len(p) + 1] = Delim
        /\ \A i \in 1..Len(p) : q[i] = p[i]
    BY <1>4, <2>1, <2>2, <2>3, ConcatAt
  <2>5. Len(p) = n + 1 /\ Len(p) + 1 = n + 2
    BY <1>3, <1>4
  <2> QED
    BY <2>4, <2>5
<1>6. IsDocument(e) /\ t = q \o b /\ IsSeq(b)
  BY <1>1, <1>2, JoinIs, JoinIsDocument, LinesAre
<1> HIDE DEF e, p, q, b
<1>7. IsSeq(t) /\ Len(t) = (n + 2) + Len(b) /\ Len(b) \in Nat /\ \A i \in 1..n+2 : t[i] = q[i]
  <2>1. /\ IsSeq(q \o b) /\ Len(q \o b) = Len(q) + Len(b)
        /\ \A i \in 1..Len(q) : (q \o b)[i] = q[i]
    BY <1>5, <1>6, ConcatAt
  <2> HIDE DEF t
  <2>2. IsSeq(t) /\ Len(t) = Len(q) + Len(b) /\ \A i \in 1..Len(q) : t[i] = q[i]
    BY <1>6, <2>1
  <2>3. Len(b) \in Nat
    BY <1>6, IsSeqLen
  <2>4. Len(q) = n + 2
    BY <1>5
  <2> QED
    BY <2>2, <2>3, <2>4
<1>8. \A i \in 1..n : t[1 + i] = ls[i]
  <2>1. ASSUME NEW i \in 1..n PROVE t[1 + i] = ls[i]
    <3>1. 1 + i \in 1..n+1 /\ 1 + i \in 1..n+2
      BY <1>3
    <3> QED
      BY <1>4, <1>5, <1>7, <3>1
  <2> QED
    BY <2>1
<1>9. RawFrontmatter(e) = n + 2
  <2>1. 1 \in 1..n+2 /\ n + 2 \in 1..n+2 /\ 1 \in 1..n+1 /\ n + 2 \in 2..Len(t)
    BY <1>3, <1>7
  <2>2. t[1] = Delim /\ t[n + 2] = Delim
    BY <1>4, <1>5, <1>7, <2>1
  <2>3. ASSUME NEW i \in 2..(n + 2)-1 PROVE t[i] # Delim
    <3>1. i - 1 \in 1..n /\ 1 + (i - 1) = i
      BY <1>3
    <3>2. t[i] = ls[i - 1]
      BY <1>8, <3>1
    <3>3. PICK k \in DOMAIN fm : ls[i - 1] = Field(k, fm[k].form, fm[k].value)
      BY <1>1, <3>1
    <3> QED
      BY <3>2, <3>3, FieldIs
  <2> QED
    BY <1>6, <2>1, <2>2, <2>3, RawAt
<1>10. SubSeq(t, 2, (n + 2) - 1) = ls
  <2> DEFINE s == SubSeq(t, 2, (n + 2) - 1)
  <2>1. (n + 2) - 1 \in Int /\ (n + 2) - 1 <= Len(t) /\ 2 \in Nat \ {0}
        /\ (IF 2 <= (n + 2) - 1 THEN (n + 2) - 1 - 2 + 1 ELSE 0) = n
    BY <1>3, <1>7
  <2>2. IsSeq(s) /\ Len(s) = n /\ \A i \in 1..Len(s) : s[i] = t[2 + i - 1]
    BY <1>7, <2>1, SubSeqAt
  <2>3. \A i \in 1..n : 2 + i - 1 = 1 + i
    BY <1>3
  <2> HIDE DEF s
  <2>4. \A i \in 1..Len(s) : s[i] = ls[i]
    BY <1>8, <2>2, <2>3
  <2>5. s = ls
    BY <1>3, <2>2, <2>4, SamePath
  <2> QED
    BY <2>5 DEF s
<1>11. Yaml(ls) = "mapping" /\ Mapping(ls) = fm
  BY <1>1, FieldsRead
<1>12. ParseFrontmatter(e) = fm
  <2> DEFINE end == RawFrontmatter(e)
             m == SubSeq(e.lines, 2, end - 1)
  <2>1. ParseFrontmatter(e) = IF end = 0 THEN Absent
                              ELSE CASE Yaml(m) = "mapping" -> Mapping(m)
                                     [] Yaml(m) = "other"   -> <<>>
                                     [] Yaml(m) = "bad"     -> None
    BY Zenon DEF ParseFrontmatter
  <2>2. m = ls
    BY <1>9, <1>10
  <2>3. end # 0
    BY <1>3, <1>9
  <2> HIDE DEF end, m
  <2> QED
    BY <1>11, <2>1, <2>2, <2>3
<1>13. GetBody(e) = body
  <2>1. RawFrontmatter(e) = Len(d.lines)
    BY <1>5, <1>9 DEF q
  <2>2. Part(e, Len(d.lines) + 1, Len(e.lines)) = body
    BY <1>1, <1>2, PartOfJoin DEF e
  <2> QED
    BY <2>1, <2>2 DEF GetBody
<1> QED
  BY <1>12, <1>13 DEF d, e

\* What is read of a note's front matter is fields, unless there are none.
LEMMA ParsedIsFields ==
    ASSUME NEW d, IsDocument(d), ParseFrontmatter(d) \notin {None, Absent}
    PROVE  IsFields(ParseFrontmatter(d))
<1> DEFINE end == RawFrontmatter(d)
           ls  == SubSeq(d.lines, 2, end - 1)
           fm  == ParseFrontmatter(d)
<1>1. IsFiniteSet(DOMAIN fm)
  BY FrontmatterIs
<1>2. fm = Mapping(ls) \/ fm = <<>>
  <2>1. Yaml(ls) \in {"mapping", "other", "bad"}
    BY Zenon DEF Yaml
  <2>2. fm = IF end = 0 THEN Absent
             ELSE CASE Yaml(ls) = "mapping" -> Mapping(ls)
                    [] Yaml(ls) = "other"   -> <<>>
                    [] Yaml(ls) = "bad"     -> None
    BY Zenon DEF ParseFrontmatter
  <2> HIDE DEF end, ls, fm
  <2>3. fm \notin {None, Absent}
    BY DEF fm
  <2> QED
    BY <2>1, <2>2, <2>3
<1> HIDE DEF fm, ls
<1>3. CASE fm = Mapping(ls)
  <2> DEFINE l(k) == CHOOSE x \in Range(ls) : x.kind = "field" /\ x.text = k
             f(k) == l(k).form
             v(k) == l(k).value
  <2>1. fm = [k \in Keys(ls) |-> [form |-> f(k), value |-> v(k)]]
    BY <1>3, Zenon DEF Mapping
  <2> HIDE DEF f, v
  <2>2. fm = [k \in DOMAIN fm |-> [form |-> fm[k].form, value |-> fm[k].value]]
    BY <2>1
  <2> QED
    BY <1>1, <2>2 DEF IsFields, fm
<1>4. CASE fm = <<>>
  <2>1. fm = [k \in DOMAIN fm |-> [form |-> fm[k].form, value |-> fm[k].value]]
    BY <1>4
  <2> QED
    BY <1>1, <2>1 DEF IsFields, fm
<1> QED
  BY <1>2, <1>3, <1>4

\* No fields at all.
LEMMA NoFields == IsFields(<<>>) /\ \A k : Without(<<>>, k) = <<>>
BY FS_EmptySet DEF IsFields, Without

\* A field set, and taken away again.
LEMMA WithIs ==
    ASSUME NEW fm, IsFields(fm), NEW k, NEW v, v = [form |-> v.form, value |-> v.value]
    PROVE  /\ IsFields(With(fm, k, v)) /\ k \in DOMAIN With(fm, k, v)
           /\ Without(With(fm, k, v), k) = Without(fm, k)
<1> DEFINE w == With(fm, k, v)
<1>1. IsFiniteSet(DOMAIN w)
  BY WithFinite DEF IsFields
<1>2. DOMAIN w = DOMAIN fm \cup {k} /\ w[k] = v /\ \A x \in DOMAIN fm : x # k => w[x] = fm[x]
  BY DEF With
<1>3. w = [x \in DOMAIN w |-> w[x]]
  BY DEF With
<1> HIDE DEF w
<1>4. \A x \in DOMAIN fm : fm[x] = [form |-> fm[x].form, value |-> fm[x].value]
  BY DEF IsFields
<1>5. \A x \in DOMAIN w : w[x] = [form |-> w[x].form, value |-> w[x].value]
  <2>1. ASSUME NEW x \in DOMAIN w PROVE w[x] = [form |-> w[x].form, value |-> w[x].value]
    <3>1. w[x] = v \/ (x \in DOMAIN fm /\ w[x] = fm[x])
      BY <1>2
    <3> QED
      BY <1>4, <3>1, Zenon
  <2> QED
    BY <2>1
<1>6. w = [x \in DOMAIN w |-> [form |-> w[x].form, value |-> w[x].value]]
  BY <1>3, <1>5
<1>7. Without(w, k) = Without(fm, k)
  <2>1. DOMAIN w \ {k} = DOMAIN fm \ {k}
    BY <1>2
  <2> QED
    BY <1>2, <2>1 DEF Without
<1> QED
  BY <1>1, <1>2, <1>6, <1>7 DEF IsFields, w

\* A field taken away.
LEMMA WithoutIs ==
    ASSUME NEW fm, IsFields(fm), NEW k
    PROVE  IsFields(Without(fm, k)) /\ Without(Without(fm, k), k) = Without(fm, k)
<1> DEFINE w == Without(fm, k)
<1>1. IsFiniteSet(DOMAIN w)
  BY WithFinite DEF IsFields
<1>2. DOMAIN w = DOMAIN fm \ {k} /\ \A x \in DOMAIN w : w[x] = fm[x]
  BY DEF Without
<1>3. w = [x \in DOMAIN w |-> w[x]]
  BY DEF Without
<1> HIDE DEF w
<1>4. \A x \in DOMAIN fm : fm[x] = [form |-> fm[x].form, value |-> fm[x].value]
  BY DEF IsFields
<1>5. \A x \in DOMAIN w : w[x] = [form |-> w[x].form, value |-> w[x].value]
  <2>1. ASSUME NEW x \in DOMAIN w PROVE w[x] = [form |-> w[x].form, value |-> w[x].value]
    <3>1. x \in DOMAIN fm /\ w[x] = fm[x]
      BY <1>2
    <3> QED
      BY <1>4, <3>1, Zenon
  <2> QED
    BY <2>1
<1>6. w = [x \in DOMAIN w |-> [form |-> w[x].form, value |-> w[x].value]]
  BY <1>3, <1>5
<1>7. Without(w, k) = w
  <2>1. DOMAIN w \ {k} = DOMAIN w
    BY <1>2
  <2> QED
    BY <1>3, <2>1 DEF Without
<1> QED
  BY <1>1, <1>6, <1>7 DEF IsFields, w

\* The fields but one; none where there is no front matter.
Others(fm, k) == IF fm = Absent THEN <<>> ELSE Without(fm, k)

\* Front matter rebuilt with a field more or less is read back with its body.
LEMMA RebuiltIs ==
    ASSUME MarkersAreNoData, NEW fm, IsFields(fm), DOMAIN fm # {}, NEW body, IsDocument(body),
           Proper(body), NEW k, NEW e, e = RebuildContent(fm, body)
    PROVE  /\ ParseFrontmatter(e) = fm /\ fm \notin {None, Absent}
           /\ Others(ParseFrontmatter(e), k) = Without(fm, k)
           /\ GetBody(e) = body
<1>1. e = Join(Rendered(fm), body)
  BY DEF RebuildContent
<1>2. ParseFrontmatter(e) = fm /\ GetBody(e) = body
  BY <1>1, ReadBack
<1>3. fm \notin {None, Absent}
  <2>1. fm = [x \in DOMAIN fm |-> fm[x]]
    <3>1. \A x \in DOMAIN fm : fm[x] = [form |-> fm[x].form, value |-> fm[x].value]
      BY DEF IsFields
    <3>2. fm = [x \in DOMAIN fm |-> [form |-> fm[x].form, value |-> fm[x].value]]
      BY DEF IsFields
    <3> QED
      BY <3>2
  <2> QED
    BY <2>1 DEF MarkersAreNoData
<1> QED
  BY <1>2, <1>3 DEF Others

\* What is behind the front matter is a text again.
LEMMA BodyIsProper == ASSUME NEW d, IsDocument(d) PROVE IsDocument(GetBody(d)) /\ Proper(GetBody(d))
<1>1. RawFrontmatter(d) + 1 \in Nat \ {0}
  BY LinesAre, IsSeqLen, BoundariesIn
<1> QED
  BY <1>1, GetBodyIsDocument, PartIsProper DEF GetBody

\* note_frontmatter_edit with "set".
LEMMA SetKeeps ==
    ASSUME MarkersAreNoData, NEW d, IsDocument(d), NEW k,
           NEW v, v = [form |-> v.form, value |-> v.value],
           NEW e, e = SetField(d, k, v), e # None
    PROVE  /\ ParseFrontmatter(e) # None
           /\ Others(ParseFrontmatter(e), k) = Others(ParseFrontmatter(d), k)
           /\ GetBody(e) = GetBody(d)
<1> DEFINE fm  == ParseFrontmatter(d)
           old == IF fm = Absent THEN <<>> ELSE fm
           w   == With(old, k, v)
<1>1. fm # None /\ e = RebuildContent(w, GetBody(d))
  BY Zenon DEF SetField
<1>2. IsFields(old)
  BY <1>1, ParsedIsFields, NoFields
<1>3. Others(fm, k) = Without(old, k)
  BY NoFields DEF Others
<1> HIDE DEF old
<1>4. IsFields(w) /\ k \in DOMAIN w /\ Without(w, k) = Without(old, k)
  BY <1>2, WithIs
<1> HIDE DEF w
<1>5. IsDocument(GetBody(d)) /\ Proper(GetBody(d))
  BY BodyIsProper
<1>6. DOMAIN w # {}
  BY <1>4
<1>7. /\ ParseFrontmatter(e) = w /\ w \notin {None, Absent}
      /\ Others(ParseFrontmatter(e), k) = Without(w, k)
      /\ GetBody(e) = GetBody(d)
  BY <1>1, <1>4, <1>5, <1>6, RebuiltIs
<1> QED
  BY <1>3, <1>4, <1>7

\* note_frontmatter_edit with "remove". Where that was the last field, the body
\* is all that is left.
LEMMA RemoveKeeps ==
    ASSUME MarkersAreNoData, NEW d, IsDocument(d), NEW k, NEW e, e = RemoveField(d, k), e # None,
           Others(ParseFrontmatter(d), k) = <<>> => RawFrontmatter(GetBody(d)) = 0
    PROVE  /\ ParseFrontmatter(e) # None
           /\ Others(ParseFrontmatter(e), k) = Others(ParseFrontmatter(d), k)
           /\ GetBody(e) = GetBody(d)
<1> DEFINE fm == ParseFrontmatter(d)
           w  == Without(fm, k)
           body == GetBody(d)
<1>1. fm # None
  BY DEF RemoveField
<1>2. CASE ~(fm \notin {None, Absent} /\ k \in DOMAIN fm)
  <2>1. e = d
    BY <1>1, <1>2 DEF RemoveField
  <2> QED
    BY <1>1, <2>1
<1>3. CASE fm \notin {None, Absent} /\ k \in DOMAIN fm
  <2>1. e = RebuildContent(w, body)
    BY <1>3 DEF RemoveField
  <2>2. IsFields(w) /\ Without(w, k) = w
    BY <1>3, ParsedIsFields, WithoutIs
  <2>3. Others(fm, k) = w
    BY <1>3 DEF Others
  <2>4. IsDocument(body) /\ Proper(body)
    BY BodyIsProper
  <2> HIDE DEF w
  <2>5. CASE DOMAIN w # {}
    <3> HIDE DEF body
    <3>1. /\ ParseFrontmatter(e) = w /\ w \notin {None, Absent}
          /\ Others(ParseFrontmatter(e), k) = Without(w, k)
          /\ GetBody(e) = body
      BY <2>1, <2>2, <2>4, <2>5, RebuiltIs
    <3> QED
      BY <2>2, <2>3, <3>1 DEF body
  <2>6. CASE DOMAIN w = {}
    <3>1. e = body
      BY <2>1, <2>6 DEF RebuildContent
    <3>2. w = <<>>
      BY <2>2, <2>6 DEF IsFields
    <3>3. RawFrontmatter(body) = 0
      BY <2>3, <3>2
    <3>4. ParseFrontmatter(e) = Absent
      BY <3>1, <3>3 DEF ParseFrontmatter
    <3>5. GetBody(e) = body
      <4>1. GetBody(e) = Part(body, 1, Len(body.lines))
        BY <3>1, <3>3 DEF GetBody
      <4>2. IsDocument(Empty) /\ Empty.closed /\ Empty.lines = <<>> /\ Len(Empty.lines) + 1 = 1
        BY EmptyIsDocument DEF Empty, Text
      <4>3. Join(Empty, body) = body
        BY <4>2 DEF Join
      <4>4. Part(Join(Empty, body), Len(Empty.lines) + 1, Len(Join(Empty, body).lines)) = body
        BY <2>4, <4>2, PartOfJoin
      <4> QED
        BY <4>1, <4>2, <4>3, <4>4, Zenon
    <3> QED
      BY <2>3, <3>2, <3>4, <3>5, NoneAssumption DEF Others
  <2> QED
    BY <2>5, <2>6
<1> QED
  BY <1>2, <1>3

\* note_patch on a field, where both readers see the same front matter.
LEMMA PatchKeeps ==
    ASSUME MarkersAreNoData, NEW d, IsDocument(d), NEW k, NEW v,
           NEW op \in {"append", "prepend", "replace"},
           NEW e, e = PatchFrontmatter(d, op, k, v), e # None,
           RawFrontmatter(d) = FrontmatterBoundaries(d)
    PROVE  /\ ParseFrontmatter(e) # None
           /\ Others(ParseFrontmatter(e), k) = Others(ParseFrontmatter(d), k)
           /\ GetBody(e) = GetBody(d)
<1> DEFINE end == RawFrontmatter(d)
           ls  == SubSeq(d.lines, 2, end - 1)
           fm  == Mapping(ls)
           old == IF k \in DOMAIN fm THEN fm[k] ELSE [form |-> "scalar", value |-> <<>>]
           new == CASE op = "replace" -> Scalar(v)
                    [] op = "append"  -> [old EXCEPT !.value = @ \o <<v>>]
                    [] op = "prepend" -> [old EXCEPT !.value = <<v>> \o @]
           w   == With(fm, k, new)
           body == GetBody(d)
<1>1. /\ end # 0 /\ Yaml(ls) = "mapping"
      /\ e = Join(Rendered(w), Part(d, end + 1, Len(d.lines)))
  <2>1. PatchFrontmatter(d, op, k, v) =
           IF FrontmatterBoundaries(d) = 0
              \/ Yaml(SubSeq(d.lines, 2, FrontmatterBoundaries(d) - 1)) # "mapping" THEN None
           ELSE Join(Rendered(With(Mapping(SubSeq(d.lines, 2, FrontmatterBoundaries(d) - 1)), k,
                     LET m == Mapping(SubSeq(d.lines, 2, FrontmatterBoundaries(d) - 1))
                         o == IF k \in DOMAIN m THEN m[k] ELSE [form |-> "scalar", value |-> <<>>]
                     IN CASE op = "replace" -> Scalar(v)
                          [] op = "append"  -> [o EXCEPT !.value = @ \o <<v>>]
                          [] op = "prepend" -> [o EXCEPT !.value = <<v>> \o @])),
                     Part(d, FrontmatterBoundaries(d) + 1, Len(d.lines)))
    BY Zenon DEF PatchFrontmatter
  <2>2. PatchFrontmatter(d, op, k, v) =
           IF end = 0 \/ Yaml(ls) # "mapping" THEN None
           ELSE Join(Rendered(w), Part(d, end + 1, Len(d.lines)))
    BY <2>1
  <2> HIDE DEF end, ls, w
  <2> QED
    BY <2>2, Zenon
<1>2. ParseFrontmatter(d) = fm
  <2>1. ParseFrontmatter(d) = IF end = 0 THEN Absent
                              ELSE CASE Yaml(ls) = "mapping" -> Mapping(ls)
                                     [] Yaml(ls) = "other"   -> <<>>
                                     [] Yaml(ls) = "bad"     -> None
    BY Zenon DEF ParseFrontmatter
  <2> HIDE DEF end, ls
  <2> QED
    BY <1>1, <2>1
<1>3. IsFields(fm)
  <2>1. IsFiniteSet(DOMAIN fm)
    <3>1. end - 1 \in Int /\ end - 1 <= Len(d.lines) /\ 2 \in Nat \ {0}
      BY LinesAre, IsSeqLen, BoundariesIn
    <3>2. IsSeq(ls)
      BY <3>1, LinesAre, SubSeqIsSeq
    <3> HIDE DEF ls
    <3> QED
      BY <3>2, KeysFinite
  <2> HIDE DEF ls
  <2> DEFINE l(x) == CHOOSE y \in Range(ls) : y.kind = "field" /\ y.text = x
             f(x) == l(x).form
             g(x) == l(x).value
  <2>2. fm = [x \in Keys(ls) |-> [form |-> f(x), value |-> g(x)]]
    BY Zenon DEF Mapping
  <2> HIDE DEF f, g, fm
  <2>3. fm = [x \in DOMAIN fm |-> [form |-> fm[x].form, value |-> fm[x].value]]
    BY <2>2
  <2> QED
    BY <2>1, <2>3 DEF IsFields
<1> HIDE DEF fm, ls
<1>4. new = [form |-> new.form, value |-> new.value]
  <2>1. old = [form |-> old.form, value |-> old.value]
    <3>1. CASE k \in DOMAIN fm
      <4>1. \A x \in DOMAIN fm : fm[x] = [form |-> fm[x].form, value |-> fm[x].value]
        BY <1>3 DEF IsFields
      <4> QED
        BY <3>1, <4>1
    <3>2. CASE k \notin DOMAIN fm
      BY <3>2
    <3> QED
      BY <3>1, <3>2
  <2>2. DOMAIN old = {"form", "value"}
    BY <2>1
  <2> HIDE DEF old
  <2>3. \A x : [old EXCEPT !.value = x] = [form |-> old.form, value |-> x]
    <3>1. ASSUME NEW x PROVE [old EXCEPT !.value = x] = [form |-> old.form, value |-> x]
      BY <2>1
    <3> QED
      BY <3>1
  <2>4. CASE op = "replace"
    BY <2>4 DEF Scalar
  <2>5. CASE op = "append"
    <3>1. new = [form |-> old.form, value |-> old.value \o <<v>>]
      BY <2>3, <2>5
    <3> HIDE DEF new
    <3> QED
      BY <3>1
  <2>6. CASE op = "prepend"
    <3>1. new = [form |-> old.form, value |-> <<v>> \o old.value]
      BY <2>3, <2>6
    <3> HIDE DEF new
    <3> QED
      BY <3>1
  <2> QED
    BY <2>4, <2>5, <2>6
<1> HIDE DEF new
<1>5. IsFields(w) /\ k \in DOMAIN w /\ Without(w, k) = Without(fm, k)
  BY <1>3, <1>4, WithIs
<1> HIDE DEF w
<1>6. IsDocument(body) /\ Proper(body)
  BY BodyIsProper
<1>7. DOMAIN w # {}
  BY <1>5
<1>8. e = RebuildContent(w, body)
  BY <1>1, <1>7 DEF RebuildContent, GetBody
<1>9. /\ ParseFrontmatter(e) = w /\ w \notin {None, Absent}
      /\ Others(ParseFrontmatter(e), k) = Without(w, k)
      /\ GetBody(e) = body
  <2> HIDE DEF body
  <2> QED
    BY <1>5, <1>6, <1>7, <1>8, RebuiltIs
<1>10. fm \notin {None, Absent}
  <2>1. fm = [x \in DOMAIN fm |-> fm[x]]
    BY <1>3 DEF IsFields
  <2> QED
    BY <2>1 DEF MarkersAreNoData
<1>11. Others(fm, k) = Without(fm, k)
  BY <1>10 DEF Others
<1> QED
  BY <1>2, <1>5, <1>9, <1>11

\* The front of a sequence, and what is behind its first.
LEMMA FrontAt ==
    ASSUME NEW s, IsSeq(s), s # <<>>
    PROVE  /\ IsSeq(Front(s)) /\ Len(Front(s)) = Len(s) - 1 /\ Len(s) \in Nat \ {0}
           /\ \A i \in 1..Len(s)-1 : Front(s)[i] = s[i]
<1>1. Len(s) \in Nat /\ Len(s) # 0
  BY IsSeqLen, TuplesAreSeqs
<1>2. Len(s) - 1 \in Int /\ Len(s) - 1 <= Len(s) /\ 1 \in Nat \ {0}
      /\ (IF 1 <= Len(s) - 1 THEN (Len(s) - 1) - 1 + 1 ELSE 0) = Len(s) - 1
  <2> DEFINE n == Len(s)
  <2>1. n \in Nat /\ n # 0
    BY <1>1
  <2> HIDE DEF n
  <2>2. n - 1 \in Int /\ n - 1 <= n /\ 1 \in Nat \ {0}
    BY <2>1
  <2>3. (IF 1 <= n - 1 THEN (n - 1) - 1 + 1 ELSE 0) = n - 1
    BY <2>1
  <2> QED
    BY <2>2, <2>3 DEF n
<1> DEFINE f == SubSeq(s, 1, Len(s) - 1)
<1>3. IsSeq(f) /\ Len(f) = Len(s) - 1 /\ \A i \in 1..Len(f) : f[i] = s[1 + i - 1]
  BY <1>2, SubSeqAt
<1>4. Front(s) = f
  BY DEF Front
<1> HIDE DEF f
<1>5. \A i \in 1..Len(f) : 1 + i - 1 = i
  BY <1>1, <1>3
<1> QED
  BY <1>1, <1>3, <1>4, <1>5

LEMMA TailAt ==
    ASSUME NEW s, IsSeq(s), s # <<>>
    PROVE  /\ IsSeq(Tail(s)) /\ Len(Tail(s)) = Len(s) - 1
           /\ \A i \in 1..Len(s)-1 : Tail(s)[i] = s[i + 1]
<1>1. s \in Seq(Range(s))
  BY DEF IsSeq
<1>2. Len(Tail(s)) = Len(s) - 1 /\ \A i \in 1..Len(Tail(s)) : Tail(s)[i] = s[i + 1]
  BY <1>1, HeadTailProperties
<1> QED
  BY <1>2, TailIsSeq

\* A text with another behind it begins with the lines that it has, but for the
\* last where that is not ended.
LEMMA JoinStarts ==
    ASSUME NEW d, IsDocument(d), NEW e, IsDocument(e), NEW k \in Nat, k <= Len(d.lines),
           k = Len(d.lines) => d.closed
    PROVE  k <= Len(Join(d, e).lines) /\ \A i \in 1..k : Join(d, e).lines[i] = d.lines[i]
<1> DEFINE p == d.lines
           q == e.lines
           g == Glue(Last(p), Head(q))
           f == Front(p)
           r == Tail(q)
<1>1. IsSeq(p) /\ IsSeq(q) /\ Len(p) \in Nat /\ Len(q) \in Nat
  BY LinesAre, IsSeqLen
<1>2. CASE p = <<>>
  <2>1. k = 0
    BY <1>2
  <2>2. IsDocument(Join(d, e))
    BY JoinIsDocument
  <2>3. Len(Join(d, e).lines) \in Nat
    BY <2>2, LinesAre, IsSeqLen
  <2> QED
    BY <2>1, <2>3
<1>3. CASE p # <<>> /\ q = <<>>
  <2>1. Join(d, e) = d
    BY <1>3 DEF Join
  <2> QED
    BY <2>1
<1>4. CASE p # <<>> /\ q # <<>> /\ d.closed
  <2>1. Join(d, e).lines = p \o q
    BY <1>4, JoinIs
  <2> HIDE DEF p, q
  <2>2. Len(p \o q) = Len(p) + Len(q) /\ \A i \in 1..Len(p) : (p \o q)[i] = p[i]
    BY <1>1, ConcatAt
  <2>3. k <= Len(p) /\ \A i \in 1..k : i \in 1..Len(p)
    BY <1>1 DEF p
  <2>4. k <= Len(p) + Len(q)
    BY <1>1, <2>3
  <2> QED
    BY <2>1, <2>2, <2>3, <2>4 DEF p
<1>5. CASE p # <<>> /\ q # <<>> /\ ~d.closed
  <2>1. Join(d, e) = [lines |-> f \o <<g>> \o r, closed |-> e.closed]
    BY <1>5 DEF Join
  <2>2. Join(d, e).lines = f \o <<g>> \o r
    <3> HIDE DEF f, g, r
    <3> QED
      BY <2>1
  <2>3. k <= Len(p) /\ k # Len(p)
    BY <1>5
  <2> HIDE DEF p, q, g, f, r
  <2>4. IsSeq(f) /\ Len(f) = Len(p) - 1 /\ \A i \in 1..Len(p)-1 : f[i] = p[i]
    BY <1>1, <1>5, FrontAt DEF f
  <2>5. IsSeq(r)
    BY <1>1, <1>5, TailAt DEF r
  <2>6. IsSeq(<<g>>) /\ Len(<<g>>) = 1
    BY SingleIs
  <2>7. IsSeq(f \o <<g>>) /\ Len(f \o <<g>>) = Len(f) + 1 /\ \A i \in 1..Len(f) : (f \o <<g>>)[i] = f[i]
    BY <2>4, <2>6, ConcatAt
  <2> DEFINE h == f \o <<g>>
  <2> HIDE DEF h
  <2>8. IsSeq(h) /\ Len(h) = Len(f) + 1 /\ \A i \in 1..Len(f) : h[i] = f[i]
    BY <2>7 DEF h
  <2>9. Len(h \o r) = Len(h) + Len(r) /\ Len(r) \in Nat /\ \A i \in 1..Len(h) : (h \o r)[i] = h[i]
    BY <2>5, <2>8, ConcatAt, IsSeqLen
  <2>10. Join(d, e).lines = h \o r
    BY <2>2 DEF h
  <2>11. k <= Len(h) + Len(r)
    BY <1>1, <2>3, <2>4, <2>8, <2>9
  <2>12. \A i \in 1..k : i \in 1..Len(p)-1 /\ i \in 1..Len(f) /\ i \in 1..Len(h)
    BY <1>1, <2>3, <2>4, <2>8
  <2>13. \A i \in 1..k : (h \o r)[i] = p[i]
    BY <2>4, <2>8, <2>9, <2>12
  <2> QED
    BY <2>9, <2>10, <2>11, <2>13 DEF p
<1> QED
  BY <1>2, <1>3, <1>4, <1>5

\* A text that does not begin with a delimiter has no front matter.
LEMMA NoFront ==
    ASSUME NEW e, IsDocument(e), e.lines = <<>> \/ e.lines[1] # Delim
    PROVE  RawFrontmatter(e) = 0 /\ ParseFrontmatter(e) = Absent
<1> DEFINE ls == e.lines
<1>1. IsSeq(ls)
  BY LinesAre
<1>2. ~(ls # <<>> /\ Head(ls) = Delim)
  BY <1>1, HeadIs
<1>3. RawFrontmatter(e) = 0
  BY <1>2, Zenon DEF RawFrontmatter, Opened, IsBareDelim
<1> QED
  BY <1>3 DEF ParseFrontmatter

\* The front matter is in the lines.
LEMMA SameFront ==
    ASSUME NEW d, NEW e, d.lines = e.lines
    PROVE  RawFrontmatter(d) = RawFrontmatter(e) /\ ParseFrontmatter(d) = ParseFrontmatter(e)
<1>1. Closings(d, IsBareDelim) = Closings(e, IsBareDelim)
  BY DEF Closings
<1>2. RawFrontmatter(d) = RawFrontmatter(e)
  BY <1>1, Zenon DEF RawFrontmatter, Opened
<1> DEFINE G(end, ls) == IF end = 0 THEN Absent
                         ELSE CASE Yaml(ls) = "mapping" -> Mapping(ls)
                                [] Yaml(ls) = "other"   -> <<>>
                                [] Yaml(ls) = "bad"     -> None
<1>3. /\ ParseFrontmatter(d) = G(RawFrontmatter(d), SubSeq(d.lines, 2, RawFrontmatter(d) - 1))
      /\ ParseFrontmatter(e) = G(RawFrontmatter(e), SubSeq(e.lines, 2, RawFrontmatter(e) - 1))
  BY Zenon DEF ParseFrontmatter
<1> HIDE DEF G
<1> QED
  BY <1>2, <1>3, Zenon

\* All of a document.
LEMMA WholeIs == ASSUME NEW d, IsDocument(d) PROVE Part(d, 1, Len(d.lines)).lines = d.lines
<1> DEFINE ls == d.lines
<1>1. IsSeq(ls) /\ Len(ls) \in Nat
  BY LinesAre, IsSeqLen
<1>2. Len(ls) \in Int /\ Len(ls) <= Len(ls) /\ 1 \in Nat \ {0}
  BY <1>1
<1>3. Part(d, 1, Len(ls)).lines = SubSeq(ls, 1, Len(ls))
  BY <1>2, PartIs
<1> HIDE DEF ls
<1> DEFINE s == SubSeq(ls, 1, Len(ls))
<1>4. /\ IsSeq(s) /\ Len(s) = IF 1 <= Len(ls) THEN Len(ls) - 1 + 1 ELSE 0
      /\ \A i \in 1..Len(s) : s[i] = ls[1 + i - 1]
  BY <1>1, <1>2, SubSeqAt
<1> HIDE DEF s
<1>5. Len(s) = Len(ls)
  BY <1>1, <1>4
<1>6. \A i \in 1..Len(s) : s[i] = ls[i]
  <2>1. \A i \in 1..Len(s) : 1 + i - 1 = i
    BY <1>1, <1>5
  <2> QED
    BY <1>4, <2>1
<1>7. s = ls
  BY <1>1, <1>4, <1>5, <1>6, SamePath
<1> QED
  BY <1>3, <1>7 DEF s, ls

\* What stands between prose and what comes behind it is prose, or the latter.
LEMMA GlueIs ==
    ASSUME NEW l, IsLine(l), l.kind \in {"text", "blank"}, NEW m
    PROVE  Glue(l, m) # Delim \/ Glue(l, m) = m
<1>1. CASE l.kind = "blank"
  BY <1>1 DEF Glue
<1>2. CASE l.kind = "text"
  <2> DEFINE g == [l EXCEPT !.text = <<l.text, m.text>>, !.value = m.value,
                            !.form = IF m.value = <<>> THEN l.form ELSE m.form]
  <2>1. Glue(l, m) = g
    BY <1>2 DEF Glue
  <2>2. DOMAIN l = {"kind", "form", "n", "text", "value"}
    BY DEF IsLine, Line
  <2>3. g.kind = "text"
    BY <1>2, <2>2
  <2> HIDE DEF g
  <2>4. Delim.kind = "delim"
    BY DEF Delim, Line
  <2> QED
    BY <2>1, <2>3, <2>4
<1> QED
  BY <1>1, <1>2

\* Prose in front of a note that has no front matter does not give it any.
LEMMA ProseInFront ==
    ASSUME NEW d, IsDocument(d), RawFrontmatter(d) = 0, NEW c, HasLines(c), IsProse(c)
    PROVE  ParseFrontmatter(Join(c, Part(d, 1, Len(d.lines)))) = Absent
<1> DEFINE b == Part(d, 1, Len(d.lines))
           e == Join(c, b)
           p == c.lines
           q == b.lines
<1>1. IsDocument(c) /\ IsSeq(p) /\ Len(p) \in Nat
  BY LinesAre, IsSeqLen DEF HasLines
<1>2. IsDocument(b) /\ q = d.lines /\ IsSeq(q)
  <2>1. Len(d.lines) \in Int /\ Len(d.lines) <= Len(d.lines) /\ 1 \in Nat \ {0}
    BY LinesAre, IsSeqLen
  <2> QED
    BY <2>1, PartIsDocument, WholeIs, LinesAre
<1> HIDE DEF b
<1>3. IsDocument(e)
  BY <1>1, <1>2, JoinIsDocument
<1>4. \A i \in 1..Len(p) : IsLine(p[i]) /\ p[i].kind \in {"text", "blank"} /\ p[i] # Delim
  <2>1. \A i \in 1..Len(p) : p[i] \in Range(p)
    BY <1>1, IsSeqLen DEF Range
  <2>2. \A l \in Range(p) : IsLine(l) /\ l.kind \in {"text", "blank"}
    BY DEF HasLines, IsProse
  <2>3. Delim.kind = "delim"
    BY DEF Delim, Line
  <2> QED
    BY <2>1, <2>2, <2>3
<1>5. RawFrontmatter(b) = 0 /\ ParseFrontmatter(b) = Absent
  <2>1. RawFrontmatter(b) = 0
    BY <1>2, SameFront
  <2> QED
    BY <2>1 DEF ParseFrontmatter
<1>6. CASE p = <<>>
  <2>1. e = b
    BY <1>6 DEF Join
  <2> QED
    BY <1>5, <2>1 DEF b
<1>7. CASE p # <<>> /\ (c.closed \/ q = <<>> \/ Len(p) # 1)
  <2>1. 1 \in 1..Len(p) /\ 1 \in Nat /\ 1 <= Len(p) /\ 1 \in 1..1
    <3>1. Len(p) # 0
      BY <1>1, <1>7, IsSeqLen, TuplesAreSeqs
    <3> QED
      BY <1>1, <3>1
  <2>2. e.lines[1] = p[1]
    <3>1. CASE q = <<>>
      <4>1. e = c
        BY <1>7, <3>1 DEF Join
      <4> QED
        BY <4>1
    <3>2. CASE c.closed \/ Len(p) # 1
      <4>1. 1 = Len(p) => c.closed
        BY <3>2
      <4>2. \A i \in 1..1 : Join(c, b).lines[i] = c.lines[i]
        BY <1>1, <1>2, <2>1, <4>1, JoinStarts
      <4> QED
        BY <2>1, <4>2
    <3> QED
      BY <1>7, <3>1, <3>2
  <2>3. e.lines[1] # Delim
    BY <1>4, <2>1, <2>2
  <2> QED
    BY <1>3, <2>3, NoFront DEF b
<1>8. CASE ~c.closed /\ q # <<>> /\ Len(p) = 1
  <2> DEFINE g == Glue(Last(p), Head(q))
             f == Front(p)
             r == Tail(q)
  <2>1. p # <<>>
    BY <1>8, TuplesAreSeqs
  <2>2. e.lines = f \o <<g>> \o r
    <3>1. e = [lines |-> f \o <<g>> \o r, closed |-> b.closed]
      BY <1>8, <2>1 DEF Join
    <3> HIDE DEF f, g, r
    <3> QED
      BY <3>1
  <2>3. Last(p) = p[1] /\ Head(q) = q[1]
    BY <1>2, <1>8, HeadIs DEF Last
  <2>4. g # Delim \/ g = q[1]
    <3>1. 1 \in 1..Len(p)
      BY <1>8
    <3>2. IsLine(p[1]) /\ p[1].kind \in {"text", "blank"}
      BY <1>4, <3>1
    <3> QED
      BY <2>3, <3>2, GlueIs
  <2>5. IsSeq(f) /\ Len(f) = 0
    <3> HIDE DEF p
    <3>1. IsSeq(Front(p)) /\ Len(Front(p)) = Len(p) - 1
      BY <1>1, <2>1, FrontAt
    <3> QED
      BY <1>8, <3>1
  <2>6. /\ IsSeq(r) /\ Len(r) = Len(q) - 1 /\ Len(q) \in Nat
        /\ \A i \in 1..Len(q)-1 : r[i] = q[i + 1]
    BY <1>2, <1>8, TailAt, IsSeqLen
  <2> HIDE DEF f, g, r
  <2>7. f = <<>>
    BY <2>5, TuplesAreSeqs, IsSeqLen
  <2>8. IsSeq(<<g>>) /\ Len(<<g>>) = 1 /\ <<g>>[1] = g
    BY SingleIs
  <2>9. f \o <<g>> = <<g>>
    BY <2>7, <2>8, ConcatNone
  <2> DEFINE t == <<g>> \o r
  <2>10. e.lines = t
    BY <2>2, <2>9
  <2>11. /\ IsSeq(t) /\ Len(t) = 1 + Len(r) /\ \A i \in 1..1 : t[i] = <<g>>[i]
         /\ \A i \in 1..Len(r) : t[1 + i] = r[i]
    BY <2>6, <2>8, ConcatAt
  <2> HIDE DEF t
  <2>12. t[1] = g
    <3>1. 1 \in 1..1
      OBVIOUS
    <3> QED
      BY <2>8, <2>11, <3>1
  <2>13. CASE g # Delim
    BY <1>3, <2>10, <2>12, <2>13, NoFront DEF b
  <2>14. CASE g = q[1]
    <3> HIDE DEF q
    <3>1. Len(t) = Len(q)
      BY <2>6, <2>11
    <3>2. ASSUME NEW i \in 1..Len(t) PROVE t[i] = q[i]
      <4>1. CASE i = 1
        BY <2>12, <2>14, <4>1
      <4>2. CASE i # 1
        <5>1. i - 1 \in 1..Len(r) /\ 1 + (i - 1) = i /\ i - 1 \in 1..Len(q)-1 /\ (i - 1) + 1 = i
          BY <2>6, <2>11, <4>2
        <5>2. t[1 + (i - 1)] = r[i - 1] /\ r[i - 1] = q[(i - 1) + 1]
          BY <2>6, <2>11, <5>1
        <5> QED
          BY <5>1, <5>2
      <4> QED
        BY <4>1, <4>2
    <3>3. t = q
      BY <1>2, <2>11, <3>1, <3>2, SamePath
    <3>4. e.lines = b.lines
      BY <2>10, <3>3 DEF q
    <3>5. ParseFrontmatter(e) = ParseFrontmatter(b)
      BY <3>4, SameFront
    <3> QED
      BY <1>5, <3>5 DEF b
  <2> QED
    BY <2>4, <2>13, <2>14
<1> QED
  BY <1>6, <1>7, <1>8

\* Prose inserted at the beginning of a note leaves its front matter.
LEMMA PrependKeeps ==
    ASSUME NEW d, IsDocument(d), d.closed, NEW c, HasLines(c), IsProse(c)
    PROVE  ParseFrontmatter(PrependNote(d, c)) = ParseFrontmatter(d)
<1> DEFINE k == RawFrontmatter(d)
           p == Part(d, 1, k)
           m == Join(p, c)
           b == Part(d, k + 1, Len(d.lines))
           e == Join(m, b)
<1>1. Len(d.lines) \in Nat /\ k \in 0..Len(d.lines)
  BY LinesAre, IsSeqLen, BoundariesIn
<1>2. PrependNote(d, c) = e
  BY DEF PrependNote, Join3
<1>3. CASE k = 0
  <2>1. p = Empty
    BY <1>3 DEF Part
  <2>2. m = c
    <3>1. Empty.lines = <<>>
      BY DEF Empty, Text
    <3>2. Join(Empty, c) = c
      BY <3>1, Zenon DEF Join
    <3> QED
      BY <2>1, <3>2, Zenon
  <2>3. e = Join(c, Part(d, 1, Len(d.lines)))
    BY <1>3, <2>2
  <2>4. ParseFrontmatter(e) = Absent
    BY <1>3, <2>3, ProseInFront
  <2>5. ParseFrontmatter(d) = Absent
    BY <1>3 DEF ParseFrontmatter
  <2> QED
    BY <1>2, <2>4, <2>5
<1>4. CASE k # 0
  <2>1. /\ k \in Int /\ k <= Len(d.lines) /\ 1 \in Nat \ {0} /\ k + 1 \in Nat \ {0} /\ k \in Nat
        /\ Len(d.lines) \in Int /\ Len(d.lines) <= Len(d.lines)
        /\ (IF 1 <= k THEN k - 1 + 1 ELSE 0) = k
    BY <1>1, <1>4
  <2>2. IsDocument(p) /\ IsDocument(b) /\ p.lines = SubSeq(d.lines, 1, k) /\ p.closed
    BY <2>1, PartIsDocument, PartIs
  <2> DEFINE s == SubSeq(d.lines, 1, k)
  <2>3. IsSeq(s) /\ Len(s) = k /\ \A i \in 1..k : s[i] = d.lines[i]
    <3> DEFINE ls == d.lines
    <3>1. IsSeq(ls) /\ k <= Len(ls)
      BY <2>1, LinesAre
    <3> HIDE DEF ls, k
    <3> DEFINE x == SubSeq(ls, 1, k)
    <3>2. IsSeq(x) /\ Len(x) = k /\ \A i \in 1..Len(x) : x[i] = ls[1 + i - 1]
      BY <2>1, <3>1, SubSeqAt
    <3> HIDE DEF x
    <3>3. \A i \in 1..k : 1 + i - 1 = i
      BY <2>1
    <3>4. IsSeq(x) /\ Len(x) = k /\ \A i \in 1..k : x[i] = ls[i]
      BY <3>2, <3>3
    <3> QED
      BY <3>4 DEF x, ls
  <2> HIDE DEF k, p, b, s
  <2>4. Len(p.lines) = k /\ \A i \in 1..k : p.lines[i] = d.lines[i]
    BY <2>2, <2>3 DEF s
  <2>5. IsDocument(c)
    BY DEF HasLines
  <2>6. k <= Len(m.lines) /\ \A i \in 1..k : m.lines[i] = p.lines[i]
    BY <2>1, <2>2, <2>4, <2>5, JoinStarts
  <2>7. IsDocument(m)
    BY <2>2, <2>5, JoinIsDocument
  <2>8. k = Len(m.lines) => m.closed
    <3> DEFINE q == c.lines
    <3>1. m.lines = p.lines \o q /\ IsSeq(p.lines) /\ IsSeq(q)
      BY <2>2, <2>5, JoinIs, LinesAre
    <3>2. Len(m.lines) = k + Len(q) /\ Len(q) \in Nat
      <4> DEFINE x == p.lines
      <4>1. m.lines = x \o q /\ IsSeq(x) /\ IsSeq(q) /\ Len(x) = k
        BY <2>4, <3>1
      <4> HIDE DEF x, q
      <4>2. Len(x \o q) = Len(x) + Len(q) /\ Len(q) \in Nat
        BY <4>1, ConcatAt, IsSeqLen
      <4> QED
        BY <4>1, <4>2
    <3>3. k = Len(m.lines) => q = <<>>
      <4>1. k = Len(m.lines) => Len(q) = 0
        BY <2>1, <3>2
      <4> HIDE DEF q
      <4> QED
        BY <3>1, <4>1, IsSeqLen, TuplesAreSeqs
    <3>4. q = <<>> => m = p \/ (p.lines = <<>> /\ m = c)
      BY DEF Join
    <3>5. p.lines # <<>>
      BY <1>4, <2>4 DEF k
    <3> QED
      BY <2>2, <3>3, <3>4, <3>5
  <2> HIDE DEF m
  <2>9. k <= Len(e.lines) /\ \A i \in 1..k : e.lines[i] = m.lines[i]
    BY <2>1, <2>2, <2>6, <2>7, <2>8, JoinStarts
  <2>10. IsDocument(e)
    BY <2>2, <2>7, JoinIsDocument
  <2>11. \A i \in 1..k : e.lines[i] = d.lines[i]
    BY <2>4, <2>6, <2>9
  <2> HIDE DEF e
  <2>12. ParseFrontmatter(e) = ParseFrontmatter(d)
    BY <1>4, <2>9, <2>10, <2>11, FrontKept DEF k
  <2> QED
    BY <1>2, <2>12
<1> QED
  BY <1>3, <1>4

--------------------------------------------------------------------------------
(* What a call makes of a document that nobody else touches.                   *)

\* The documents that a call has kept, k.kept, are those of the vault w until it
\* writes; it writes what it made of the one that its path is found by.
Made(w, k) ==
    /\ \A p \in DOMAIN k.kept : IsDocument(k.kept[p])
    /\ k.at \in Untouched => \A p \in DOMAIN k.kept : w.disk[p] = k.kept[p]
    /\ k.at = "done" /\ k.reply.err = "none" => WellTyped(k.req) /\ ~BadArguments(k.req)
    /\ k.grown /\ Loading(k.req) =>
          /\ k.at = "put" =>
                /\ k.path = k.req.path /\ k.doc # None
                /\ \A p \in DOMAIN k.kept :
                      Locate(w, k.path) = Found(p) => k.doc = Changed(k.req, k.kept[p])
          /\ /\ k.at = "reindex" \/ (k.at = "done" /\ k.reply.err = "none")
             /\ k.path \in DOMAIN k.kept /\ k.path \in DOMAIN w.disk
             => /\ Changed(k.req, k.kept[k.path]) # None
                /\ w.disk[k.path] = Changed(k.req, k.kept[k.path])
AllMade == \A c \in Callers : call[c].at # "idle" => Made(World, call[c])

\* The vault v, and what a call has made in it, after w and the same call.
LEMMA MadeOn ==
    ASSUME NEW w, Tidy(w), NEW v, Tidy(v), NEW k, Made(w, k),
           k.at \in Untouched => DOMAIN k.kept \subseteq DOMAIN w.disk,
           k.at = "put" /\ Loading(k.req) => IsSeq(k.path),
           NEW n, n.at = k.at, n.req = k.req, n.path = k.path, n.doc = k.doc, n.reply = k.reply,
           \A p \in DOMAIN n.kept : /\ p \in DOMAIN k.kept /\ n.kept[p] = k.kept[p]
                                    /\ p \in DOMAIN w.disk <=> p \in DOMAIN v.disk
                                    /\ p \in DOMAIN w.disk => v.disk[p] = w.disk[p],
           n.grown => /\ k.grown /\ DOMAIN w.disk \subseteq DOMAIN v.disk
                      /\ w.dirs \subseteq v.dirs /\ w.links \subseteq v.links
    PROVE  Made(v, n)
<1>1. \A p \in DOMAIN n.kept : IsDocument(n.kept[p])
  BY DEF Made
<1>2. n.at \in Untouched => \A p \in DOMAIN n.kept : v.disk[p] = n.kept[p]
  BY DEF Made
<1>3. n.at = "done" /\ n.reply.err = "none" => WellTyped(n.req) /\ ~BadArguments(n.req)
  BY DEF Made
<1>4. ASSUME n.grown, Loading(n.req), n.at = "put"
      PROVE  /\ n.path = n.req.path /\ n.doc # None
             /\ \A p \in DOMAIN n.kept :
                   Locate(v, n.path) = Found(p) => n.doc = Changed(n.req, n.kept[p])
  <2>1. /\ k.path = k.req.path /\ k.doc # None
        /\ \A p \in DOMAIN k.kept :
              Locate(w, k.path) = Found(p) => k.doc = Changed(k.req, k.kept[p])
    BY <1>4 DEF Made
  <2>2. ASSUME NEW p \in DOMAIN n.kept, Locate(v, n.path) = Found(p)
        PROVE  n.doc = Changed(n.req, n.kept[p])
    <3> DEFINE tree == Tree(w)
               grown == Tree(v)
    <3>1. /\ tree.files = DOMAIN w.disk /\ tree.dirs = w.dirs /\ tree.links = w.links
          /\ grown.files = DOMAIN v.disk /\ grown.dirs = v.dirs /\ grown.links = v.links
      BY DEF Tree
    <3>2. IsVault(tree) /\ IsVault(grown)
      BY DEF Tidy
    <3>3. Locate(v, n.path) = ResolveExisting(grown, k.path) /\ Locate(w, k.path) = ResolveExisting(tree, k.path)
      BY DEF Locate
    <3>4. p \in DOMAIN w.disk
      BY <1>4, <2>2 DEF Untouched
    <3> HIDE DEF tree, grown
    <3>5. IsTree(grown) /\ p \in Nodes(tree)
      BY <3>1, <3>2, <3>4 DEF IsVault, Nodes
    <3>6. /\ tree.files \subseteq grown.files /\ tree.dirs \subseteq grown.dirs
          /\ tree.links \subseteq grown.links
      BY <1>4, <3>1
    <3>7. IsSeq(k.path) /\ ResolveExisting(grown, k.path) = Found(p)
      BY <1>4, <2>2, <3>3
    <3>8. ResolveExisting(tree, k.path) = Found(p)
      BY <3>2, <3>5, <3>6, <3>7, FoundBefore
    <3>9. k.doc = Changed(k.req, k.kept[p])
      BY <2>1, <2>2, <3>3, <3>8
    <3>10. n.kept[p] = k.kept[p]
      BY <2>2
    <3> QED
      BY <3>9, <3>10
  <2> QED
    BY <2>1, <2>2
<1>5. ASSUME n.grown, Loading(n.req), n.at = "reindex" \/ (n.at = "done" /\ n.reply.err = "none"),
             n.path \in DOMAIN n.kept, n.path \in DOMAIN v.disk
      PROVE  /\ Changed(n.req, n.kept[n.path]) # None
             /\ v.disk[n.path] = Changed(n.req, n.kept[n.path])
  <2>1. /\ k.path \in DOMAIN k.kept /\ n.kept[k.path] = k.kept[k.path]
        /\ k.path \in DOMAIN w.disk /\ v.disk[k.path] = w.disk[k.path]
    BY <1>5
  <2>2. k.grown /\ Loading(k.req) /\ (k.at = "reindex" \/ (k.at = "done" /\ k.reply.err = "none"))
    BY <1>5
  <2>3. /\ Changed(k.req, k.kept[k.path]) # None
        /\ w.disk[k.path] = Changed(k.req, k.kept[k.path])
    BY <2>1, <2>2 DEF Made
  <2> QED
    BY <2>1, <2>3
<1> QED
  BY <1>1, <1>2, <1>3, <1>4, <1>5 DEF Made

\* A step of one call leaves what is said of another true.
LEMMA OthersMade ==
    ASSUME Inv, Honesty, Tidy(World'), NEW c \in Callers, call[c].at # "idle", Made(World, call[c])
    PROVE  Made(World', Disturbed(call[c]))
<1> DEFINE k == call[c]
           kept == Restrict(k.kept, {p \in DOMAIN k.kept : Same(p)})
           alone == k.alone /\ vault' = vault
           grown == /\ k.grown /\ DOMAIN disk \subseteq DOMAIN disk'
                    /\ dirs \subseteq dirs' /\ links \subseteq links'
           n == [k EXCEPT !.kept = kept, !.alone = alone, !.grown = grown]
<1>1. /\ DOMAIN k = Fields /\ Tidy(World) /\ Free(World, k)
      /\ k.at = "put" /\ Loading(k.req) => IsSeq(k.path)
  <2>1. GoodCall(setup, k) /\ Free(World, k)
    BY HonestCall
  <2>2. Loading(k.req) => ~(k.req.tool = "note_insert" /\ k.req.position = "end")
                          /\ k.req.tool # "note_write"
    BY DEF Loading
  <2> HIDE DEF k
  <2>3. k.at = "put" /\ Loading(k.req) => IsSeq(k.path)
    BY <2>1, <2>2 DEF GoodCall, Ready
  <2> QED
    BY <2>1, <2>3 DEF GoodCall, Honesty, k
<1>2. Disturbed(k) = n
  BY Zenon DEF Disturbed
<1>3. \A p \in DOMAIN kept : /\ p \in DOMAIN k.kept /\ kept[p] = k.kept[p]
                             /\ p \in DOMAIN disk <=> p \in DOMAIN disk'
                             /\ p \in DOMAIN disk => disk'[p] = disk[p]
  BY DEF Restrict, Same
<1> HIDE DEF kept, alone
<1>4. grown => /\ k.grown /\ DOMAIN World.disk \subseteq DOMAIN World'.disk
               /\ World.dirs \subseteq World'.dirs /\ World.links \subseteq World'.links
  BY WorldsAre
<1> HIDE DEF grown
<1>5. /\ n.at = k.at /\ n.req = k.req /\ n.path = k.path /\ n.doc = k.doc /\ n.reply = k.reply
      /\ n.kept = kept /\ n.grown = grown
  BY <1>1 DEF Fields
<1>6. Made(World, k)
  OBVIOUS
<1> HIDE DEF n, k
<1> DEFINE w == World
           v == World'
<1>7. \A p \in DOMAIN n.kept : /\ p \in DOMAIN k.kept /\ n.kept[p] = k.kept[p]
                               /\ p \in DOMAIN w.disk <=> p \in DOMAIN v.disk
                               /\ p \in DOMAIN w.disk => v.disk[p] = w.disk[p]
  BY <1>3, <1>5, WorldsAre
<1>8. n.grown => /\ k.grown /\ DOMAIN w.disk \subseteq DOMAIN v.disk
                 /\ w.dirs \subseteq v.dirs /\ w.links \subseteq v.links
  BY <1>4, <1>5
<1>9. k.at \in Untouched => DOMAIN k.kept \subseteq DOMAIN w.disk
  BY <1>1 DEF Free
<1>10. Tidy(w) /\ Tidy(v) /\ Made(w, k)
  BY <1>1, <1>6
<1> HIDE DEF w, v
<1>11. Made(v, n)
  BY <1>1, <1>5, <1>7, <1>8, <1>9, <1>10, MadeOn
<1> QED
  BY <1>2, <1>11 DEF v, k

\* A step is as its own call is.
LEMMA StepMade ==
    ASSUME Inv, Honesty, AllMade, Honesty', NEW c \in Callers, NEW n, Becomes(c, n), Made(World', n)
    PROVE  AllMade'
<1>1. ASSUME NEW x \in Callers, call'[x].at # "idle" PROVE Made(World', call'[x])
  <2>1. CASE x = c
    BY <2>1 DEF Becomes
  <2>2. CASE x # c
    <3>1. call'[x] = Disturbed(call[x])
      BY <2>2 DEF Becomes
    <3>2. call[x].at # "idle"
      BY <1>1, <3>1 DEF Disturbed
    <3>3. Made(World, call[x]) /\ Tidy(World')
      BY <3>2 DEF AllMade, Honesty
    <3> QED
      BY <3>1, <3>2, <3>3, OthersMade
  <2> QED
    BY <2>1, <2>2
<1> QED
  BY <1>1 DEF AllMade

\* A step of a call that keeps what it has and is no edit of a document that it
\* read first.
LEMMA GoesMade ==
    ASSUME Inv, Honesty, AllMade, Honesty', NEW c \in Callers, call[c].at \notin {"idle", "done"},
           ~Loading(call[c].req), NEW n, Becomes(c, n),
           n.req = call[c].req, n.kept = call[c].kept,
           n.at \in Untouched => call[c].at \in Untouched /\ disk' = disk
    PROVE  AllMade'
<1> DEFINE k == call[c]
<1>1. Made(World, k) /\ Fits(setup, k)
  BY DEF AllMade, Inv, GoodCall
<1>2. WellTyped(k.req) /\ ~BadArguments(k.req)
  BY <1>1 DEF Fits
<1>3. n.at \in Untouched => \A p \in DOMAIN n.kept : World'.disk[p] = n.kept[p]
  BY <1>1, WorldsAre DEF Made
<1>4. \A p \in DOMAIN n.kept : IsDocument(n.kept[p])
  BY <1>1 DEF Made
<1>5. Made(World', n)
  <2>1. WellTyped(n.req) /\ ~BadArguments(n.req) /\ ~Loading(n.req)
    BY <1>2
  <2> HIDE DEF k
  <2> QED
    BY <1>3, <1>4, <2>1 DEF Made
<1> QED
  BY <1>5, StepMade

\* An answer: that an edit is done only after the index has it.
LEMMA ReplyMade ==
    ASSUME Inv, Honesty, AllMade, Honesty', NEW c \in Callers, call[c].at \notin {"idle", "done"},
           NEW r, Reply(c, r), disk' = disk,
           r.err = "none" /\ Loading(call[c].req) => call[c].at = "reindex"
    PROVE  AllMade'
<1> DEFINE k == call[c]
           n == [k EXCEPT !.at = "done", !.reply = r]
<1>1. Made(World, k) /\ GoodCall(setup, k) /\ DOMAIN k = Fields
  BY DEF AllMade, Inv, GoodCall
<1>2. WellTyped(k.req) /\ ~BadArguments(k.req)
  BY <1>1 DEF GoodCall, Fits
<1>3. Becomes(c, n)
  BY Zenon DEF Reply
<1>4. /\ n.at = "done" /\ n.reply = r /\ n.req = k.req /\ n.path = k.path /\ n.doc = k.doc
      /\ n.kept = k.kept /\ n.grown = k.grown
  BY <1>1 DEF Fields
<1> HIDE DEF n
<1>5. World'.disk = World.disk
  BY WorldsAre
<1>6. Made(World', n)
  <2> DEFINE w == World
             v == World'
  <2>1. Made(w, k) /\ v.disk = w.disk /\ (r.err = "none" /\ Loading(k.req) => k.at = "reindex")
    BY <1>1, <1>5
  <2> HIDE DEF w, v, k
  <2>2. \A p \in DOMAIN n.kept : IsDocument(n.kept[p])
    BY <1>4, <2>1 DEF Made
  <2>3. n.at \notin Untouched /\ n.at # "put" /\ n.at # "reindex"
    BY <1>4 DEF Untouched
  <2>4. WellTyped(n.req) /\ ~BadArguments(n.req)
    BY <1>2, <1>4
  <2>5. ASSUME n.grown, Loading(n.req), n.reply.err = "none",
               n.path \in DOMAIN n.kept, n.path \in DOMAIN v.disk
        PROVE  /\ Changed(n.req, n.kept[n.path]) # None
               /\ v.disk[n.path] = Changed(n.req, n.kept[n.path])
    <3>1. k.grown /\ Loading(k.req) /\ k.at = "reindex" /\ k.path \in DOMAIN k.kept
          /\ k.path \in DOMAIN w.disk
      BY <1>4, <2>1, <2>5
    <3>2. /\ Changed(k.req, k.kept[k.path]) # None
          /\ w.disk[k.path] = Changed(k.req, k.kept[k.path])
      BY <2>1, <3>1 DEF Made
    <3> QED
      BY <1>4, <2>1, <3>2
  <2>6. Made(v, n)
    BY <2>2, <2>3, <2>4, <2>5 DEF Made
  <2> QED
    BY <2>6 DEF v
<1> QED
  BY <1>3, <1>6, StepMade

\* A refusal.
LEMMA FailMade ==
    ASSUME Inv, Honesty, AllMade, Honesty', NEW c \in Callers, call[c].at \notin {"idle", "done"},
           NEW why, Fail(c, why), why # "none" \/ ~Loading(call[c].req)
    PROVE  AllMade'
<1>1. Refusal(why).err = why
  BY DEF Refusal
<1> QED
  BY <1>1, ReplyMade DEF Fail, vault

\* A call begins with the documents that there are.
LEMMA BeginMade ==
    ASSUME Inv, Honesty, AllMade, Honesty', NEW c \in Callers, NEW r, Begin(c, r)
    PROVE  AllMade'
<1> DEFINE k == [Idle EXCEPT !.req = r, !.kept = disk]
           refused(why) == [k EXCEPT !.at = "done", !.reply = Refusal(why)]
           n == [k EXCEPT !.at = FirstStep(r)]
<1>1. UNCHANGED vault
  BY DEF Begin
<1>2. DOMAIN k = Fields /\ k.req = r /\ k.kept = disk
  BY DEF Idle, Fields
<1> HIDE DEF k
<1>3. World'.disk = disk /\ \A p \in DOMAIN disk : IsDocument(disk[p])
  BY <1>1, WorldsAre DEF vault, Inv, Sound
<1>4. ASSUME NEW why, why # "none" PROVE Made(World', refused(why))
  <2> DEFINE m == refused(why)
  <2>1. m.at = "done" /\ m.reply = Refusal(why) /\ m.req = r /\ m.kept = disk
    BY <1>2 DEF Fields
  <2>2. Refusal(why).err = why
    BY DEF Refusal
  <2> HIDE DEF m
  <2>3. m.reply.err # "none" /\ m.at \notin Untouched /\ m.at # "put" /\ m.at # "reindex"
    BY <1>4, <2>1, <2>2 DEF Untouched
  <2>4. Made(World', m)
    BY <1>3, <2>1, <2>3 DEF Made
  <2> QED
    BY <2>4 DEF m
<1>5. Made(World', n)
  <2>1. n.at = FirstStep(r) /\ n.req = r /\ n.kept = disk
    BY <1>2 DEF Fields
  <2> HIDE DEF n
  <2>2. n.at \notin {"done", "reindex"} /\ (Loading(r) => n.at # "put")
    <3>1. FirstStep(r) \notin {"done", "reindex"}
      BY DEF FirstStep
    <3>2. Loading(r) => FirstStep(r) # "put"
      BY DEF FirstStep, Loading, Creating
    <3> QED
      BY <2>1, <3>1, <3>2
  <2> QED
    BY <1>3, <2>1, <2>2 DEF Made
<1>6. Becomes(c, n) \/ Becomes(c, refused("no_tool")) \/ Becomes(c, refused("params"))
  BY Zenon DEF Begin, k
<1>7. Made(World', refused("no_tool")) /\ Made(World', refused("params"))
  BY <1>4
<1> HIDE DEF n, refused
<1> QED
  BY <1>5, <1>6, <1>7, StepMade

\* What is read is made into what will be written.
LEMMA LoadMade ==
    ASSUME Inv, Honesty, AllMade, Honesty', NEW c \in Callers, Load(c) PROVE AllMade'
<1> DEFINE k == call[c]
           raw == Req(c).path
           at == Locate(World, raw)
           old == ReadFile(World, raw)
           new == Changed(Req(c), old.body)
           n == [k EXCEPT !.at = "put", !.path = raw, !.doc = new]
<1>1. k.at = "load"
  BY DEF Load, At
<1>2. /\ DOMAIN k = Fields /\ GoodCall(setup, k) /\ Free(World, k) /\ Req(c) = k.req
      /\ Made(World, k) /\ IsVault(Tree(World))
  BY <1>1, HonestCall DEF AllMade
<1>3. \/ old.err # "none" /\ Fail(c, old.err)
      \/ Fail(c, "target")
      \/ old.err = "none" /\ new # None /\ UNCHANGED vault /\ Becomes(c, n)
  BY Zenon DEF Load, LoadFrom, Rewrite
<1>4. ASSUME old.err = "none", new # None, UNCHANGED vault, Becomes(c, n) PROVE AllMade'
  <2>1. /\ n.at = "put" /\ n.path = raw /\ n.doc = new /\ n.req = k.req /\ n.kept = k.kept
        /\ n.grown = k.grown
    BY <1>2 DEF Fields
  <2>2. Becomes(c, n)
    BY <1>4
  <2>3. World' = World
    BY <1>4 DEF vault, World
  <2> HIDE DEF n
  <2>4. \A p \in DOMAIN n.kept : IsDocument(n.kept[p]) /\ World.disk[p] = n.kept[p]
    BY <1>1, <1>2, <2>1 DEF Made, Untouched
  <2>5. ASSUME NEW p \in DOMAIN n.kept, at = Found(p) PROVE n.doc = Changed(n.req, n.kept[p])
    <3>1. at.err = "none" /\ at.path = p
      BY <2>5 DEF Found
    <3>2. old = IF at.err # "none" THEN Refusal(at.err)
                ELSE IF at.path \in dirs THEN Refusal("io") ELSE Answer(disk[at.path])
      BY WorldIs DEF ReadFile, ReadAt
    <3>3. p \notin dirs
      <4>1. p \in DOMAIN disk
        BY <1>1, <1>2, <2>1, <2>5, WorldsAre DEF Free, Untouched
      <4> QED
        BY <1>2, <4>1, WorldsAre DEF IsVault
    <3> HIDE DEF at, old, k
    <3>4. old = Answer(disk[p])
      BY <3>1, <3>2, <3>3
    <3>5. old.body = World.disk[p]
      BY <3>4, WorldsAre DEF Answer
    <3>6. World.disk[p] = n.kept[p]
      BY <2>4, <2>5
    <3> QED
      BY <1>2, <2>1, <3>5, <3>6
  <2>6. Made(World, n)
    <3>1. n.at \notin {"done", "reindex"} /\ n.path = n.req.path /\ n.doc # None
      BY <1>2, <1>4, <2>1
    <3>2. \A p \in DOMAIN n.kept : Locate(World, n.path) = Found(p) => n.doc = Changed(n.req, n.kept[p])
      BY <2>1, <2>5
    <3> QED
      BY <2>4, <3>1, <3>2 DEF Made
  <2> QED
    BY <2>2, <2>3, <2>6, StepMade
<1>5. k.at \notin {"idle", "done"}
  BY <1>1
<1> HIDE DEF old, n, new
<1> QED
  BY <1>3, <1>4, <1>5, FailMade

\* An edit is of a tool that reads before it writes.
LEMMA LoadingIs ==
    ASSUME NEW r, Loading(r)
    PROVE  r.tool \in {"note_patch", "note_frontmatter_edit", "note_insert"}
BY DEF Loading

\* What was made is written where the path leads, or else refused.
LEMMA PutMade ==
    ASSUME Inv, Honesty, AllMade, Honesty', NEW c \in Callers, Put(c) PROVE AllMade'
<1> DEFINE k == call[c]
           raw == Target(c)
           r == ResolveForWrite(Tree(World), raw)
           q == r.path
           new == Written(c, q)
           n == [k EXCEPT !.at = "reindex", !.path = q]
<1>1. k.at = "put"
  BY DEF Put, At
<1>2. /\ DOMAIN k = Fields /\ Free(World, k) /\ Req(c) = k.req /\ GoodCall(setup, k)
      /\ Made(World, k) /\ Sound /\ Tidy(World) /\ IsVault(Tree(World))
      /\ k.at \notin {"idle", "done"}
  BY <1>1, HonestCall DEF AllMade
<1>3. IsSeq(raw)
  BY <1>1, WrittenIs
<1>4. r.err \in Reasons
  BY <1>2, <1>3, LocateFails
<1>5. \/ r.err # "none" /\ Fail(c, r.err)
      \/ Fail(c, "io")
      \/ r.err = "none" /\ disk' = With(disk, q, new) /\ Becomes(c, n)
  BY Zenon DEF Put, PutAt
<1>6. /\ n.at = "reindex" /\ n.path = q /\ n.req = k.req /\ n.kept = k.kept /\ n.grown = k.grown
  BY <1>2 DEF Fields
<1>7. ASSUME r.err = "none", disk' = With(disk, q, new), Becomes(c, n), Loading(k.req)
      PROVE  AllMade'
  <2> DEFINE tree == Tree(World)
  <2>1. q \in Nodes(tree) => Locate(World, raw) = Found(q)
    BY <1>2, <1>3, <1>7, WritePlace DEF Locate
  <2>2. raw = k.path /\ new = k.doc
    <3>1. /\ k.req.tool \in {"note_patch", "note_frontmatter_edit", "note_insert"}
          /\ ~(k.req.tool = "note_insert" /\ k.req.position = "end")
      BY <1>7 DEF Loading
    <3>2. Req(c) = k.req
      BY <1>2
    <3> QED
      BY <1>7, <3>1, <3>2 DEF Target, Written, Uses
  <2>3. Becomes(c, n)
    BY <1>7
  <2>4. DOMAIN k.kept \subseteq DOMAIN disk /\ DOMAIN disk \subseteq Nodes(tree)
    BY <1>1, <1>2, WorldsAre DEF Free, Untouched, Nodes
  <2>5. q \in DOMAIN disk' /\ World'.disk = disk' /\ disk'[q] = new
    BY <1>7, WorldsAre DEF With
  <2> HIDE DEF n, r, q, new, raw, tree
  <2>6. k.grown /\ Loading(k.req) =>
           /\ k.doc # None
           /\ \A p \in DOMAIN k.kept : Locate(World, k.path) = Found(p) => k.doc = Changed(k.req, k.kept[p])
    BY <1>1, <1>2 DEF Made
  <2>7. \A p \in DOMAIN k.kept : IsDocument(k.kept[p])
    BY <1>2 DEF Made
  <2>8. ASSUME k.grown, q \in DOMAIN k.kept
        PROVE  Changed(k.req, k.kept[q]) # None /\ World'.disk[q] = Changed(k.req, k.kept[q])
    <3>1. Locate(World, k.path) = Found(q)
      BY <2>1, <2>2, <2>4, <2>8
    <3>2. k.doc = Changed(k.req, k.kept[q]) /\ k.doc # None
      BY <1>7, <2>6, <2>8, <3>1
    <3> QED
      BY <2>2, <2>5, <3>2
  <2> HIDE DEF k
  <2>9. n.at \notin Untouched /\ n.at # "put" /\ n.at # "done"
    BY <1>6 DEF Untouched
  <2>10. Made(World', n)
    BY <1>6, <2>7, <2>8, <2>9 DEF Made
  <2> QED
    BY <2>3, <2>10, StepMade
<1>8. ASSUME Becomes(c, n), ~Loading(k.req) PROVE AllMade'
  <2>1. Becomes(c, n)
    BY <1>8
  <2> HIDE DEF n
  <2>2. n.at \notin Untouched
    BY <1>6 DEF Untouched
  <2> QED
    BY <1>2, <1>6, <1>8, <2>1, <2>2, GoesMade
<1> HIDE DEF r, q, n, new
<1> QED
  BY <1>2, <1>4, <1>5, <1>7, <1>8, FailMade DEF Reasons

\* The index takes it, and the call is done.
LEMMA ReindexMade ==
    ASSUME Inv, Honesty, AllMade, Honesty', NEW c \in Callers, Reindex(c) PROVE AllMade'
<1> DEFINE r == Locate(World, call[c].path)
<1>1. call[c].at = "reindex"
  BY DEF Reindex, At
<1>2. \/ r.err # "none" /\ Fail(c, r.err)
      \/ disk' = disk /\ \E x : Reply(c, x)
  BY Zenon DEF Reindex, ReindexAt, IndexNote, Done
<1> HIDE DEF r
<1> QED
  BY <1>1, <1>2, FailMade, ReplyMade

\* Which steps are of no such edit.
LEMMA NoLoading ==
    ASSUME Inv, Honesty, NEW c \in Callers,
           \/ call[c].at \in {"check", "unlink", "unindex", "rename", "relink"} \cup Scanning
           \/ call[c].at = "answer"
    PROVE  ~Loading(call[c].req) /\ call[c].at \notin {"idle", "done"} /\ DOMAIN call[c] = Fields
<1>1. call[c].at \notin {"idle", "done"} /\ Kind(call[c]) /\ GoodCall(setup, call[c])
  BY HonestCall DEF Scanning
<1>2. call[c].at \in Scanning => call[c].req.tool = "note_read_many"
  BY AtScan
<1>3. call[c].at = "answer" => call[c].req.tool \notin Edits
  BY <1>1 DEF GoodCall, Fits, Changing
<1>4. call[c].req.tool \notin {"note_patch", "note_frontmatter_edit", "note_insert"}
  BY <1>1, <1>2, <1>3 DEF Kind, Creating, Edits, Editing, Scanning
<1> QED
  BY <1>1, <1>4, LoadingIs DEF GoodCall

\* A step of one that keeps what it has,
LEMMA OtherGoes ==
    ASSUME Inv, Honesty, AllMade, Honesty', NEW c \in Callers,
           \/ call[c].at \in {"check", "unlink", "unindex", "rename", "relink"} \cup Scanning
           \/ call[c].at = "answer",
           NEW n, Becomes(c, n), n.req = call[c].req, n.kept = call[c].kept,
           n.at \in Untouched => call[c].at \in Untouched /\ disk' = disk
    PROVE  AllMade'
BY NoLoading, GoesMade

\* or that answers.
LEMMA OtherReplies ==
    ASSUME Inv, Honesty, AllMade, Honesty', NEW c \in Callers,
           \/ call[c].at \in {"check", "unlink", "unindex", "rename", "relink"} \cup Scanning
           \/ call[c].at = "answer",
           NEW r, Reply(c, r)
    PROVE  AllMade'
<1> DEFINE k == call[c]
           n == [k EXCEPT !.at = "done", !.reply = r]
<1>1. Becomes(c, n)
  BY Zenon DEF Reply
<1>2. n.at = "done" /\ n.req = k.req /\ n.kept = k.kept
  BY NoLoading DEF Fields
<1> HIDE DEF n
<1>3. n.at \notin Untouched
  BY <1>2 DEF Untouched
<1> QED
  BY <1>1, <1>2, <1>3, OtherGoes

LEMMA CheckNewMade ==
    ASSUME Inv, Honesty, AllMade, Honesty', NEW c \in Callers, CheckNew(c) PROVE AllMade'
<1> DEFINE k == call[c]
           r == Req(c)
           d == NewNote(r)
           n == [k EXCEPT !.at = "put", !.path = NewPath(r), !.doc = d.body]
<1>1. k.at = "check"
  BY DEF CheckNew, At
<1>2. (\E x : Reply(c, x)) \/ (UNCHANGED vault /\ Becomes(c, n))
  BY Zenon DEF CheckNew, Fail
<1>3. n.at = "put" /\ n.req = k.req /\ n.kept = k.kept /\ k.at \in Untouched
  BY <1>1, NoLoading DEF Fields, Untouched
<1> HIDE DEF n, d
<1> QED
  BY <1>1, <1>2, <1>3, OtherGoes, OtherReplies DEF vault

LEMMA UnlinkMade ==
    ASSUME Inv, Honesty, AllMade, Honesty', NEW c \in Callers, Unlink(c) PROVE AllMade'
<1> DEFINE k == call[c]
           r == Locate(World, Req(c).path)
           n == [k EXCEPT !.at = "unindex", !.path = r.path]
<1>1. k.at = "unlink"
  BY DEF Unlink, At
<1>2. (\E x : Reply(c, x)) \/ Becomes(c, n)
  BY Zenon DEF Unlink, UnlinkAt, Fail
<1>3. n.at = "unindex" /\ n.req = k.req /\ n.kept = k.kept
  BY <1>1, NoLoading DEF Fields
<1> HIDE DEF n, r
<1> QED
  BY <1>1, <1>2, <1>3, OtherGoes, OtherReplies DEF Untouched

LEMMA UnindexMade ==
    ASSUME Inv, Honesty, AllMade, Honesty', NEW c \in Callers, Unindex(c) PROVE AllMade'
<1>1. call[c].at = "unindex" /\ \E x : Reply(c, x)
  BY DEF Unindex, At, Done
<1> QED
  BY <1>1, OtherReplies

LEMMA CheckMoveMade ==
    ASSUME Inv, Honesty, AllMade, Honesty', NEW c \in Callers, CheckMove(c) PROVE AllMade'
<1> DEFINE k == call[c]
           from == Locate(World, Req(c).path)
           to == ResolveForWrite(Tree(World), Req(c).to)
           n == [k EXCEPT !.at = "rename", !.doc = from.path, !.path = to.path]
<1>1. k.at = "check"
  BY DEF CheckMove, At
<1>2. (\E x : Reply(c, x)) \/ (UNCHANGED vault /\ Becomes(c, n))
  BY Zenon DEF CheckMove, CheckMoveAt, Fail
<1>3. n.at = "rename" /\ n.req = k.req /\ n.kept = k.kept /\ k.at \in Untouched
  BY <1>1, NoLoading DEF Fields, Untouched
<1> HIDE DEF n, from, to
<1> QED
  BY <1>1, <1>2, <1>3, OtherGoes, OtherReplies DEF vault

LEMMA RenameMade ==
    ASSUME Inv, Honesty, AllMade, Honesty', NEW c \in Callers, Rename(c) PROVE AllMade'
<1> DEFINE k == call[c]
           n == [k EXCEPT !.at = "relink"]
<1>1. k.at = "rename"
  BY DEF Rename, At
<1>2. (\E x : Reply(c, x)) \/ Becomes(c, n)
  BY Zenon DEF Rename, Fail
<1>3. n.at = "relink" /\ n.req = k.req /\ n.kept = k.kept
  BY <1>1, NoLoading DEF Fields
<1> HIDE DEF n
<1> QED
  BY <1>1, <1>2, <1>3, OtherGoes, OtherReplies DEF Untouched

LEMMA RelinkMade ==
    ASSUME Inv, Honesty, AllMade, Honesty', NEW c \in Callers, Relink(c) PROVE AllMade'
<1>1. call[c].at = "relink"
  BY DEF Relink, At
<1>2. \E x : Reply(c, x)
  BY Zenon DEF Relink, IndexNote, Done
<1> QED
  BY <1>1, <1>2, OtherReplies

\* note_read_many.
LEMMA NextMade ==
    ASSUME Inv, Honesty, AllMade, Honesty', NEW c \in Callers, call[c].at \in Scanning,
           NEW m, NextCandidate(c, m)
    PROVE  AllMade'
<1> DEFINE n == [call[c] EXCEPT !.at = "stat", !.doc = m]
<1>1. Becomes(c, n) /\ disk' = disk
  BY Zenon DEF NextCandidate, vault
<1>2. n.req = call[c].req /\ n.kept = call[c].kept /\ call[c].at \in Untouched
  BY AtScan DEF Fields, Scanning, Untouched
<1> HIDE DEF n
<1> QED
  BY <1>1, <1>2, OtherGoes

LEMMA UnavailableMade ==
    ASSUME Inv, Honesty, AllMade, Honesty', NEW c \in Callers, call[c].at \in Scanning,
           NEW m, NEW p, NEW why, Unavailable(c, m, p, why)
    PROVE  AllMade'
<1>1. (\E x : NextCandidate(c, x)) \/ \E x : Reply(c, x)
  BY Zenon DEF Unavailable, Fail
<1> QED
  BY <1>1, NextMade, OtherReplies

LEMMA SelectMade ==
    ASSUME Inv, Honesty, AllMade, Honesty', NEW c \in Callers, Select(c) PROVE AllMade'
<1>1. call[c].at \in Scanning
  BY DEF Select, At, Scanning
<1>2. (\E x : Reply(c, x)) \/ \E m : NextCandidate(c, m)
  BY Zenon DEF Select, SelectFrom, NextCandidate, Fail
<1> QED
  BY <1>1, <1>2, NextMade, OtherReplies

LEMMA StatMade ==
    ASSUME Inv, Honesty, AllMade, Honesty', NEW c \in Callers, Stat(c) PROVE AllMade'
<1> DEFINE m == call[c].doc
           r == Locate(World, Head(m.todo))
           n == [call[c] EXCEPT !.at = "read", !.path = r.path]
<1>1. call[c].at \in Scanning
  BY DEF Stat, At, Scanning
<1>2. \/ Unavailable(c, m, Head(m.todo), r.err)
      \/ \E x : NextCandidate(c, x)
      \/ UNCHANGED vault /\ Becomes(c, n)
  BY Zenon DEF Stat
<1>3. n.req = call[c].req /\ n.kept = call[c].kept /\ call[c].at \in Untouched
  BY <1>1, AtScan DEF Fields, Scanning, Untouched
<1> HIDE DEF m, r, n
<1> QED
  BY <1>1, <1>2, <1>3, UnavailableMade, NextMade, OtherGoes DEF vault

LEMMA ReadOneMade ==
    ASSUME Inv, Honesty, AllMade, Honesty', NEW c \in Callers, ReadOne(c) PROVE AllMade'
<1>1. call[c].at \in Scanning
  BY DEF ReadOne, At, Scanning
<1>2. (\E m, p, why : Unavailable(c, m, p, why)) \/ \E m : NextCandidate(c, m)
  BY Zenon DEF ReadOne
<1> QED
  BY <1>1, <1>2, UnavailableMade, NextMade

LEMMA ConcludeMade ==
    ASSUME Inv, Honesty, AllMade, Honesty', NEW c \in Callers, Conclude(c) PROVE AllMade'
<1>1. call[c].at \in Scanning
  BY DEF Conclude, At, Scanning
<1>2. \E x : Reply(c, x)
  BY Zenon DEF Conclude
<1> QED
  BY <1>1, <1>2, OtherReplies

LEMMA Read1Made ==
    ASSUME Inv, Honesty, AllMade, Honesty', NEW c \in Callers, Read1(c) PROVE AllMade'
<1>1. call[c].at = "answer" /\ \E x : Reply(c, x)
  BY DEF Read1, At
<1> QED
  BY <1>1, OtherReplies

\* Every step leaves what was made as it is said.
LEMMA AllMadeKeeps == Inv /\ Honesty /\ AllMade /\ [Next]_vars => AllMade'
<1> SUFFICES ASSUME Inv, Honesty, AllMade, [Next]_vars PROVE AllMade'
  OBVIOUS
<1>1. Honesty'
  BY HonestyKeeps
<1>2. ASSUME NEW c \in Callers, NEW r \in Setups[setup].requests[c], Begin(c, r) PROVE AllMade'
  BY <1>1, <1>2, BeginMade
<1>3. ASSUME NEW c \in Callers, Step1(c) PROVE AllMade'
  BY <1>1, <1>3, CheckNewMade, LoadMade, PutMade, ReindexMade, UnlinkMade, UnindexMade,
     CheckMoveMade, RenameMade, RelinkMade, SelectMade, StatMade, ReadOneMade,
     ConcludeMade, Read1Made DEF Step1
<1>4. ASSUME NEW e \in Setups[setup].edits, Edit(e) PROVE AllMade'
  <2>1. ASSUME NEW c \in Callers, call'[c].at # "idle" PROVE Made(World', call'[c])
    <3>1. call'[c] = Disturbed(call[c])
      BY <1>4 DEF Edit
    <3>2. call[c].at # "idle"
      BY <2>1, <3>1 DEF Disturbed
    <3>3. Made(World, call[c]) /\ Tidy(World')
      BY <1>1, <3>2 DEF AllMade, Honesty
    <3> QED
      BY <3>1, <3>2, <3>3, OthersMade
  <2> QED
    BY <2>1 DEF AllMade
<1>5. CASE UNCHANGED vars
  <2>1. World' = World /\ call' = call
    BY <1>5 DEF vars, World
  <2> HIDE DEF World
  <2> QED
    BY <2>1 DEF AllMade
<1> QED
  BY <1>2, <1>3, <1>4, <1>5 DEF Next

\* No call has begun.
LEMMA InitMade == Init => AllMade
<1> SUFFICES ASSUME Init PROVE AllMade
  OBVIOUS
<1>1. \A c \in Callers : call[c].at = "idle"
  BY DEF Init, Idle
<1> QED
  BY <1>1 DEF AllMade

\* What a call that edits a document has made of it, where nobody interfered.
LEMMA WhatWasMade ==
    ASSUME Inv, AllMade, NEW c \in Callers, NEW tools, Answered(c, tools), Undisturbed(c),
           Loading(Req(c))
    PROVE  /\ After(c) = Changed(Req(c), Before(c)) /\ After(c) # None
           /\ IsDocument(Before(c)) /\ WellTyped(Req(c)) /\ ~BadArguments(Req(c))
<1> DEFINE k == call[c]
<1>1. /\ k.at = "done" /\ k.reply.err = "none" /\ Req(c) = k.req /\ k.grown
      /\ k.path \in DOMAIN k.kept /\ k.path \in DOMAIN disk
      /\ Before(c) = k.kept[k.path] /\ After(c) = disk[k.path]
  BY DEF Answered, Undisturbed, Before, After, Req
<1>2. Made(World, k)
  BY <1>1 DEF AllMade
<1> HIDE DEF k
<1> QED
  BY <1>1, <1>2, WorldsAre DEF Made

\* An edit of front matter changes the field that it names and nothing else, and
\* what is inserted at the beginning comes behind it (frontmatter.rs): for any
\* documents, fields and requests, whatever other clients do meanwhile to other
\* files.
THEOREM FieldsKept == MarkersAreNoData => (Spec => []FieldEditsKeepTheRest)
<1> SUFFICES ASSUME MarkersAreNoData PROVE Spec => []FieldEditsKeepTheRest
  OBVIOUS
<1>1. Inv /\ Honesty /\ AllMade => FieldEditsKeepTheRest
  <2> SUFFICES ASSUME Inv, AllMade, NEW c \in Callers
      PROVE  LET r   == Req(c)
                 old == ParseFrontmatter(Before(c))
                 new == ParseFrontmatter(After(c))
                 k   == IF r.tool = "note_patch" THEN r.patch.target ELSE r.key
                 Rest(fm) == IF fm = Absent THEN <<>> ELSE Without(fm, k)
                 stripped == /\ r.tool = "note_frontmatter_edit" /\ r.action = "remove"
                             /\ Rest(old) = <<>>
             IN /\ Answered(c, {"note_patch", "note_frontmatter_edit"}) /\ Undisturbed(c)
                   /\ (r.tool = "note_patch" => r.patch.type = "frontmatter")
                   /\ RawFrontmatter(Before(c)) = FrontmatterBoundaries(Before(c))
                   /\ (stripped => RawFrontmatter(GetBody(Before(c))) = 0) =>
                      /\ new # None /\ Rest(new) = Rest(old)
                      /\ GetBody(After(c)) = GetBody(Before(c))
                /\ Answered(c, {"note_insert"}) /\ Undisturbed(c) /\ Agreed(Before(c))
                   /\ Loading(r) /\ IsProse(r.content) => new = old
    BY Zenon DEF FieldEditsKeepTheRest
  <2> DEFINE r == Req(c)
             d == Before(c)
             e == After(c)
             f == IF r.tool = "note_patch" THEN r.patch.target ELSE r.key
             stripped == /\ r.tool = "note_frontmatter_edit" /\ r.action = "remove"
                         /\ Others(ParseFrontmatter(d), f) = <<>>
             Kept == /\ ParseFrontmatter(e) # None
                     /\ Others(ParseFrontmatter(e), f) = Others(ParseFrontmatter(d), f)
                     /\ GetBody(e) = GetBody(d)
  <2>1. ASSUME Answered(c, {"note_patch", "note_frontmatter_edit"}), Undisturbed(c),
               r.tool = "note_patch" => r.patch.type = "frontmatter",
               RawFrontmatter(d) = FrontmatterBoundaries(d),
               stripped => RawFrontmatter(GetBody(d)) = 0
        PROVE  Kept
    <3>1. r.tool \in {"note_patch", "note_frontmatter_edit"} /\ Loading(r)
      BY <2>1 DEF Answered, Loading
    <3>2. e = Changed(r, d) /\ e # None /\ IsDocument(d) /\ WellTyped(r) /\ ~BadArguments(r)
      BY <2>1, <3>1, WhatWasMade
    <3> HIDE DEF r, d, e
    <3>3. CASE r.tool = "note_patch"
      <4>1. r.patch.op \in {"append", "prepend", "replace"} /\ r.patch.type = "frontmatter"
        BY <2>1, <3>2, <3>3 DEF WellTyped
      <4>2. Changed(r, d) = ApplyPatch(d, r.patch) /\ f = r.patch.target
        BY <3>3 DEF Changed
      <4>3. ApplyPatch(d, r.patch) = PatchFrontmatter(d, r.patch.op, r.patch.target,
                                                      Head(r.patch.content.lines).text)
        BY <4>1 DEF ApplyPatch
      <4> HIDE DEF f
      <4> QED
        BY <2>1, <3>2, <4>1, <4>2, <4>3, PatchKeeps
    <3>4. CASE r.tool = "note_frontmatter_edit"
      <4>1. r.action = "set" \/ r.action = "remove"
        BY <3>2, <3>4 DEF BadArguments
      <4>2. r.action = "set" => r.value = [form |-> r.value.form, value |-> r.value.value]
        BY <3>2, <3>4 DEF BadArguments, WellTyped
      <4>3. f = r.key /\ Changed(r, d) = IF r.action = "set" THEN SetField(d, r.key, r.value)
                                         ELSE RemoveField(d, r.key)
        BY <3>4 DEF Changed
      <4>4. stripped <=> r.action = "remove" /\ Others(ParseFrontmatter(d), f) = <<>>
        BY <3>4
      <4> HIDE DEF f, stripped
      <4>5. CASE r.action = "set"
        BY <3>2, <4>2, <4>3, <4>5, SetKeeps
      <4>6. CASE r.action = "remove"
        BY <2>1, <3>2, <4>3, <4>4, <4>6, RemoveKeeps
      <4> QED
        BY <4>1, <4>5, <4>6
    <3> QED
      BY <3>1, <3>3, <3>4
  <2>2. ASSUME Answered(c, {"note_insert"}), Undisturbed(c), Agreed(d), Loading(r), IsProse(r.content)
        PROVE  ParseFrontmatter(e) = ParseFrontmatter(d)
    <3>1. r.tool = "note_insert"
      BY <2>2 DEF Answered
    <3>2. e = Changed(r, d) /\ IsDocument(d) /\ WellTyped(r)
      BY <2>2, WhatWasMade
    <3>3. HasLines(r.content) /\ d.closed
      BY <2>2, <3>1, <3>2 DEF WellTyped, Agreed
    <3>4. Changed(r, d) = PrependNote(d, r.content)
      BY <3>1 DEF Changed
    <3> HIDE DEF r, d, e
    <3> QED
      BY <2>2, <3>2, <3>3, <3>4, PrependKeeps
  <2> HIDE DEF d, e
  <2> QED
    BY <2>1, <2>2, Zenon DEF Others, d, e
<1>2. Inv /\ Honesty /\ AllMade /\ [Next]_vars => AllMade'
  BY AllMadeKeeps
<1> QED
  BY <1>1, <1>2, CallsCorrect, CallsHonest, InitMade, PTL DEF Spec

--------------------------------------------------------------------------------
(* Where a patch of a note lands, for a reader of the Markdown.                *)

\* Where patch.rs and Markdown agree, they take the same lines for prose.
LEMMA SameProse == ASSUME NEW d, IsDocument(d), Agreed(d) PROVE PatchProse(d) = MdProse(d)
<1> DEFINE n == Len(d.lines)
           C == Closings(d, IsDelim)
           S == C \cup {n}
<1>1. n \in Nat
  BY LinesAre, IsSeqLen
<1>2. C \subseteq 2..n
  BY DEF Closings
<1>3. CASE d.lines # <<>> /\ IsDelim(Head(d.lines))
  <2>1. C # {}
    BY <1>3 DEF Agreed
  <2>2. PatchProse(d) = Unfenced(d, Min(S)) /\ MdProse(d) = Unfenced(d, Min(C))
    BY <1>3, <2>1, Zenon DEF PatchProse, MdProse
  <2> HIDE DEF C, n
  <2>3. C \in SUBSET Nat /\ S \in SUBSET Nat /\ S # {}
    BY <1>1, <1>2
  <2>4. Min(C) \in C /\ (\A y \in C : Min(C) <= y) /\ Min(S) \in S /\ \A y \in S : Min(S) <= y
    BY <2>1, <2>3, MinIsLeast
  <2>5. Min(C) = Min(S)
    <3> DEFINE x == Min(C)
               y == Min(S)
    <3>1. x \in 2..n /\ y \in Nat /\ y <= x /\ (y = n \/ x <= y)
      BY <1>2, <2>3, <2>4
    <3> HIDE DEF x, y
    <3>2. x = y
      BY <1>1, <3>1
    <3> QED
      BY <3>2 DEF x, y
  <2> QED
    BY <2>2, <2>5
<1>4. CASE ~(d.lines # <<>> /\ IsDelim(Head(d.lines)))
  BY <1>4, Zenon DEF PatchProse, MdProse
<1> QED
  BY <1>3, <1>4

\* So they have the same headings, with their levels.
LEMMA SameHeadings ==
    ASSUME NEW d, IsDocument(d), Agreed(d)
    PROVE  /\ PatchHeadings(d) = MdHeadings(d)
           /\ \A i \in MdHeadings(d) : i \in 1..Len(d.lines) /\ d.lines[i].n \in Nat
<1>1. PatchProse(d) = MdProse(d) /\ PatchProse(d) \subseteq 1..Len(d.lines)
  BY SameProse, ProseIn
<1>2. \A i \in 1..Len(d.lines) : d.lines[i] \in Range(d.lines)
  BY LinesAre, IsSeqLen DEF Range
<1>3. \A i \in PatchProse(d) : d.lines[i].kind = "heading" =>
         d.lines[i].form = "plain" /\ d.lines[i].n \in 1..6
  BY <1>1, <1>2 DEF Agreed
<1>4. 1..6 \subseteq Nat
  OBVIOUS
<1> QED
  BY <1>1, <1>3, <1>4 DEF PatchHeadings, MdHeadings

\* A section ends before the next heading that is not below its own.
Ends(d, r) ==
    LET H == PatchHeadings(d) IN
    /\ r.at = 0 => r = NotFound \/ r.to = Len(d.lines) + 1
    /\ r.at # 0 =>
         /\ r.at \in H /\ r.to > r.at
         /\ r.to = Len(d.lines) + 1 \/ (r.to \in H /\ d.lines[r.to].n <= d.lines[r.at].n)
         /\ \A g \in H : r.at < g /\ g < r.to => d.lines[g].n > d.lines[r.at].n

\* So does one that a segment of a path leads to, if the one that it is in does.
LEMMA DescendEnds ==
    ASSUME NEW d, IsDocument(d), NEW r \in Sections(d), Ends(d, r), NEW segment,
           \A i \in PatchHeadings(d) : i \in 1..Len(d.lines) /\ d.lines[i].n \in Nat
    PROVE  /\ Ends(d, Descend(d, r, segment))
           /\ Descend(d, r, segment) # NotFound =>
                 LET at == Descend(d, r, segment).at
                 IN  at # 0 /\ d.lines[at].text = segment
<1> DEFINE H == PatchHeadings(d)
           found == {i \in H : i >= r.from /\ i < r.to /\ d.lines[i].text = segment}
           at == Min(found)
           next == {i \in H : i > at /\ d.lines[i].n <= d.lines[at].n}
           to == Min(next \cup {r.to})
           s == Descend(d, r, segment)
<1>1. CASE r = NotFound \/ found = {}
  <2>1. s = NotFound
    BY <1>1, Zenon DEF Descend
  <2> QED
    BY <2>1 DEF Ends, NotFound
<1>2. CASE r # NotFound /\ found # {}
  <2>1. Len(d.lines) \in Nat
    BY LinesAre, IsSeqLen
  <2>2. /\ r.at \in 0..Len(d.lines) /\ r.from = r.at + 1 /\ r.to \in 1..Len(d.lines)+1
    BY <1>2 DEF Sections, Section
  <2>3. \A i \in H : i \in 1..Len(d.lines) /\ d.lines[i].n \in Nat
    OBVIOUS
  <2>4. found \in SUBSET Nat
    BY <2>3
  <2>5. at \in found
    BY <1>2, <2>4, MinIsLeast
  <2>6. at \in H /\ at \in 1..Len(d.lines) /\ at > r.at /\ at < r.to /\ d.lines[at].text = segment
    <3>1. at \in H /\ at >= r.from /\ at < r.to /\ d.lines[at].text = segment
      BY <2>5
    <3> HIDE DEF at, H
    <3> QED
      BY <2>1, <2>2, <2>3, <3>1
  <2>7. next \cup {r.to} \in SUBSET Nat /\ next \cup {r.to} # {}
    BY <2>2, <2>3
  <2>8. to \in next \cup {r.to} /\ \A y \in next \cup {r.to} : to <= y
    BY <2>7, MinIsLeast
  <2>9. s = [at |-> at, from |-> at + 1, to |-> to]
    BY <1>2, Zenon DEF Descend, at, to, H
  <2> HIDE DEF H, to, at
  <2>10. to \in Nat /\ to <= r.to /\ (to = r.to \/ (to \in H /\ to > at /\ d.lines[to].n <= d.lines[at].n))
    BY <2>7, <2>8
  <2>11. to > at
    BY <2>2, <2>6, <2>10
  <2>12. ASSUME NEW g \in H, at < g, g < to PROVE d.lines[g].n > d.lines[at].n
    <3>1. g \notin next
      BY <2>3, <2>8, <2>10, <2>12
    <3> QED
      BY <2>3, <2>6, <2>12, <3>1
  <2>13. to = Len(d.lines) + 1 \/ (to \in H /\ d.lines[to].n <= d.lines[at].n)
    <3>1. CASE to # r.to
      BY <2>10, <3>1
    <3>2. CASE to = r.to /\ r.to = Len(d.lines) + 1
      BY <3>2
    <3>3. CASE to = r.to /\ r.to # Len(d.lines) + 1
      <4>1. r.at # 0
        BY <1>2, <3>3 DEF Ends
      <4>2. /\ r.at \in H /\ r.to \in H /\ d.lines[r.to].n <= d.lines[r.at].n
            /\ d.lines[at].n > d.lines[r.at].n
        BY <2>6, <3>3, <4>1 DEF Ends, H
      <4> DEFINE level(i) == d.lines[i].n
      <4>3. level(r.to) \in Nat /\ level(r.at) \in Nat /\ level(at) \in Nat
            /\ level(r.to) <= level(r.at) /\ level(at) > level(r.at)
        BY <2>3, <2>6, <4>2
      <4> HIDE DEF level
      <4>4. level(r.to) <= level(at)
        BY <4>3
      <4> QED
        BY <3>3, <4>2, <4>4 DEF level
    <3> QED
      BY <3>1, <3>2, <3>3
  <2>14. s.at = at /\ s.to = to /\ at # 0
    BY <2>6, <2>9
  <2> HIDE DEF s
  <2>15. Ends(d, s)
    BY <2>6, <2>11, <2>12, <2>13, <2>14 DEF Ends, H
  <2> QED
    BY <2>6, <2>14, <2>15 DEF s
<1> QED
  BY <1>1, <1>2

\* So does the one that a whole path leads to; its heading is the last of the path.
LEMMA ResolvedEnds ==
    ASSUME NEW d, IsDocument(d), NEW target, IsSeq(target), target # <<>>,
           \A i \in PatchHeadings(d) : i \in 1..Len(d.lines) /\ d.lines[i].n \in Nat,
           NEW r, r = ResolveHeading(d, target), r # NotFound
    PROVE  /\ r \in Sections(d) /\ Ends(d, r) /\ r.at # 0
           /\ d.lines[r.at].text = target[Len(target)]
<1> DEFINE n == Len(target)
           V == {x \in Sections(d) : Ends(d, x)}
<1>1. n \in Nat /\ n \in 1..n /\ n \in 0..n /\ n - 1 \in 0..n
  BY IsSeqLen
<1>2. PICK to :
        /\ to = [k \in 0..n |-> to[k]]
        /\ to[0] = [at |-> 0, from |-> 1, to |-> Len(d.lines) + 1]
        /\ \A k \in 0..n : to[k] \in Sections(d)
        /\ \A k \in 1..n : to[k] = Descend(d, to[k - 1], target[k])
        /\ ResolveHeading(d, target) = to[n]
  BY ResolvedBySteps, Zenon
<1>3. to[0] \in V
  <2>1. 0 \in 0..n
    BY <1>1
  <2> QED
    BY <1>2, <2>1 DEF Ends
<1> HIDE DEF n
<1>4. ASSUME NEW k \in 1..n, to[k - 1] \in V PROVE to[k] \in V
  <2>1. k \in 0..n
    BY <1>1
  <2>2. to[k] = Descend(d, to[k - 1], target[k]) /\ to[k] \in Sections(d)
    BY <1>2, <2>1, Zenon
  <2>3. to[k - 1] \in Sections(d) /\ Ends(d, to[k - 1])
    BY <1>4
  <2>4. Ends(d, Descend(d, to[k - 1], target[k]))
    BY <2>3, DescendEnds
  <2> QED
    BY <2>2, <2>4
<1> HIDE DEF V
<1>5. \A k \in 0..n : to[k] \in V
  BY <1>1, <1>2, <1>3, <1>4, RecursionStays
<1>6. to[n - 1] \in V /\ to[n] \in V /\ to[n] = Descend(d, to[n - 1], target[n])
  BY <1>1, <1>2, <1>5
<1>7. r = to[n] /\ to[n - 1] \in Sections(d) /\ Ends(d, to[n - 1]) /\ r \in Sections(d) /\ Ends(d, r)
  BY <1>2, <1>6 DEF V
<1>8. r.at # 0 /\ d.lines[r.at].text = target[n]
  BY <1>6, <1>7, DescendEnds
<1> QED
  BY <1>7, <1>8 DEF n

\* The section of a heading, for a reader, is the one that patch.rs finds.
LEMMA SectionIs ==
    ASSUME NEW d, IsDocument(d), Agreed(d), NEW r \in Sections(d), Ends(d, r), r.at # 0,
           NEW section, section = {k \in r.at+1..Len(d.lines) : InSection(d, r.at, k)}
    PROVE  /\ r.at \in MdHeadings(d) /\ r.at \in 1..Len(d.lines) /\ r.to \in r.at+1..Len(d.lines)+1
           /\ Max(section \cup {r.at}) = r.to - 1
<1> DEFINE n == Len(d.lines)
           h == r.at
           H == MdHeadings(d)
           level(i) == d.lines[i].n
<1>1. n \in Nat
  BY LinesAre, IsSeqLen
<1>2. H = PatchHeadings(d) /\ \A i \in H : i \in 1..n /\ level(i) \in Nat
  BY SameHeadings
<1>3. h \in 0..n /\ r.to \in 1..n+1
  <2>1. r # NotFound
    BY DEF NotFound
  <2> QED
    BY <2>1 DEF Sections, Section
<1>4. /\ h \in H /\ r.to > h
      /\ r.to = n + 1 \/ (r.to \in H /\ level(r.to) <= level(h))
      /\ \A g \in H : h < g /\ g < r.to => level(g) > level(h)
  BY <1>2 DEF Ends
<1>5. \A k : InSection(d, h, k) <=> h <= k /\ \A g \in H : h < g /\ g <= k => level(g) > level(h)
  BY <1>4 DEF InSection
<1>6. section = {k \in h+1..n : InSection(d, h, k)}
  OBVIOUS
<1> HIDE DEF H, n, level
<1>7. h \in 1..n /\ r.to \in h+1..n+1
  BY <1>1, <1>2, <1>3, <1>4
<1> DEFINE to == r.to
<1> HIDE DEF h, to
<1>8. ASSUME NEW k \in section PROVE k \in h+1..to-1
  <2>1. k \in h+1..n /\ \A g \in H : h < g /\ g <= k => level(g) > level(h)
    BY <1>5, <1>6
  <2>2. CASE k < to
    BY <1>1, <1>7, <2>1, <2>2 DEF to
  <2>3. CASE k >= to
    <3>1. to \in H /\ level(to) <= level(h)
      BY <1>1, <1>4, <1>7, <2>1, <2>3 DEF to
    <3>2. level(to) > level(h)
      BY <1>7, <2>1, <2>3, <3>1 DEF to
    <3>3. level(to) \in Nat /\ level(h) \in Nat
      BY <1>2, <1>4, <3>1
    <3> QED
      BY <3>1, <3>2, <3>3
  <2> QED
    BY <1>1, <1>7, <2>1, <2>2, <2>3 DEF to
<1>9. ASSUME NEW k \in h+1..to-1 PROVE k \in section
  <2>1. k \in h+1..n /\ h <= k
    BY <1>1, <1>7 DEF to
  <2>2. \A g \in H : h < g /\ g <= k => level(g) > level(h)
    BY <1>1, <1>2, <1>4, <1>7 DEF to
  <2> QED
    BY <1>5, <1>6, <2>1, <2>2
<1>10. Max(section \cup {h}) = to - 1
  <2> DEFINE S == section \cup {h}
  <2>1. S = h..to-1
    BY <1>1, <1>7, <1>8, <1>9 DEF to
  <2>2. to - 1 \in S /\ \A y \in S : to - 1 >= y
    BY <1>1, <1>7, <2>1 DEF to
  <2>3. \A x \in S : (\A y \in S : x >= y) => x = to - 1
    BY <1>1, <1>7, <2>1, <2>2 DEF to
  <2> HIDE DEF S
  <2>4. Max(S) = to - 1
    BY <2>2, <2>3 DEF Max
  <2> QED
    BY <2>4 DEF S
<1> QED
  BY <1>4, <1>7, <1>10 DEF H, h, n, to

\* The lines of a document that is taken apart and put together with a text: p and m
\* are as its first i lines and the text are, but for the newlines at their ends.
Apart(d, i, j, p, m, content) ==
    /\ IsDocument(d) /\ IsDocument(p) /\ IsDocument(m) /\ IsDocument(content)
    /\ i \in Nat /\ j \in Nat \ {0} /\ i <= Len(d.lines)
    /\ p.lines = Part(d, 1, i).lines /\ m.lines = content.lines
    /\ p.closed /\ (m.closed \/ j > Len(d.lines))

Around(d, i, content, j) ==
    SubSeq(d.lines, 1, i) \o content.lines \o SubSeq(d.lines, j, Len(d.lines))

LEMMA InsertedAt ==
    ASSUME NEW d, NEW i, NEW j, NEW p, NEW m, NEW content, Apart(d, i, j, p, m, content)
    PROVE  Join3(p, m, Part(d, j, Len(d.lines))).lines = Around(d, i, content, j)
<1> DEFINE n == Len(d.lines)
           rest == Part(d, j, n)
<1> USE DEF Apart
<1>1. n \in Nat /\ i \in Int /\ n \in Int /\ n <= n /\ 1 \in Nat \ {0}
  BY LinesAre, IsSeqLen
<1>2. p.lines = SubSeq(d.lines, 1, i) /\ rest.lines = SubSeq(d.lines, j, n)
  BY <1>1, PartIs
<1>3. IsDocument(rest)
  BY <1>1, PartIsDocument
<1> DEFINE x == SubSeq(d.lines, 1, i)
           y == SubSeq(d.lines, j, n)
<1> HIDE DEF rest, x, y
<1>4. CASE m.closed
  <2> DEFINE q == Join(p, m)
  <2>0. q.lines = p.lines \o m.lines /\ q.closed /\ IsDocument(q)
    BY <1>4, JoinIs, JoinIsDocument
  <2> HIDE DEF q
  <2>3. Join(q, rest).lines = q.lines \o rest.lines
    BY <1>3, <2>0, JoinIs
  <2>1. Join3(p, m, rest).lines = p.lines \o m.lines \o rest.lines
    BY <2>0, <2>3, Zenon DEF Join3, q
  <2>2. p.lines = x /\ rest.lines = y
    BY <1>2 DEF x, y
  <2> QED
    BY <2>1, <2>2, Zenon DEF x, y, rest, Around
<1>5. CASE j > n
  <2>1. rest = Empty /\ rest.lines = <<>>
    BY <1>5 DEF Part, Empty, Text, rest
  <2>2. IsDocument(Join(p, m)) /\ Join(p, m).lines = p.lines \o m.lines
    BY JoinIsDocument, JoinIs
  <2>3. IsSeq(Join(p, m).lines)
    BY <2>2, LinesAre
  <2> DEFINE q == Join(p, m)
  <2> HIDE DEF q
  <2>4. Join(q, rest).lines = q.lines
    BY <2>1, Zenon DEF Join
  <2>5. q.lines \o <<>> = q.lines
    BY <2>3, ConcatNone DEF q
  <2>6. Join3(p, m, rest) = Join(q, rest)
    BY DEF Join3, q
  <2>7. p.lines = x /\ y = <<>>
    BY <1>2, <2>1 DEF x, y
  <2>8. q.lines = x \o content.lines
    BY <2>2, <2>7, Zenon DEF q
  <2>9. Join3(p, m, rest).lines = (x \o content.lines) \o y
    BY <2>4, <2>5, <2>6, <2>7, <2>8, Zenon
  <2> QED
    BY <2>9, Zenon DEF x, y, rest, Around
<1> QED
  BY <1>4, <1>5

\* A text behind line i, with nothing left out.
LEMMA AroundIs ==
    ASSUME NEW d, NEW i, NEW j, j = i + 1, NEW content
    PROVE  Around(d, i, content, j) = Insertion(d, i, content)
BY Zenon DEF Around, Insertion

\* A patch of a heading.
LEMMA HeadingLands ==
    ASSUME NEW d, IsDocument(d), Agreed(d), NEW p, IsDocument(p.content), IsSeq(p.target),
           p.target # <<>>, p.op \in {"append", "prepend", "replace"}, p.type = "heading",
           NEW e, e = ApplyPatch(d, p), e # None
    PROVE  LandsUnderHeading(d, e, p)
<1> DEFINE n == Len(d.lines)
           r == ResolveHeading(d, p.target)
           h == r.at
           section == {k \in h+1..n : InSection(d, h, k)}
           c == p.content
           upTo == Ended(Part(d, 1, h))
           above == Ended(Part(d, 1, r.to - 1))
<1>1. n \in Nat
  BY LinesAre, IsSeqLen
<1>2. r # NotFound /\ e = PatchHeading(d, p.op, r, c)
  BY DEF ApplyPatch
<1>3. /\ r \in Sections(d) /\ Ends(d, r) /\ h # 0
      /\ d.lines[h].text = p.target[Len(p.target)]
  BY <1>2, SameHeadings, ResolvedEnds
<1>4. /\ h \in MdHeadings(d) /\ h \in 1..n /\ r.to \in h+1..n+1
      /\ Max(section \cup {h}) = r.to - 1
  BY <1>3, SectionIs
<1>5. d.lines[h].text = Last(p.target)
  BY <1>3 DEF Last
<1>6. IsDocument(c) /\ IsDocument(Ended(c)) /\ Ended(c).lines = c.lines /\ Ended(c).closed
  BY EndedIs, EndedIsDocument
<1> HIDE DEF section, r, h, n, c
<1>7. /\ h \in Nat /\ h <= n /\ h + 1 \in Nat \ {0} /\ r.to \in Nat \ {0} /\ r.to - 1 \in Nat /\ r.to - 1 <= n
      /\ (r.to - 1) + 1 = r.to /\ r.to - 1 \in h..n /\ h \in h..n
  BY <1>1, <1>4
<1>8. IsDocument(Part(d, 1, h)) /\ IsDocument(Part(d, 1, r.to - 1))
  <2>1. h \in Int /\ h <= Len(d.lines) /\ r.to - 1 \in Int /\ r.to - 1 <= Len(d.lines) /\ 1 \in Nat \ {0}
    BY <1>7 DEF n
  <2> QED
    BY <2>1, PartIsDocument
<1>9. /\ IsDocument(upTo) /\ upTo.lines = Part(d, 1, h).lines /\ upTo.closed
      /\ IsDocument(above) /\ above.lines = Part(d, 1, r.to - 1).lines /\ above.closed
  BY <1>8, EndedIs, EndedIsDocument
<1> HIDE DEF upTo, above
<1>10. CASE p.op = "prepend"
  <2>1. e = Join3(upTo, Ended(c), Part(d, h + 1, n))
    BY <1>2, <1>10 DEF PatchHeading, upTo, n, h
  <2>2. e.lines = Insertion(d, h, c)
    <3>1. Apart(d, h, h + 1, upTo, Ended(c), c)
      BY <1>6, <1>7, <1>9 DEF Apart, n
    <3> QED
      <4>1. e.lines = Around(d, h, c, h + 1)
        BY <2>1, <3>1, InsertedAt DEF n
      <4> QED
        BY <1>7, <4>1, AroundIs, Zenon
  <2>3. \E i \in h..n : i = h /\ e.lines = Insertion(d, i, c)
    BY <1>7, <2>2
  <2> QED
    BY <1>4, <1>5, <1>10, <2>2, <2>3 DEF LandsUnderHeading, n, c
<1>11. CASE p.op = "append"
  <2>1. e = Join3(above, Ended(c), Part(d, r.to, n))
    BY <1>2, <1>11 DEF PatchHeading, above, n
  <2>2. e.lines = Insertion(d, r.to - 1, c)
    <3>1. Apart(d, r.to - 1, r.to, above, Ended(c), c)
      BY <1>6, <1>7, <1>9 DEF Apart, n
    <3> QED
      <4>1. e.lines = Around(d, r.to - 1, c, r.to)
        BY <2>1, <3>1, InsertedAt DEF n
      <4> QED
        BY <1>7, <4>1, AroundIs, Zenon
  <2>3. \E i \in h..n : i = Max(section \cup {h}) /\ e.lines = Insertion(d, i, c)
    BY <1>4, <1>7, <2>2
  <2> QED
    BY <1>4, <1>5, <1>11, <2>3 DEF LandsUnderHeading, n, section, c
<1>12. CASE p.op = "replace"
  <2> DEFINE m == IF r.to > n THEN c ELSE Ended(c)
  <2>1. e = Join3(upTo, m, Part(d, r.to, n))
    BY <1>2, <1>12 DEF PatchHeading, upTo, n, h
  <2>2. IsDocument(m) /\ m.lines = c.lines /\ (m.closed \/ r.to > n)
    BY <1>6
  <2> HIDE DEF m
  <2>3. e.lines = Around(d, h, c, r.to)
    <3>1. Apart(d, h, r.to, upTo, m, c)
      BY <1>6, <1>7, <1>9, <2>2 DEF Apart, n
    <3> QED
      BY <2>1, <3>1, InsertedAt DEF n
  <2>4. r.to = Max(section \cup {h}) + 1
    BY <1>4, <1>7
  <2> DEFINE M == Max(section \cup {h}) + 1
  <2>5. e.lines = SubSeq(d.lines, 1, h) \o c.lines \o SubSeq(d.lines, M, n)
    <3>1. e.lines = Around(d, h, c, M)
      BY <2>3, <2>4
    <3> HIDE DEF M
    <3> QED
      BY <3>1, Zenon DEF Around, n
  <2>6. h \in h..n /\ p.op \notin {"prepend", "append"} /\ p.op # "append"
    BY <1>7, <1>12
  <2> QED
    BY <1>4, <1>5, <1>12, <2>5, <2>6, Zenon DEF LandsUnderHeading, n, section, c
<1> QED
  BY <1>10, <1>11, <1>12

\* The lines that are not fenced, by a function that says which fence is open.
Follows(d, z, open) ==
    /\ open[z] = OutOfCode
    /\ \A i \in z+1..Len(d.lines) : open[i] = AcrossFence(open[i - 1], d.lines[i])
    /\ Unfenced(d, z) = {i \in z+1..Len(d.lines) :
                            open[i - 1] = OutOfCode /\ d.lines[i].kind # "fence"}

LEMMA UnfencedBySteps ==
    ASSUME NEW d, IsDocument(d), NEW z \in Nat, z <= Len(d.lines)
    PROVE  \E open : Follows(d, z, open)
<1> DEFINE n == Len(d.lines)
           V == {OutOfCode} \cup {[n |-> d.lines[i].n, form |-> d.lines[i].form] : i \in 1..n}
           step == [k \in 1..n-z |-> [o \in V |-> AcrossFence(o, d.lines[z + k])]]
           Makes(open) == open = [i \in z..n |-> IF i = z THEN OutOfCode
                                                 ELSE AcrossFence(open[i - 1], d.lines[i])]
           open == CHOOSE f : Makes(f)
<1>1. n \in Nat /\ n - z \in Nat
  BY LinesAre, IsSeqLen
<1>2. ASSUME NEW o \in V, NEW i \in 1..n PROVE AcrossFence(o, d.lines[i]) \in V
  BY <1>2 DEF AcrossFence
<1>3. OutOfCode \in V
  OBVIOUS
<1> HIDE DEF V, n
<1>4. step \in [1..n-z -> [V -> V]]
  <2>1. \A k \in 1..n-z : z + k \in 1..n
    BY <1>1
  <2> QED
    BY <1>2, <2>1
<1> HIDE DEF step
<1>5. PICK f \in [0..n-z -> V] : Recurs(f, n - z, OutOfCode, step)
  BY <1>1, <1>3, <1>4, Recursion
<1> DEFINE g == [i \in z..n |-> f[i - z]]
<1>6. Makes(g)
  <2>1. ASSUME NEW i \in z..n
        PROVE  g[i] = IF i = z THEN OutOfCode ELSE AcrossFence(g[i - 1], d.lines[i])
    <3>1. CASE i = z
      BY <1>1, <1>5, <3>1 DEF Recurs
    <3>2. CASE i # z
      <4>1. /\ i - z \in 1..n-z /\ i - z - 1 \in 0..n-z /\ i - 1 \in z..n /\ z + (i - z) = i
            /\ (i - 1) - z = (i - z) - 1
        BY <1>1, <3>2
      <4>2. f[i - z] = step[i - z][f[(i - z) - 1]] /\ f[(i - z) - 1] \in V
        BY <1>5, <4>1 DEF Recurs
      <4>3. f[i - z] = AcrossFence(f[(i - z) - 1], d.lines[i])
        BY <4>1, <4>2 DEF step
      <4>4. g[i] = f[i - z] /\ g[i - 1] = f[(i - z) - 1]
        BY <4>1
      <4> QED
        BY <3>2, <4>3, <4>4
    <3> QED
      BY <3>1, <3>2
  <2> HIDE DEF g
  <2>2. g = [i \in z..n |-> g[i]]
    BY DEF g
  <2> QED
    BY <2>1, <2>2
<1>7. Makes(open)
  BY <1>6, Zenon
<1>8. Unfenced(d, z) = {i \in z+1..n : open[i - 1] = OutOfCode /\ d.lines[i].kind # "fence"}
  BY Zenon DEF Unfenced, open, n
<1> HIDE DEF open
<1>9. open[z] = OutOfCode
  <2>1. z \in z..n
    BY <1>1
  <2> QED
    BY <1>7, <2>1
<1>10. ASSUME NEW i \in z+1..n PROVE open[i] = AcrossFence(open[i - 1], d.lines[i])
  <2>1. i \in z..n /\ i # z
    BY <1>1
  <2> QED
    BY <1>7, <2>1
<1> QED
  BY <1>8, <1>9, <1>10 DEF Follows, n

\* A line that is not fenced stays so, and the lines put in its place that are no
\* fences are not fenced either.
LEMMA UnfencedOn ==
    ASSUME NEW d, IsDocument(d), NEW e, IsDocument(e), NEW z \in Nat, NEW i \in Unfenced(d, z),
           NEW k \in i..Len(e.lines),
           \A j \in z+1..i-1 : e.lines[j] = d.lines[j],
           \A j \in i..k : e.lines[j].kind # "fence"
    PROVE  k \in Unfenced(e, z)
<1> DEFINE n == Len(d.lines)
           m == Len(e.lines)
<1>1. n \in Nat /\ m \in Nat
  BY LinesAre, IsSeqLen
<1>2. i \in z+1..n
  BY UnfencedIn
<1>3. z <= n /\ z <= m /\ i \in Nat /\ i > z /\ i - 1 \in Nat /\ i <= k /\ k <= m /\ k \in Nat
  BY <1>1, <1>2
<1>4. PICK old : Follows(d, z, old)
  BY <1>3, UnfencedBySteps
<1>5. PICK new : Follows(e, z, new)
  BY <1>3, UnfencedBySteps
<1>6. /\ old[z] = OutOfCode /\ new[z] = OutOfCode
      /\ \A j \in z+1..n : old[j] = AcrossFence(old[j - 1], d.lines[j])
      /\ \A j \in z+1..m : new[j] = AcrossFence(new[j - 1], e.lines[j])
      /\ old[i - 1] = OutOfCode
      /\ Unfenced(e, z) = {j \in z+1..m : new[j - 1] = OutOfCode /\ e.lines[j].kind # "fence"}
  BY <1>4, <1>5, Zenon DEF Follows
<1> HIDE DEF n, m
<1> DEFINE S == {t \in Nat : z + t <= i - 1 => new[z + t] = old[z + t]}
<1>7. 0 \in S
  BY <1>6
<1>8. ASSUME NEW t \in Nat, t \in S PROVE t + 1 \in S
  <2>1. SUFFICES ASSUME z + (t + 1) <= i - 1 PROVE new[z + (t + 1)] = old[z + (t + 1)]
    OBVIOUS
  <2> DEFINE j == z + (t + 1)
  <2>2. j \in z+1..i-1 /\ j \in z+1..n /\ j \in z+1..m /\ j - 1 = z + t /\ z + t <= i - 1
    BY <1>1, <1>2, <1>3, <2>1
  <2>3. new[z + t] = old[z + t]
    BY <1>8, <2>2
  <2> HIDE DEF j
  <2>4. new[j] = AcrossFence(new[j - 1], e.lines[j]) /\ old[j] = AcrossFence(old[j - 1], d.lines[j])
        /\ e.lines[j] = d.lines[j]
    BY <1>6, <2>2
  <2>5. new[j] = old[j]
    BY <2>2, <2>3, <2>4
  <2> QED
    BY <2>5 DEF j
<1>9. new[i - 1] = OutOfCode
  <2> HIDE DEF S
  <2>1. Nat \subseteq S
    BY <1>7, <1>8, Induction
  <2> DEFINE t == i - 1 - z
  <2>2. t \in Nat /\ z + t = i - 1 /\ z + t <= i - 1
    BY <1>3
  <2> HIDE DEF t
  <2>3. new[z + t] = old[z + t]
    BY <2>1, <2>2 DEF S
  <2> QED
    BY <1>6, <2>2, <2>3
<1> DEFINE R == {t \in Nat : (i - 1) + t <= k - 1 => new[(i - 1) + t] = OutOfCode}
<1>10. 0 \in R
  BY <1>3, <1>9
<1>11. ASSUME NEW t \in Nat, t \in R PROVE t + 1 \in R
  <2>1. SUFFICES ASSUME (i - 1) + (t + 1) <= k - 1 PROVE new[(i - 1) + (t + 1)] = OutOfCode
    OBVIOUS
  <2> DEFINE j == (i - 1) + (t + 1)
  <2>2. j \in i..k /\ j \in z+1..m /\ j - 1 = (i - 1) + t /\ (i - 1) + t <= k - 1
    BY <1>1, <1>2, <1>3, <2>1
  <2>3. new[(i - 1) + t] = OutOfCode
    BY <1>11, <2>2
  <2> HIDE DEF j
  <2>4. new[j] = AcrossFence(new[j - 1], e.lines[j]) /\ e.lines[j].kind # "fence"
    BY <1>6, <2>2
  <2>5. new[j] = OutOfCode
    BY <2>2, <2>3, <2>4 DEF AcrossFence
  <2> QED
    BY <2>5 DEF j
<1>12. new[k - 1] = OutOfCode
  <2> HIDE DEF R
  <2>1. Nat \subseteq R
    BY <1>10, <1>11, Induction
  <2> DEFINE t == k - i
  <2>2. t \in Nat /\ (i - 1) + t = k - 1 /\ (i - 1) + t <= k - 1
    BY <1>3
  <2> HIDE DEF t
  <2>3. new[(i - 1) + t] = OutOfCode
    BY <2>1, <2>2 DEF R
  <2> QED
    BY <2>2, <2>3
<1>13. k \in z+1..m /\ k \in i..k
  BY <1>1, <1>3
<1> QED
  BY <1>6, <1>12, <1>13

\* The same of the prose of a note: front matter ends where it ended, and none begins.
Beyond(d, e, i, k) ==
    /\ IsDocument(d) /\ Agreed(d) /\ IsDocument(e)
    /\ i \in MdProse(d) /\ k \in i..Len(e.lines)
    /\ \A j \in 1..i-1 : e.lines[j] = d.lines[j]
    /\ \A j \in i..k : e.lines[j].kind \notin {"fence", "delim"}

LEMMA ProseOn ==
    ASSUME NEW d, NEW e, NEW i, NEW k, Beyond(d, e, i, k) PROVE k \in MdProse(e)
<1> DEFINE n == Len(d.lines)
           m == Len(e.lines)
           C == Closings(d, IsDelim)
           B == Closings(e, IsDelim)
<1>0. /\ IsDocument(d) /\ Agreed(d) /\ IsDocument(e)
      /\ i \in MdProse(d) /\ k \in i..Len(e.lines)
      /\ \A j \in 1..i-1 : e.lines[j] = d.lines[j]
      /\ \A j \in i..k : e.lines[j].kind \notin {"fence", "delim"}
  BY DEF Beyond
<1>1. n \in Nat /\ m \in Nat /\ IsSeq(d.lines) /\ IsSeq(e.lines)
  BY <1>0, LinesAre, IsSeqLen
<1>2. i \in 1..n
  BY <1>0, SameProse, ProseIn
<1>3. i \in Nat /\ i > 0 /\ i <= n /\ i <= k /\ k <= m /\ k \in Nat /\ i \in i..k
  BY <1>0, <1>1, <1>2
<1>4. d.lines # <<>> /\ e.lines # <<>>
  <2>1. Len(<<>>) = 0
    OBVIOUS
  <2> QED
    BY <1>1, <1>3, <2>1
<1>5. Head(d.lines) = d.lines[1] /\ Head(e.lines) = e.lines[1]
  BY <1>1, <1>4, HeadIs
<1>6. /\ C = {j \in 2..n : d.lines[j].kind = "delim"}
      /\ B = {j \in 2..m : e.lines[j].kind = "delim"}
  BY DEF Closings, IsDelim
<1>7. \A j \in i..k : e.lines[j].kind # "fence" /\ e.lines[j].kind # "delim"
  BY <1>0
<1>8. CASE IsDelim(Head(d.lines))
  <2>1. C # {} /\ MdProse(d) = Unfenced(d, Min(C))
    BY <1>0, <1>4, <1>8, Zenon DEF Agreed, MdProse
  <2>2. C \in SUBSET Nat /\ B \in SUBSET Nat
    BY <1>6
  <2> DEFINE z == Min(C)
  <2>3. z \in C /\ \A y \in C : z <= y
    BY <2>1, <2>2, MinIsLeast
  <2>4. i \in z+1..n
    BY <1>0, <2>1, UnfencedIn
  <2> HIDE DEF C, B, n, m, z
  <2>5. z \in 2..n /\ d.lines[z].kind = "delim" /\ z \in Nat /\ z < i /\ z \in 1..i-1 /\ z \in 2..m /\ 1 \in 1..i-1
    BY <1>1, <1>3, <1>6, <2>3, <2>4
  <2>6. z \in B
    BY <1>0, <1>6, <2>5
  <2>7. Min(B) \in B /\ \A y \in B : Min(B) <= y
    BY <2>2, <2>6, MinIsLeast
  <2>8. Min(B) = z
    <3> DEFINE y == Min(B)
    <3>1. y \in 2..m /\ e.lines[y].kind = "delim" /\ y <= z
      BY <1>6, <2>6, <2>7
    <3> HIDE DEF y
    <3>2. y \in 1..i-1 /\ y \in 2..n
      BY <1>1, <1>3, <2>5, <3>1
    <3>3. y \in C
      BY <1>0, <1>6, <3>1, <3>2
    <3>4. y = z
      BY <2>3, <2>5, <3>1, <3>3
    <3> QED
      BY <3>4 DEF y
  <2>9. IsDelim(Head(e.lines))
    BY <1>0, <1>5, <1>8, <2>5
  <2>10. MdProse(e) = Unfenced(e, z)
    BY <1>4, <2>6, <2>8, <2>9, Zenon DEF MdProse, B
  <2>11. \A j \in z+1..i-1 : j \in 1..i-1
    BY <2>5
  <2>12. i \in Unfenced(d, z)
    BY <1>0, <2>1 DEF z
  <2>13. k \in Unfenced(e, z)
    BY <1>0, <1>7, <2>5, <2>11, <2>12, UnfencedOn
  <2> QED
    BY <2>10, <2>13
<1>9. CASE ~IsDelim(Head(d.lines))
  <2>1. MdProse(d) = Unfenced(d, 0)
    BY <1>9, Zenon DEF MdProse
  <2>2. ~IsDelim(Head(e.lines))
    <3>1. CASE i = 1
      BY <1>3, <1>5, <1>7, <3>1 DEF IsDelim
    <3>2. CASE i # 1
      <4>1. 1 \in 1..i-1
        BY <1>3, <3>2
      <4> QED
        BY <1>0, <1>5, <1>9, <4>1
    <3> QED
      BY <3>1, <3>2
  <2>3. MdProse(e) = Unfenced(e, 0)
    BY <2>2, Zenon DEF MdProse
  <2>4. k \in Unfenced(e, 0)
    <3>1. i \in Unfenced(d, 0) /\ \A j \in 0+1..i-1 : j \in 1..i-1
      BY <1>0, <2>1
    <3> QED
      BY <1>0, <1>7, <3>1, UnfencedOn
  <2> QED
    BY <2>3, <2>4
<1> QED
  BY <1>8, <1>9

\* One more element.
LEMMA OneMore ==
    ASSUME NEW s, IsSeq(s), NEW x, NEW t, t = s \o <<x>>
    PROVE  /\ IsSeq(t) /\ Len(t) = Len(s) + 1 /\ \A i \in 1..Len(s) : t[i] = s[i]
           /\ t[Len(s) + 1] = x
<1> DEFINE one == <<x>>
<1>1. IsSeq(one) /\ Len(one) = 1 /\ one[1] = x
  BY SingleIs
<1> HIDE DEF one
<1>2. t = s \o one
  BY DEF one
<1>3. IsSeq(t) /\ Len(t) = Len(s) + 1
  <2>1. IsSeq(s \o one)
    BY <1>1, ConcatAt
  <2>2. Len(s \o one) = Len(s) + Len(one)
    BY <1>1, ConcatAt
  <2> QED
    BY <1>1, <1>2, <2>1, <2>2
<1>4. \A i \in 1..Len(s) : t[i] = s[i]
  BY <1>1, <1>2, ConcatAt
<1>5. 1 \in 1..Len(one)
  BY <1>1
<1>6. t[Len(s) + 1] = one[1]
  BY <1>1, <1>2, <1>5, ConcatAt
<1> QED
  BY <1>1, <1>3, <1>4, <1>6

\* What replaces a block is prose and its last line has the reference.
LEMMA MarkedIs ==
    ASSUME NEW c, HasLines(c), IsProse(c), c = Empty \/ c.lines # <<>>, NEW b,
           NEW ls, ls = Marked(c, b).lines
    PROVE  /\ Len(ls) \in Nat \ {0} /\ IsSeq(ls)
           /\ \A j \in 1..Len(ls) : ls[j].kind \in {"text", "blank"}
           /\ ls[Len(ls)].value = <<b>>
<1> DEFINE ref == Ref(None, b)
           mark == <<ref>>
           last == [Last(c.lines) EXCEPT !.value = <<b>>]
<1>1. IsSeq(mark) /\ Len(mark) = 1 /\ mark[1] = ref /\ IsSeq(<<last>>) /\ Len(<<last>>) = 1 /\ <<last>>[1] = last
  BY SingleIs
<1>2. ref.kind = "text" /\ ref.value = <<b>>
  BY DEF Ref, Line
<1>3. IsDocument(c) /\ IsSeq(c.lines) /\ Len(c.lines) \in Nat /\ DOMAIN c.lines = 1..Len(c.lines)
  BY LinesAre, IsSeqLen DEF HasLines
<1>4. \A j \in 1..Len(c.lines) : c.lines[j].kind \in {"text", "blank"} /\ IsLine(c.lines[j])
  <2>1. \A j \in 1..Len(c.lines) : c.lines[j] \in Range(c.lines)
    BY <1>3 DEF Range
  <2> QED
    BY <2>1 DEF IsProse, HasLines
<1>5. IsDocument([lines |-> mark, closed |-> FALSE])
  BY <1>1, DocumentOf
<1> DEFINE u == [lines |-> mark, closed |-> FALSE]
<1>6. u.lines = mark /\ IsDocument(u)
  BY <1>5, PartsAre
<1> HIDE DEF ref, mark, u
<1>7. CASE c = Empty
  <2>1. Marked(c, b) = u
    BY <1>7, Zenon DEF Marked, Unclosed, u, mark, ref
  <2>2. ls = mark
    BY <1>6, <2>1
  <2>3. IsSeq(ls) /\ Len(ls) = 1 /\ ls[1] = ref
    BY <1>1, <2>2
  <2>4. \A j \in 1..1 : j = 1
    OBVIOUS
  <2> QED
    BY <1>2, <2>3, <2>4
<1>8. CASE c # Empty /\ c.closed
  <2>1. Marked(c, b) = Join(c, u)
    BY <1>8, Zenon DEF Marked, Unclosed, u, mark, ref
  <2>2. ls = c.lines \o mark
    <3>1. Join(c, u).lines = c.lines \o u.lines
      BY <1>3, <1>6, <1>8, JoinIs
    <3> QED
      BY <1>6, <2>1, <3>1
  <2> DEFINE n == Len(c.lines)
  <2>3. /\ IsSeq(ls) /\ Len(ls) = n + 1 /\ \A j \in 1..n : ls[j] = c.lines[j]
        /\ ls[n + 1] = ref
    <3>1. ls = c.lines \o <<ref>>
      BY <2>2 DEF mark
    <3> QED
      BY <1>3, <3>1, OneMore
  <2> HIDE DEF n
  <2>4. ASSUME NEW j \in 1..n+1 PROVE ls[j].kind \in {"text", "blank"}
    <3>1. j \in 1..n \/ j = n + 1
      BY <1>3 DEF n
    <3> QED
      BY <1>2, <1>4, <2>3, <3>1 DEF n
  <2>5. n + 1 \in Nat \ {0}
    BY <1>3 DEF n
  <2> QED
    BY <1>2, <2>3, <2>4, <2>5
<1>9. CASE c # Empty /\ ~c.closed
  <2> DEFINE n == Len(c.lines)
             f == Front(c.lines)
             v == Unclosed(f \o <<last>>)
  <2>1. Marked(c, b) = v
    BY <1>9, Zenon DEF Marked
  <2>2. v.lines = f \o <<last>>
    BY PartsAre DEF Unclosed
  <2>3. c.lines # <<>>
    BY <1>9
  <2>4. IsSeq(f) /\ Len(f) = n - 1 /\ n \in Nat \ {0} /\ \A j \in 1..n-1 : f[j] = c.lines[j]
    BY <1>3, <2>3, FrontAt
  <2>5. Last(c.lines) = c.lines[n]
    BY DEF Last
  <2>6. last.kind \in {"text", "blank"} /\ last.value = <<b>>
    <3> DEFINE l == c.lines[n]
    <3>1. l = Line(l.kind, l.form, l.n, l.text, l.value) /\ l.kind \in {"text", "blank"}
      <4>1. n \in 1..n
        BY <2>4
      <4> QED
        BY <1>4, <4>1 DEF IsLine
    <3> HIDE DEF l
    <3>2. DOMAIN l = {"kind", "form", "n", "text", "value"}
      BY <3>1 DEF Line
    <3>3. [l EXCEPT !.value = <<b>>].kind = l.kind /\ [l EXCEPT !.value = <<b>>].value = <<b>>
      BY <3>2
    <3>4. last = [l EXCEPT !.value = <<b>>]
      BY <2>5 DEF l
    <3> HIDE DEF last
    <3> QED
      BY <3>1, <3>3, <3>4
  <2> HIDE DEF last, f, v, n
  <2>7. ls = f \o <<last>>
    BY <2>1, <2>2
  <2>8. /\ IsSeq(ls) /\ Len(ls) = (n - 1) + 1 /\ \A j \in 1..n-1 : ls[j] = f[j]
        /\ ls[(n - 1) + 1] = last
    <3>1. IsSeq(ls)
      <4>1. IsSeq(f) /\ IsSeq(<<last>>)
        BY <1>1, <2>4
      <4>2. IsSeq(f \o <<last>>)
        BY <4>1, ConcatIsSeq
      <4> QED
        BY <2>7, <4>2
    <3>2. Len(ls) = Len(f) + 1
      BY <2>4, <2>7, OneMore
    <3>3. ls[Len(f) + 1] = last
      BY <2>4, <2>7, OneMore
    <3>4. \A i \in 1..Len(f) : ls[i] = f[i]
      BY <2>4, <2>7, OneMore
    <3> QED
      BY <2>4, <3>1, <3>2, <3>3, <3>4
  <2>9. (n - 1) + 1 = n /\ \A j \in 1..n : j \in 1..n-1 \/ j = n
    BY <2>4
  <2>10. ASSUME NEW j \in 1..n PROVE ls[j].kind \in {"text", "blank"}
    BY <1>4, <2>4, <2>6, <2>8, <2>9 DEF n
  <2> QED
    BY <2>4, <2>6, <2>8, <2>9, <2>10
<1> QED
  BY <1>7, <1>8, <1>9

\* A part of a sequence, by its elements.
LEMMA StretchIs ==
    ASSUME NEW s, IsSeq(s), NEW l, IsSeq(l), NEW k \in Nat, k + Len(l) <= Len(s),
           \A i \in 1..Len(l) : s[k + i] = l[i]
    PROVE  SubSeq(s, k + 1, k + Len(l)) = l
<1> DEFINE m == Len(l)
           t == SubSeq(s, k + 1, k + m)
<1>1. m \in Nat /\ Len(s) \in Nat
  BY IsSeqLen
<1>2. /\ k + 1 \in Nat \ {0} /\ k + m \in Int /\ k + m <= Len(s)
      /\ (IF k + 1 <= k + m THEN (k + m) - (k + 1) + 1 ELSE 0) = m
      /\ \A i \in 1..m : (k + 1) + i - 1 = k + i
  BY <1>1
<1> HIDE DEF m
<1>3. IsSeq(t) /\ Len(t) = m /\ \A i \in 1..Len(t) : t[i] = s[(k + 1) + i - 1]
  BY <1>2, SubSeqAt
<1> HIDE DEF t
<1>4. Len(t) = Len(l)
  BY <1>3 DEF m
<1>5. \A i \in 1..Len(t) : t[i] = l[i]
  BY <1>2, <1>3 DEF m
<1>6. t = l
  BY <1>3, <1>4, <1>5, SamePath
<1> QED
  BY <1>6 DEF t, m

\* What three texts together begin with, have in the middle and end with.
LEMMA ThreeAt ==
    ASSUME NEW x, IsSeq(x), NEW l, IsSeq(l), NEW y, IsSeq(y), NEW t, t = (x \o l) \o y
    PROVE  /\ IsSeq(t) /\ Len(t) = Len(x) + Len(l) + Len(y)
           /\ \A i \in 1..Len(x) : t[i] = x[i]
           /\ \A i \in 1..Len(l) : t[Len(x) + i] = l[i]
           /\ \A i \in 1..Len(y) : t[(Len(x) + Len(l)) + i] = y[i]
<1> DEFINE q == x \o l
<1>1. Len(x) \in Nat /\ Len(l) \in Nat /\ Len(y) \in Nat
  BY IsSeqLen
<1>2. IsSeq(q)
  BY ConcatAt
<1>3. Len(q) = Len(x) + Len(l)
  BY ConcatAt
<1>4. \A i \in 1..Len(x) : q[i] = x[i]
  BY ConcatAt
<1>5. \A i \in 1..Len(l) : q[Len(x) + i] = l[i]
  BY ConcatAt
<1>6. t = q \o y
  OBVIOUS
<1> HIDE DEF q
<1>7. IsSeq(q \o y)
  BY <1>2, ConcatAt
<1>8. Len(q \o y) = Len(q) + Len(y)
  BY <1>2, ConcatAt
<1>9. \A i \in 1..Len(q) : (q \o y)[i] = q[i]
  BY <1>2, ConcatAt
<1>10. \A i \in 1..Len(y) : (q \o y)[Len(q) + i] = y[i]
  BY <1>2, ConcatAt
<1> DEFINE a == Len(x)
           b == Len(l)
           c == Len(y)
<1>11. IsSeq(t) /\ Len(t) = (a + b) + c /\ (\A i \in 1..a+b : t[i] = q[i])
       /\ \A i \in 1..c : t[(a + b) + i] = y[i]
  <2>1. IsSeq(t)
    BY <1>6, <1>7
  <2>2. Len(t) = (a + b) + c
    BY <1>3, <1>6, <1>8
  <2>3. \A i \in 1..a+b : t[i] = q[i]
    BY <1>3, <1>6, <1>9
  <2>4. \A i \in 1..c : t[(a + b) + i] = y[i]
    BY <1>3, <1>6, <1>10
  <2> QED
    BY <2>1, <2>2, <2>3, <2>4
<1>12. a \in Nat /\ b \in Nat /\ c \in Nat
  BY <1>1
<1>13. (\A i \in 1..a : q[i] = x[i]) /\ \A i \in 1..b : q[a + i] = l[i]
  BY <1>4, <1>5
<1> HIDE DEF a, b, c
<1>14. \A i \in 1..a : t[i] = x[i]
  <2>1. \A i \in 1..a : i \in 1..a+b
    BY <1>12
  <2> QED
    BY <1>11, <1>13, <2>1
<1>15. \A i \in 1..b : t[a + i] = l[i]
  <2>1. \A i \in 1..b : a + i \in 1..a+b
    BY <1>12
  <2> QED
    BY <1>11, <1>13, <2>1
<1> QED
  BY <1>11, <1>14, <1>15 DEF a, b, c

\* The line of a block: the first with its reference, for a reader too.
LEMMA BlockIs ==
    ASSUME NEW d, IsDocument(d), Agreed(d), NEW b, RefLines(d, b) # {},
           NEW at, at = Min(RefLines(d, b))
    PROVE  at \in MdProse(d) /\ at \in 1..Len(d.lines) /\ d.lines[at].value = <<b>>
<1> DEFINE R == RefLines(d, b)
<1>1. PatchProse(d) = MdProse(d) /\ PatchProse(d) \subseteq 1..Len(d.lines)
  BY SameProse, ProseIn
<1>2. \A i \in R : i \in PatchProse(d) /\ d.lines[i].value = <<b>>
  BY DEF RefLines
<1> HIDE DEF R
<1>3. R \in SUBSET Nat
  BY <1>1, <1>2
<1>4. Min(R) \in R
  BY <1>3, MinIsLeast DEF R
<1> QED
  BY <1>1, <1>2, <1>4 DEF R

\* The parts before, from and behind a line of a document.
LEMMA AroundLine ==
    ASSUME NEW d, IsDocument(d), d.closed, NEW at \in 1..Len(d.lines)
    PROVE  /\ at \in Nat \ {0} /\ at - 1 \in Nat /\ at - 1 <= Len(d.lines) /\ (at - 1) + 1 = at
           /\ at <= Len(d.lines) /\ at + 1 \in Nat \ {0} /\ Len(d.lines) \in Nat
           /\ IsDocument(Part(d, 1, at - 1)) /\ Part(d, 1, at - 1).closed
           /\ IsDocument(Part(d, 1, at)) /\ Part(d, 1, at).closed
           /\ Part(d, 1, at).lines = SubSeq(d.lines, 1, at)
           /\ IsDocument(Part(d, at + 1, Len(d.lines)))
           /\ Part(d, at + 1, Len(d.lines)).lines = SubSeq(d.lines, at + 1, Len(d.lines))
           /\ Part(d, at, at).closed
<1> DEFINE n == Len(d.lines)
<1>1. n \in Nat
  BY LinesAre, IsSeqLen
<1>2. /\ at \in Nat \ {0} /\ at - 1 \in Nat /\ at - 1 \in Int /\ at - 1 <= n /\ (at - 1) + 1 = at
      /\ at <= n /\ at \in Int /\ at + 1 \in Nat \ {0} /\ 1 \in Nat \ {0} /\ n \in Int /\ n <= n
  BY <1>1
<1>3. IsDocument(Part(d, 1, at - 1)) /\ Part(d, 1, at - 1).closed
  BY <1>2, PartIs, PartIsDocument
<1>4. IsDocument(Part(d, 1, at)) /\ Part(d, 1, at).closed /\ Part(d, 1, at).lines = SubSeq(d.lines, 1, at)
  BY <1>2, PartIs, PartIsDocument
<1>5. IsDocument(Part(d, at + 1, n)) /\ Part(d, at + 1, n).lines = SubSeq(d.lines, at + 1, n)
  BY <1>2, PartIs, PartIsDocument
<1>6. Part(d, at, at).closed
  BY <1>2, PartIs
<1> QED
  BY <1>1, <1>2, <1>3, <1>4, <1>5, <1>6

\* Content before a block.
LEMMA BeforeBlock ==
    ASSUME NEW d, IsDocument(d), d.closed, NEW at \in 1..Len(d.lines), NEW c, IsDocument(c)
    PROVE  PatchBlock(d, "prepend", at, c).lines = Insertion(d, at - 1, c)
<1> DEFINE n == Len(d.lines)
           before == Part(d, 1, at - 1)
<1>1. /\ at \in Nat \ {0} /\ at - 1 \in Nat /\ at - 1 <= n /\ (at - 1) + 1 = at
      /\ IsDocument(before) /\ before.closed
  BY AroundLine
<1>2. IsDocument(Ended(c)) /\ Ended(c).lines = c.lines /\ Ended(c).closed
  BY EndedIs, EndedIsDocument
<1>3. PatchBlock(d, "prepend", at, c) = Join3(before, Ended(c), Part(d, at, n))
  BY DEF PatchBlock
<1>4. before.lines = Part(d, 1, at - 1).lines
  OBVIOUS
<1> HIDE DEF before
<1>5. Apart(d, at - 1, at, before, Ended(c), c)
  BY <1>1, <1>2, <1>4 DEF Apart
<1>6. Join3(before, Ended(c), Part(d, at, n)).lines = Around(d, at - 1, c, at)
  BY <1>5, InsertedAt
<1> QED
  BY <1>1, <1>3, <1>6, AroundIs, Zenon

\* Content behind a block.
LEMMA BehindBlock ==
    ASSUME NEW d, IsDocument(d), d.closed, NEW at \in 1..Len(d.lines), NEW c, IsDocument(c)
    PROVE  PatchBlock(d, "append", at, c).lines = Insertion(d, at, c)
<1> DEFINE n == Len(d.lines)
           upTo == Part(d, 1, at)
           after == Part(d, at + 1, n)
           q == Join(upTo, c)
           x == SubSeq(d.lines, 1, at)
           y == SubSeq(d.lines, at + 1, n)
<1>1. /\ IsDocument(upTo) /\ upTo.closed /\ upTo.lines = x
      /\ IsDocument(after) /\ after.lines = y
  BY AroundLine
<1>2. PatchBlock(d, "append", at, c) = Join(Ended(q), after)
  BY DEF PatchBlock
<1> HIDE DEF upTo, after, x, y
<1>3. IsDocument(q) /\ q.lines = upTo.lines \o c.lines
  BY <1>1, JoinIs, JoinIsDocument
<1> HIDE DEF q
<1>4. IsDocument(Ended(q)) /\ Ended(q).lines = q.lines /\ Ended(q).closed
  BY <1>3, EndedIs, EndedIsDocument
<1>5. Join(Ended(q), after).lines = Ended(q).lines \o after.lines
  BY <1>1, <1>4, JoinIs
<1>6. PatchBlock(d, "append", at, c).lines = (x \o c.lines) \o y
  BY <1>1, <1>2, <1>3, <1>4, <1>5, Zenon
<1> QED
  BY <1>6, Zenon DEF Insertion, x, y, n

\* Content in the place of a block: the lines before and behind it stay, and the
\* reference is in the prose where it was.
BlockOf(d, at, b) == at \in MdProse(d) /\ at \in 1..Len(d.lines) /\ d.lines[at].value = <<b>>
ProseText(c) == HasLines(c) /\ IsProse(c) /\ (c = Empty \/ c.lines # <<>>)
Replaced(d, e, at, b) ==
    /\ b \in BlockRefs(e)
    /\ SubSeq(e.lines, 1, at - 1) = SubSeq(d.lines, 1, at - 1)
    /\ \E k \in at..Len(e.lines) :
          SubSeq(e.lines, k + 1, Len(e.lines)) = SubSeq(d.lines, at + 1, Len(d.lines))

LEMMA InsteadOfBlock ==
    ASSUME NEW d, IsDocument(d), Agreed(d), NEW at, NEW b, BlockOf(d, at, b),
           NEW c, ProseText(c), NEW e, e = PatchBlock(d, "replace", at, c)
    PROVE  Replaced(d, e, at, b)
<1> DEFINE n == Len(d.lines)
           marked == Marked(c, b)
           m == [marked EXCEPT !.closed = Part(d, at, at).closed]
           ls == marked.lines
           before == Part(d, 1, at - 1)
           x == SubSeq(d.lines, 1, at - 1)
           y == SubSeq(d.lines, at + 1, n)
           k == (at - 1) + Len(ls)
<1>0. /\ at \in MdProse(d) /\ at \in 1..Len(d.lines) /\ d.lines[at].value = <<b>>
      /\ HasLines(c) /\ IsProse(c) /\ (c = Empty \/ c.lines # <<>>)
  BY DEF BlockOf, ProseText
<1>1. d.closed /\ IsDocument(c)
  BY <1>0 DEF Agreed, HasLines
<1>2. /\ at \in Nat \ {0} /\ at - 1 \in Nat /\ at - 1 <= n /\ (at - 1) + 1 = at
      /\ at <= n /\ at + 1 \in Nat \ {0} /\ n \in Nat
      /\ IsDocument(before) /\ before.closed /\ Part(d, at, at).closed
  BY <1>0, <1>1, AroundLine
<1>3. IsDocument(marked)
  BY <1>1, MarkedIsDocument
<1>4. /\ Len(ls) \in Nat \ {0} /\ IsSeq(ls)
      /\ \A j \in 1..Len(ls) : ls[j].kind \in {"text", "blank"}
      /\ ls[Len(ls)].value = <<b>>
  BY <1>0, MarkedIs
<1>5. m.lines = ls /\ m.closed /\ IsDocument(m)
  <2>1. DOMAIN marked = {"lines", "closed"}
    BY <1>3 DEF IsDocument
  <2> HIDE DEF marked
  <2>2. IsDocument(m)
    BY <1>3, ClosedIsDocument
  <2>3. m.lines = marked.lines /\ m.closed = Part(d, at, at).closed
    BY <2>1
  <2> QED
    BY <1>2, <2>2, <2>3
<1>6. e = Join3(before, m, Part(d, at + 1, n))
  <2>1. d.lines[at].value[1] = b
    BY <1>0
  <2> QED
    BY <2>1, Zenon DEF PatchBlock
<1>7. before.lines = Part(d, 1, at - 1).lines
  OBVIOUS
<1> HIDE DEF before, m, ls, marked
<1>8. Apart(d, at - 1, at + 1, before, m, m)
  BY <1>2, <1>5, <1>7 DEF Apart
<1>9. e.lines = Around(d, at - 1, m, at + 1)
  BY <1>6, <1>8, InsertedAt
<1>10. e.lines = (x \o ls) \o y
  BY <1>5, <1>9, Zenon DEF Around
<1>11. IsDocument(e) /\ IsSeq(e.lines) /\ Len(e.lines) \in Nat
  <2>1. IsDocument(e)
    <3>1. "replace" \in {"append", "prepend", "replace"}
      OBVIOUS
    <3> QED
      BY <1>0, <1>1, <3>1, PatchBlockIsDocument
  <2> QED
    BY <2>1, LinesAre, IsSeqLen
<1>12. /\ IsSeq(x) /\ Len(x) = at - 1 /\ IsSeq(y) /\ Len(y) = n - at
       /\ \A i \in 1..at-1 : x[i] = d.lines[i]
  <2>1. IsSeq(d.lines) /\ at - 1 \in Int /\ n \in Int /\ n <= Len(d.lines) /\ at - 1 <= Len(d.lines)
        /\ 1 \in Nat \ {0}
    BY <1>2, LinesAre
  <2>2. /\ (IF 1 <= at - 1 THEN (at - 1) - 1 + 1 ELSE 0) = at - 1
        /\ (IF at + 1 <= n THEN n - (at + 1) + 1 ELSE 0) = n - at
        /\ \A i \in 1..at-1 : 1 + i - 1 = i
    BY <1>2
  <2> HIDE DEF n
  <2>3. IsSeq(x) /\ Len(x) = at - 1 /\ \A i \in 1..Len(x) : x[i] = d.lines[1 + i - 1]
    BY <2>1, <2>2, SubSeqAt
  <2>4. IsSeq(y) /\ Len(y) = n - at
    BY <1>2, <2>1, <2>2, SubSeqAt
  <2> HIDE DEF x, y
  <2> QED
    BY <2>2, <2>3, <2>4
<1> HIDE DEF x, y, n
<1>13. /\ Len(e.lines) = Len(x) + Len(ls) + Len(y)
       /\ \A i \in 1..Len(x) : e.lines[i] = x[i]
       /\ \A i \in 1..Len(ls) : e.lines[Len(x) + i] = ls[i]
       /\ \A i \in 1..Len(y) : e.lines[(Len(x) + Len(ls)) + i] = y[i]
  <2>1. IsSeq(x) /\ IsSeq(ls) /\ IsSeq(y)
    BY <1>4, <1>12
  <2> DEFINE t == e.lines
  <2>2. t = (x \o ls) \o y
    BY <1>10
  <2> HIDE DEF t
  <2>3. Len(t) = Len(x) + Len(ls) + Len(y)
    BY <2>1, <2>2, ThreeAt
  <2>4. \A i \in 1..Len(x) : t[i] = x[i]
    BY <2>1, <2>2, ThreeAt
  <2>5. \A i \in 1..Len(ls) : t[Len(x) + i] = ls[i]
    BY <2>1, <2>2, ThreeAt
  <2>6. \A i \in 1..Len(y) : t[(Len(x) + Len(ls)) + i] = y[i]
    BY <2>1, <2>2, ThreeAt
  <2> QED
    BY <2>3, <2>4, <2>5, <2>6 DEF t
<1> DEFINE l == Len(ls)
<1>14. l \in Nat \ {0}
  BY <1>4
<1>15. /\ Len(e.lines) = (at - 1) + l + (n - at)
       /\ \A i \in 1..at-1 : e.lines[i] = d.lines[i]
       /\ \A i \in 1..l : e.lines[(at - 1) + i] = ls[i]
       /\ \A i \in 1..Len(y) : e.lines[k + i] = y[i]
  BY <1>12, <1>13
<1> HIDE DEF l
<1>16. k = (at - 1) + l
  BY DEF l
<1> HIDE DEF k
<1>17. /\ k \in Nat /\ k \in at..Len(e.lines) /\ k + Len(y) = Len(e.lines)
  BY <1>2, <1>12, <1>14, <1>15, <1>16
<1>18. SubSeq(e.lines, 1, at - 1) = x
  <2>1. 0 \in Nat /\ 0 + Len(x) <= Len(e.lines) /\ \A i \in 1..Len(x) : e.lines[0 + i] = x[i]
    <3>1. \A i \in 1..Len(x) : 0 + i = i
      BY <1>2, <1>12
    <3> QED
      BY <1>2, <1>12, <1>13, <1>14, <1>15, <3>1
  <2>2. SubSeq(e.lines, 0 + 1, 0 + Len(x)) = x
    BY <1>11, <1>12, <2>1, StretchIs
  <2>3. 0 + 1 = 1 /\ 0 + Len(x) = at - 1
    BY <1>2, <1>12
  <2> QED
    BY <2>2, <2>3
<1>19. SubSeq(e.lines, k + 1, Len(e.lines)) = y
  <2>1. SubSeq(e.lines, k + 1, k + Len(y)) = y
    <3> DEFINE t == e.lines
    <3>1. IsSeq(t) /\ k \in Nat /\ k + Len(y) <= Len(t)
      BY <1>11, <1>17
    <3>2. IsSeq(y) /\ \A i \in 1..Len(y) : t[k + i] = y[i]
      BY <1>12, <1>15
    <3> HIDE DEF t
    <3>3. SubSeq(t, k + 1, k + Len(y)) = y
      BY <3>1, <3>2, StretchIs
    <3> QED
      BY <3>3 DEF t
  <2> QED
    BY <1>17, <2>1
<1>20. \A j \in at..k : e.lines[j].kind \in {"text", "blank"}
  <2>1. ASSUME NEW j \in at..k PROVE e.lines[j].kind \in {"text", "blank"}
    <3> DEFINE i == j - (at - 1)
    <3>1. i \in 1..l /\ (at - 1) + i = j
      BY <1>2, <1>14, <1>16, <1>17
    <3> HIDE DEF i
    <3>2. e.lines[j] = ls[i]
      BY <1>15, <3>1
    <3> QED
      BY <1>4, <3>1, <3>2 DEF l
  <2> QED
    BY <2>1
<1>21. e.lines[k].value = <<b>>
  <2>1. l \in 1..l
    BY <1>14
  <2>2. e.lines[k] = ls[l]
    BY <1>15, <1>16, <2>1
  <2> QED
    BY <1>4, <2>2 DEF l
<1>22. k \in MdProse(e)
  <2>1. \A j \in at..k : e.lines[j].kind \notin {"fence", "delim"}
    BY <1>20
  <2>2. IsDocument(e) /\ k \in at..Len(e.lines)
    BY <1>11, <1>17
  <2>3. \A j \in 1..at-1 : e.lines[j] = d.lines[j]
    BY <1>15
  <2>4. Beyond(d, e, at, k)
    BY <1>0, <2>1, <2>2, <2>3 DEF Beyond
  <2> QED
    BY <2>4, ProseOn
<1>23. b \in BlockRefs(e)
  <2>1. k \in at..k
    BY <1>2, <1>17
  <2>2. e.lines[k].kind # "field"
    BY <1>20, <2>1
  <2>3. <<b>> # <<>> /\ <<b>>[1] = b
    BY TuplesAreSeqs
  <2>4. e.lines[k].value # <<>> /\ e.lines[k].value[1] = b
    BY <1>21, <2>3
  <2> QED
    BY <1>22, <2>2, <2>4 DEF BlockRefs
<1> QED
  BY <1>17, <1>18, <1>19, <1>23 DEF Replaced, x, y, n

\* A patch of a block.
LEMMA BlockLands ==
    ASSUME NEW d, IsDocument(d), Agreed(d), NEW p, HasLines(p.content), IsProse(p.content),
           p.content = Empty \/ p.content.lines # <<>>,
           p.op \in {"append", "prepend", "replace"}, p.type = "block",
           NEW e, e = ApplyPatch(d, p), e # None
    PROVE  LandsAtBlock(d, e, p)
<1> DEFINE b == p.target
           c == p.content
           at == Min(RefLines(d, b))
<1>1. RefLines(d, b) # {} /\ e = PatchBlock(d, p.op, at, c)
  BY DEF ApplyPatch
<1> HIDE DEF at
<1>2. at \in MdProse(d) /\ at \in 1..Len(d.lines) /\ d.lines[at].value = <<b>>
  BY <1>1, BlockIs DEF at
<1>3. IsDocument(c) /\ d.closed
  BY DEF HasLines, Agreed
<1> HIDE DEF c, b
<1>4. CASE p.op = "prepend"
  <2>1. e.lines = Insertion(d, at - 1, c)
    BY <1>1, <1>2, <1>3, <1>4, BeforeBlock
  <2> QED
    BY <1>2, <1>4, <2>1 DEF LandsAtBlock, b, c
<1>5. CASE p.op = "append"
  <2>1. e.lines = Insertion(d, at, c)
    BY <1>1, <1>2, <1>3, <1>5, BehindBlock
  <2> QED
    BY <1>2, <1>5, <2>1 DEF LandsAtBlock, b, c
<1>6. CASE p.op = "replace"
  <2>1. BlockOf(d, at, b) /\ ProseText(c) /\ e = PatchBlock(d, "replace", at, c)
    BY <1>1, <1>2, <1>6 DEF BlockOf, ProseText, c
  <2>2. Replaced(d, e, at, b)
    BY <2>1, InsteadOfBlock
  <2> QED
    BY <1>2, <1>6, <2>2, Zenon DEF Replaced, LandsAtBlock, b, c
<1> QED
  BY <1>4, <1>5, <1>6

\* A patch of a heading or a block lands where a reader of the note sees that
\* section or block, and no other line changes (patch.rs): for any documents and
\* patches on which patch.rs and Markdown agree, whatever other clients do
\* meanwhile to other files.
THEOREM PatchLands == Spec => []PatchLandsInPlace
<1>1. Inv /\ Honesty /\ AllMade => PatchLandsInPlace
  <2> SUFFICES ASSUME Inv, AllMade, NEW c \in Callers, Answered(c, {"note_patch"}), Undisturbed(c),
                      Agreed(Before(c)), IsProse(Req(c).patch.content)
      PROVE  LET p == Req(c).patch IN
             /\ p.type = "heading" => LandsUnderHeading(Before(c), After(c), p)
             /\ p.type = "block"   => LandsAtBlock(Before(c), After(c), p)
    BY Zenon DEF PatchLandsInPlace
  <2> DEFINE r == Req(c)
             p == r.patch
             d == Before(c)
             e == After(c)
  <2>1. r.tool = "note_patch"
    BY DEF Answered
  <2>2. Loading(r)
    BY <2>1 DEF Loading
  <2>3. e = Changed(r, d) /\ e # None /\ IsDocument(d) /\ WellTyped(r)
    BY <2>2, WhatWasMade
  <2>4. Agreed(d) /\ IsProse(p.content)
    OBVIOUS
  <2> HIDE DEF r, d, e
  <2>5. e = ApplyPatch(d, p)
    BY <2>1, <2>3 DEF Changed
  <2>6. /\ p.op \in {"append", "prepend", "replace"} /\ HasLines(p.content)
        /\ p.content = Empty \/ p.content.lines # <<>>
        /\ p.type = "heading" => p.target \in Seq(Range(p.target)) \ {<<>>}
    BY <2>1, <2>3 DEF WellTyped
  <2> HIDE DEF p
  <2>7. ASSUME p.type = "heading" PROVE LandsUnderHeading(d, e, p)
    <3>1. IsDocument(p.content) /\ IsSeq(p.target) /\ p.target # <<>>
      BY <2>6, <2>7 DEF HasLines, IsSeq
    <3> QED
      BY <2>3, <2>4, <2>5, <2>6, <2>7, <3>1, HeadingLands
  <2>8. ASSUME p.type = "block" PROVE LandsAtBlock(d, e, p)
    BY <2>3, <2>4, <2>5, <2>6, <2>8, BlockLands
  <2> QED
    BY <2>7, <2>8, Zenon DEF p, r, d, e
<1> QED
  BY <1>1, AllMadeKeeps, CallsCorrect, CallsHonest, InitMade, PTL DEF Spec

--------------------------------------------------------------------------------
(* The names in the vault are names, and where a call writes is a path of them. *)

\* Every file and directory is at a path of names.
InNames(w) == Nodes(Tree(w)) \subseteq Seq(Names)

\* A normalized path has the names of the request and no others.
LEMMA NormalNames ==
    ASSUME NEW raw, IsPath(raw), NormalizeRelative(raw).err = "none"
    PROVE  NormalizeRelative(raw).path \in Seq(Names)
<1> DEFINE p == NormalizeRelative(raw).path
<1>1. IsSeq(raw)
  BY PathIsSeq
<1>2. p \in Seq(Range(raw)) /\ Plain(p)
  BY <1>1, NormalizedIs, NormalizedIsPlain DEF Normalized
<1>3. Range(raw) \subseteq Names \cup {Up, Here, Root}
  <2>1. DOMAIN raw = 1..Len(raw) /\ \A i \in 1..Len(raw) : raw[i] \in Names \cup {Up, Here, Root}
    BY DEF IsPath
  <2> QED
    BY <2>1 DEF Range
<1> HIDE DEF p
<1>4. IsSeq(p) /\ DOMAIN p = 1..Len(p)
  BY <1>2, SeqIsSeq, IsSeqLen
<1>5. ASSUME NEW i \in 1..Len(p) PROVE p[i] \in Names
  <2>1. p[i] \in Range(raw)
    BY <1>2
  <2>2. p[i] \in Range(p)
    BY <1>4 DEF Range
  <2> QED
    BY <1>2, <1>3, <2>1, <2>2 DEF Plain
<1>6. Range(p) \subseteq Names
  BY <1>4, <1>5 DEF Range
<1>7. p \in Seq(Names)
  BY <1>4, <1>6, SeqMonotonic DEF IsSeq
<1> QED
  BY <1>7 DEF p

\* Where a file is written has a path of names.
LEMMA ForWriteNames ==
    ASSUME NEW tree, IsTree(tree), Nodes(tree) \subseteq Seq(Names), NEW raw, IsPath(raw),
           ResolveForWrite(tree, raw).err = "none"
    PROVE  ResolveForWrite(tree, raw).path \in Seq(Names)
<1> DEFINE r == NormalizeRelative(raw)
           n == Len(r.path)
           walk == Walk(tree, r.path)
           S == {k \in 0..n : walk[k].err = "none"}
<1>1. r.err = "none"
  BY DEF ResolveForWrite
<1>2. r.path \in Seq(Names) /\ IsSeq(r.path) /\ n \in Nat /\ n \in 0..n
  BY <1>1, NormalNames, SeqIsSeq, IsSeqLen
<1>3. walk[0] = Found(<<>>) /\ \A k \in 0..n : walk[k] \in Results(tree)
  BY <1>2, WalkFinds
<1> HIDE DEF n, walk
<1>4. \A k \in 0..n : walk[k].err = "none" => walk[k].path \in Seq(Names)
  BY <1>3 DEF Results
<1>5. Max(S) \in 0..n /\ walk[Max(S)].err = "none"
  <2>1. 0 \in S
    BY <1>2, <1>3 DEF Found
  <2>2. S \in SUBSET (0..n) /\ S # {}
    BY <2>1
  <2>3. Max(S) \in S
    <3> HIDE DEF S
    <3> QED
      BY <1>2, <2>2, MaxIsGreatest
  <2> QED
    BY <2>3
<1>6. ResolveForWrite(tree, raw) = IF r.err # "none" THEN r
                                   ELSE IF walk[n].err # "missing" THEN walk[n]
                                   ELSE Found(walk[Max(S)].path \o SubSeq(r.path, Max(S) + 1, n))
  BY DEF ResolveForWrite, ForWrite, Extended, n, walk
<1> DEFINE a == walk[Max(S)].path
           b == SubSeq(r.path, Max(S) + 1, n)
<1>7. a \o b \in Seq(Names)
  <2>1. a \in Seq(Names)
    BY <1>4, <1>5
  <2>2. b \in Seq(Names)
    <3>1. \A i \in Max(S)+1..n : r.path[i] \in Names
      BY <1>2, <1>5 DEF n
    <3> QED
      BY <1>2, <1>5, <3>1, SubSeqProperties
  <2> HIDE DEF a, b
  <2> QED
    BY <2>1, <2>2, ConcatProperties
<1>8. CASE walk[n].err = "missing"
  <2>1. ResolveForWrite(tree, raw) = Found(a \o b)
    BY <1>1, <1>6, <1>8
  <2> HIDE DEF a, b
  <2> QED
    BY <1>7, <2>1 DEF Found
<1>9. CASE walk[n].err # "missing"
  <2>1. ResolveForWrite(tree, raw) = walk[n]
    BY <1>1, <1>6, <1>9
  <2> QED
    BY <1>2, <1>4, <2>1
<1> QED
  BY <1>8, <1>9

\* The directories above a path of names have one.
LEMMA ParentsNames == ASSUME NEW p \in Seq(Names) PROVE Parents(p) \subseteq Seq(Names)
<1>1. Len(p) \in Nat /\ \A i \in 1..Len(p) : p[i] \in Names
  OBVIOUS
<1>2. ASSUME NEW k \in 0..Len(p)-1 PROVE SubSeq(p, 1, k) \in Seq(Names)
  <2>1. \A i \in 1..k : p[i] \in Names
    BY <1>1
  <2> QED
    BY <1>1, <2>1, SubSeqProperties
<1> QED
  BY <1>2 DEF Parents

\* A name that is the only spelling of its text, and a path of such names.
IsOwn(n) == \A e \in Names : Key[e] = Key[n] => e = n
OwnPath(p) == /\ p \in Seq(Names) /\ Plain(p)
              /\ \A i \in 1..Len(p) : IsOwn(p[i])

\* Such a path leads where it says, for as far as that is there.
LEMMA OwnWalk ==
    ASSUME NEW tree, IsTree(tree), Nodes(tree) \subseteq Seq(Names), NEW p, OwnPath(p),
           NEW w, Walks(w, tree, p), \A k \in 0..Len(p) : w[k] \in Results(tree)
    PROVE  \A k \in 0..Len(p) : w[k].err = "none" => w[k] = Found(SubSeq(p, 1, k))
<1> DEFINE S == {k \in Nat : k <= Len(p) /\ w[k].err = "none" => w[k] = Found(SubSeq(p, 1, k))}
<1>1. IsSeq(p) /\ Len(p) \in Nat
  BY SeqIsSeq DEF OwnPath
<1>2. 0 \in S
  <2>1. w[0] = Found(<<>>) /\ SubSeq(p, 1, 0) = <<>>
    BY <1>1, EndsOfPrefix DEF Walks
  <2> QED
    BY <2>1
<1>3. ASSUME NEW k \in Nat, k \in S PROVE k + 1 \in S
  <2> SUFFICES ASSUME k + 1 <= Len(p), w[k + 1].err = "none"
               PROVE  w[k + 1] = Found(SubSeq(p, 1, k + 1))
    OBVIOUS
  <2> DEFINE r == w[k]
             name == p[k + 1]
             s == SubSeq(p, 1, k)
  <2>1. k + 1 \in 1..Len(p) /\ (k + 1) - 1 = k /\ k \in 0..Len(p) /\ k <= Len(p)
    BY <1>1
  <2>2. w[k + 1] = Step(tree, r, name) /\ r \in Results(tree)
    BY <2>1 DEF Walks
  <2>3. Step(tree, r, name).err = "none"
    BY <2>2
  <2>4. /\ r = Found(r.path) /\ r.path \in Nodes(tree)
        /\ \E e \in Children(tree, r.path) :
              /\ Step(tree, r, name) = Found(Append(r.path, e))
              /\ IF name \in Children(tree, r.path) THEN e = name
                 ELSE Alike(Children(tree, r.path), name) = {e}
    <3> HIDE DEF r, name
    <3> QED
      BY <2>2, <2>3, StepOk
  <2>5. r = Found(s)
    <3>1. r.err = "none"
      BY <2>4 DEF Found
    <3>2. k <= Len(p) /\ w[k].err = "none" => w[k] = Found(SubSeq(p, 1, k))
      BY <1>3
    <3> QED
      BY <2>1, <3>1, <3>2
  <2>6. r.path = s /\ IsSeq(s)
    BY <1>1, <2>1, <2>5, PrefixIs DEF Found
  <2>7. PICK e \in Children(tree, s) :
              /\ Step(tree, r, name) = Found(Append(s, e))
              /\ IF name \in Children(tree, s) THEN e = name ELSE Alike(Children(tree, s), name) = {e}
    BY <2>4, <2>6
  <2>8. e \in Names
    <3>1. Append(s, e) \in Seq(Names)
      BY <2>6, ChildIs
    <3>2. Append(s, e)[Len(s) + 1] = e /\ Len(Append(s, e)) = Len(s) + 1 /\ Len(s) \in Nat
      BY <2>6, AppendIs, AppendIsSeq, IsSeqLen
    <3> DEFINE a == Append(s, e)
    <3>3. a \in Seq(Names) /\ Len(s) + 1 \in 1..Len(a)
      BY <3>1, <3>2
    <3> HIDE DEF a
    <3>4. a[Len(s) + 1] \in Names
      BY <3>3
    <3> QED
      BY <3>2, <3>4 DEF a
  <2>9. e = name
    <3>1. name \notin Children(tree, s) => Key[e] = Key[name]
      BY <2>7 DEF Alike
    <3>2. IsOwn(name)
      BY <2>1 DEF OwnPath
    <3> QED
      BY <2>7, <2>8, <3>1, <3>2 DEF IsOwn
  <2>10. SubSeq(p, 1, k + 1) = Append(s, name)
    BY <1>1, <2>1, NextPrefix
  <2> QED
    BY <2>2, <2>7, <2>9, <2>10
<1> HIDE DEF S
<1>4. Nat \subseteq S
  BY <1>2, <1>3, Induction
<1> QED
  BY <1>1, <1>4 DEF S

\* A path is its beginning and its rest.
LEMMA PartsMakeWhole ==
    ASSUME NEW p, IsSeq(p), NEW m \in 0..Len(p)
    PROVE  SubSeq(p, 1, m) \o SubSeq(p, m + 1, Len(p)) = p
<1> DEFINE n == Len(p)
           a == SubSeq(p, 1, m)
           b == SubSeq(p, m + 1, n)
           c == a \o b
<1>1. n \in Nat /\ m \in Nat /\ m <= n
  BY IsSeqLen
<1>2. IsSeq(a) /\ Len(a) = m /\ \A i \in 1..m : a[i] = p[i]
  BY PrefixIs
<1>3. /\ IsSeq(b) /\ Len(b) = (IF m + 1 <= n THEN n - (m + 1) + 1 ELSE 0)
      /\ \A i \in 1..Len(b) : b[i] = p[m + 1 + i - 1]
  <2>1. m + 1 \in Nat \ {0} /\ n \in Int /\ n <= n
    BY <1>1
  <2> QED
    BY <2>1, SubSeqAt
<1> HIDE DEF a, b
<1>4. Len(b) = n - m
  BY <1>1, <1>3
<1>5. IsSeq(c) /\ Len(c) = Len(a) + Len(b)
  BY <1>2, <1>3, ConcatAt
<1>6. \A i \in 1..Len(a) : c[i] = a[i]
  BY <1>2, <1>3, ConcatAt
<1>7. \A i \in 1..Len(b) : c[Len(a) + i] = b[i]
  <2>1. \A i \in 1..Len(b) : (a \o b)[Len(a) + i] = b[i]
    BY <1>2, <1>3, ConcatAt
  <2> QED
    BY <2>1
<1> HIDE DEF c, n
<1>8. ASSUME NEW i \in 1..n PROVE c[i] = p[i]
  <2>1. CASE i <= m
    BY <1>1, <1>2, <1>6, <2>1
  <2>2. CASE i > m
    <3>1. i - m \in 1..Len(b) /\ m + (i - m) = i /\ m + 1 + (i - m) - 1 = i
      BY <1>1, <1>4, <2>2
    <3>2. c[m + (i - m)] = b[i - m] /\ b[i - m] = p[m + 1 + (i - m) - 1]
      BY <1>2, <1>3, <1>7, <3>1
    <3> QED
      BY <3>1, <3>2
  <2> QED
    BY <1>1, <2>1, <2>2
<1>9. Len(c) = n
  BY <1>1, <1>2, <1>4, <1>5
<1>10. c = p
  BY <1>5, <1>8, <1>9, SamePath DEF n
<1> QED
  BY <1>10 DEF c, a, b, n

\* It is written where it says.
LEMMA OwnPlace ==
    ASSUME NEW tree, IsTree(tree), Nodes(tree) \subseteq Seq(Names), NEW p, OwnPath(p),
           ResolveForWrite(tree, p).err = "none"
    PROVE  ResolveForWrite(tree, p).path = p
<1> DEFINE n == Len(p)
           w == Walk(tree, p)
           S == {k \in 0..n : w[k].err = "none"}
           m == Max(S)
<1>1. IsSeq(p) /\ n \in Nat /\ n \in 0..n
  BY SeqIsSeq DEF OwnPath
<1>2. NormalizeRelative(p) = Found(p)
  BY <1>1, NormalizedPlace DEF OwnPath
<1>3. Walks(w, tree, p) /\ \A k \in 0..n : w[k] \in Results(tree)
  BY <1>1, WalkSteps, WalkFinds
<1>4. ResolveForWrite(tree, p) = IF w[n].err # "missing" THEN w[n]
                                 ELSE Found(w[m].path \o SubSeq(p, m + 1, n))
  BY <1>2 DEF ResolveForWrite, ForWrite, Extended, Found
<1> HIDE DEF w
<1>5. \A k \in 0..n : w[k].err = "none" => w[k] = Found(SubSeq(p, 1, k))
  BY <1>3, OwnWalk
<1>6. m \in 0..n /\ w[m].err = "none"
  <2>1. 0 \in S
    BY <1>1, <1>3 DEF Walks, Found
  <2>2. S \in SUBSET (0..n) /\ S # {}
    BY <2>1
  <2>3. Max(S) \in S
    <3> HIDE DEF S
    <3> QED
      BY <1>1, <2>2, MaxIsGreatest
  <2> QED
    BY <2>3
<1> HIDE DEF S, m
<1>7. SubSeq(p, 1, m) \o SubSeq(p, m + 1, n) = p
  BY <1>1, <1>6, PartsMakeWhole
<1>8. SubSeq(p, 1, n) = p
  BY <1>1, EndsOfPrefix
<1>9. w[m].path = SubSeq(p, 1, m)
  <2>1. w[m] = Found(SubSeq(p, 1, m))
    BY <1>5, <1>6
  <2> DEFINE u == w[m]
             q == SubSeq(p, 1, m)
  <2>2. u = Found(q)
    BY <2>1
  <2> HIDE DEF u, q
  <2>3. u.path = q
    BY <2>2 DEF Found
  <2> QED
    BY <2>3 DEF u, q
<1>10. Found(p).path = p
  BY DEF Found
<1> QED
  BY <1>1, <1>4, <1>5, <1>7, <1>8, <1>9, <1>10

\* What has no directory of the path's own in it is a path of names.
LEMMA PlaceNames == ASSUME NEW p, IsPlace(p) PROVE p \in Seq(Names)
<1>1. p \in Seq(Names \cup {Up, Here, Root}) /\ Range(p) \cap {Up, Here, Root} = {}
  BY DEF IsPlace, IsPath
<1>2. \A i \in 1..Len(p) : p[i] \in Names
  <2>1. \A i \in 1..Len(p) : p[i] \in Names \cup {Up, Here, Root} /\ i \in DOMAIN p
    BY <1>1
  <2>2. \A i \in 1..Len(p) : p[i] \in Range(p)
    BY <2>1 DEF Range
  <2> QED
    BY <1>1, <2>1, <2>2
<1>3. IsSeq(p) /\ Range(p) \subseteq Names
  <2>1. IsSeq(p)
    BY <1>1, SeqIsSeq
  <2>2. DOMAIN p = 1..Len(p)
    BY <1>1
  <2> QED
    BY <1>2, <2>1, <2>2 DEF Range
<1> QED
  BY <1>3, SeqMonotonic DEF IsSeq

\* Where a call creates or loads is a path.
LEMMA WantedIsPath ==
    ASSUME NEW r, WellTyped(r)
    PROVE  /\ r.tool \in Creating => IsPath(NewPath(r))
           /\ r.tool \in Editing => IsPath(r.path)
<1>1. r.tool \in Editing => IsPath(r.path)
  BY DEF WellTyped
<1>2. CASE r.tool = "note_create"
  BY <1>1, <1>2 DEF NewPath, Editing
<1>3. CASE r.tool = "periodic_create"
  <2> DEFINE config == PeriodicConfig(r.period)
             name == FormatDate(config.format, r.day)
  <2>1. IsPath(config.folder) /\ name \in Names
    BY <1>3 DEF WellTyped, NamesADay
  <2>2. NewPath(r) = Append(config.folder, name)
    BY <1>3 DEF NewPath, PeriodicNotePath
  <2> HIDE DEF config, name
  <2>3. Append(config.folder, name) \in Seq(Names \cup {Up, Here, Root})
    BY <2>1 DEF IsPath
  <2> QED
    BY <1>3, <2>2, <2>3 DEF IsPath, Editing
<1> QED
  BY <1>1, <1>2, <1>3 DEF Creating

\* Where a call writes is a path, and where it moves something to one of names.
\* A periodic note is at its own path once it is written.
Spelt(k) ==
    /\ k.at = "rename" => k.path \in Seq(Names)
    /\ k.at = "put" /\ (Loading(k.req) \/ k.req.tool \in Creating) => IsPath(k.path)
    /\ k.at = "put" /\ k.req.tool = "periodic_create" => k.path = NewPath(k.req)
    /\ /\ k.at = "reindex" \/ (k.at = "done" /\ k.reply.err = "none")
       /\ k.req.tool = "periodic_create" /\ OwnPath(NewPath(k.req))
       => k.path = NewPath(k.req)
AllSpelt == InNames(World) /\ \A c \in Callers : call[c].at # "idle" => Spelt(call[c])

\* What others do leaves it so.
LEMMA DisturbedSpelt ==
    ASSUME NEW k, DOMAIN k = Fields, k.at # "idle", Spelt(k) PROVE Spelt(Disturbed(k))
<1> DEFINE kept == Restrict(k.kept, {p \in DOMAIN k.kept : Same(p)})
           alone == k.alone /\ vault' = vault
           grown == /\ k.grown /\ DOMAIN disk \subseteq DOMAIN disk'
                    /\ dirs \subseteq dirs' /\ links \subseteq links'
           n == [k EXCEPT !.kept = kept, !.alone = alone, !.grown = grown]
<1>1. Disturbed(k) = n
  BY Zenon DEF Disturbed
<1> HIDE DEF kept, alone, grown
<1>2. n.at = k.at /\ n.req = k.req /\ n.path = k.path /\ n.reply = k.reply
  BY DEF Fields
<1> HIDE DEF n
<1>3. Spelt(n)
  BY <1>2 DEF Spelt
<1> QED
  BY <1>1, <1>3

\* A step is as its own call and the vault are.
LEMMA StepSpelt ==
    ASSUME Inv, AllSpelt, InNames(World'), NEW c \in Callers, NEW n, Becomes(c, n), Spelt(n)
    PROVE  AllSpelt'
<1>1. ASSUME NEW x \in Callers, call'[x].at # "idle" PROVE Spelt(call'[x])
  <2>1. CASE x = c
    BY <2>1 DEF Becomes
  <2>2. CASE x # c
    <3>1. call'[x] = Disturbed(call[x])
      BY <2>2 DEF Becomes
    <3>2. call[x].at # "idle"
      BY <1>1, <3>1 DEF Disturbed
    <3>3. Spelt(call[x]) /\ DOMAIN call[x] = Fields
      BY <3>2 DEF AllSpelt, Inv, GoodCall
    <3> QED
      BY <3>1, <3>2, <3>3, DisturbedSpelt
  <2> QED
    BY <2>1, <2>2
<1> QED
  BY <1>1 DEF AllSpelt

\* One that adds no name,
LEMMA SmallerNames ==
    ASSUME InNames(World), DOMAIN disk' \subseteq DOMAIN disk, dirs' \subseteq dirs
    PROVE  InNames(World')
BY WorldsAre DEF InNames, Nodes

\* the answer to a call,
LEMMA ReplySpelt ==
    ASSUME Inv, Honesty, AllSpelt, InNames(World'), NEW c \in Callers,
           call[c].at \notin {"idle", "done"}, NEW r, Reply(c, r),
           r.err = "none" /\ call[c].req.tool = "periodic_create" => call[c].at = "reindex"
    PROVE  AllSpelt'
<1> DEFINE k == call[c]
           n == [k EXCEPT !.at = "done", !.reply = r]
<1>1. Becomes(c, n)
  BY Zenon DEF Reply
<1>2. n.at = "done" /\ n.reply = r /\ n.req = k.req /\ n.path = k.path
  BY HonestCall DEF Fields
<1>3. Spelt(k) /\ (r.err = "none" /\ k.req.tool = "periodic_create" => k.at = "reindex")
  BY DEF AllSpelt
<1> HIDE DEF n, k
<1>4. Spelt(n)
  BY <1>2, <1>3 DEF Spelt
<1> QED
  BY <1>1, <1>4, StepSpelt

\* a refusal,
LEMMA FailSpelt ==
    ASSUME Inv, Honesty, AllSpelt, NEW c \in Callers, call[c].at \notin {"idle", "done"},
           NEW why, Fail(c, why), why # "none" \/ call[c].req.tool # "periodic_create"
    PROVE  AllSpelt'
<1>1. Refusal(why).err = why /\ Reply(c, Refusal(why)) /\ UNCHANGED vault
  BY DEF Refusal, Fail
<1>2. InNames(World')
  BY <1>1, SmallerNames DEF vault, AllSpelt
<1> QED
  BY <1>1, <1>2, ReplySpelt

\* and any other step of a tool that creates nothing, up to where it writes.
LEMMA OtherSpelt ==
    ASSUME Inv, Honesty, AllSpelt, InNames(World'), NEW c \in Callers,
           call[c].at \notin {"idle", "done"}, call[c].req.tool # "periodic_create",
           NEW n, Becomes(c, n), n.req = call[c].req, n.at \notin {"rename", "put"}
    PROVE  AllSpelt'
<1>1. Spelt(n)
  BY DEF Spelt
<1> QED
  BY <1>1, StepSpelt

\* Each step of a call keeps the names in the vault and where the call is going.
LEMMA BeginSpelt ==
    ASSUME Inv, Honesty, AllSpelt, NEW c \in Callers, NEW r, Begin(c, r) PROVE AllSpelt'
<1> DEFINE k == [Idle EXCEPT !.req = r, !.kept = disk]
           refused(why) == [k EXCEPT !.at = "done", !.reply = Refusal(why)]
           n == [k EXCEPT !.at = FirstStep(r)]
<1>1. InNames(World')
  BY SmallerNames DEF Begin, vault, AllSpelt
<1>2. DOMAIN k = Fields /\ k.req = r
  BY DEF Idle, Fields
<1> HIDE DEF k
<1>3. ASSUME NEW why, why # "none" PROVE Spelt(refused(why))
  <2> DEFINE m == refused(why)
  <2>1. m.at = "done" /\ m.reply = Refusal(why)
    BY <1>2 DEF Fields
  <2>2. Refusal(why).err = why
    BY DEF Refusal
  <2> HIDE DEF m
  <2>3. Spelt(m)
    BY <1>3, <2>1, <2>2 DEF Spelt
  <2> QED
    BY <2>3 DEF m
<1>4. Spelt(n)
  <2>1. n.at = FirstStep(r) /\ n.req = r
    BY <1>2 DEF Fields
  <2> HIDE DEF n
  <2>2. FirstStep(r) \notin {"rename", "done", "reindex"}
    BY DEF FirstStep
  <2>3. Loading(r) \/ r.tool \in Creating => FirstStep(r) # "put"
    BY DEF FirstStep, Loading, Creating
  <2> QED
    BY <2>1, <2>2, <2>3 DEF Spelt, Creating
<1>5. Becomes(c, n) \/ Becomes(c, refused("no_tool")) \/ Becomes(c, refused("params"))
  BY Zenon DEF Begin, k
<1>6. Spelt(refused("no_tool")) /\ Spelt(refused("params"))
  BY <1>3
<1> HIDE DEF n, refused
<1> QED
  BY <1>1, <1>4, <1>5, <1>6, StepSpelt

LEMMA CheckNewSpelt ==
    ASSUME Inv, Honesty, AllSpelt, NEW c \in Callers, CheckNew(c) PROVE AllSpelt'
<1> DEFINE k == call[c]
           r == Req(c)
           d == NewNote(r)
           n == [k EXCEPT !.at = "put", !.path = NewPath(r), !.doc = d.body]
<1>1. k.at = "check" /\ r.tool \in Creating
  BY DEF CheckNew, At, Uses
<1>2. \/ Fail(c, "io") \/ Fail(c, "exists")
      \/ d.err # "none" /\ Fail(c, d.err)
      \/ UNCHANGED vault /\ Becomes(c, n)
  BY Zenon DEF CheckNew
<1>3. /\ DOMAIN k = Fields /\ r = k.req /\ WellTyped(r)
      /\ k.at \notin {"idle", "done"}
  BY <1>1, AtChange DEF Changing
<1>4. n.at = "put" /\ n.path = NewPath(r) /\ n.req = r
  BY <1>3 DEF Fields
<1> HIDE DEF n, d
<1>5. IsPath(NewPath(r))
  BY <1>1, <1>3, WantedIsPath
<1>6. Spelt(n)
  BY <1>4, <1>5 DEF Spelt
<1>7. UNCHANGED vault => InNames(World')
  BY SmallerNames DEF vault, AllSpelt
<1> QED
  BY <1>2, <1>3, <1>6, <1>7, FailSpelt, StepSpelt

LEMMA LoadSpelt ==
    ASSUME Inv, Honesty, AllSpelt, NEW c \in Callers, Load(c) PROVE AllSpelt'
<1> DEFINE k == call[c]
           r == Req(c)
           old == ReadFile(World, r.path)
           new == Changed(r, old.body)
           n == [k EXCEPT !.at = "put", !.path = r.path, !.doc = new]
<1>1. k.at = "load"
  BY DEF Load, At
<1>2. \/ old.err # "none" /\ Fail(c, old.err)
      \/ Fail(c, "target")
      \/ UNCHANGED vault /\ Becomes(c, n)
  BY Zenon DEF Load, LoadFrom, Rewrite
<1>3. /\ DOMAIN k = Fields /\ r = k.req /\ WellTyped(r) /\ GoodCall(setup, k)
      /\ k.at \notin {"idle", "done"}
  BY <1>1, AtChange DEF Changing
<1>4. Loading(r)
  BY <1>1, <1>3 DEF GoodCall, Fits
<1>5. r.tool \in Editing /\ r.tool # "periodic_create"
  BY <1>4, LoadingIs DEF Editing
<1>6. n.at = "put" /\ n.path = r.path /\ n.req = r
  BY <1>3 DEF Fields
<1> HIDE DEF n, old, new
<1>7. IsPath(r.path)
  BY <1>3, <1>5, WantedIsPath
<1>8. Spelt(n)
  BY <1>5, <1>6, <1>7 DEF Spelt
<1>9. UNCHANGED vault => InNames(World')
  BY SmallerNames DEF vault, AllSpelt
<1> QED
  BY <1>2, <1>3, <1>8, <1>9, FailSpelt, StepSpelt

LEMMA PutSpelt ==
    ASSUME Inv, Honesty, AllSpelt, NEW c \in Callers, Put(c) PROVE AllSpelt'
<1> DEFINE k == call[c]
           raw == Target(c)
           tree == Tree(World)
           r == ResolveForWrite(tree, raw)
           q == r.path
           new == Written(c, q)
           n == [k EXCEPT !.at = "reindex", !.path = q]
<1>1. k.at = "put"
  BY DEF Put, At
<1>2. /\ DOMAIN k = Fields /\ Req(c) = k.req /\ WellTyped(k.req) /\ GoodCall(setup, k)
      /\ k.at \notin {"idle", "done"} /\ k.req.tool \in Edits /\ Sound
  BY <1>1, AtChange DEF Changing
<1>3. Spelt(k) /\ InNames(World) /\ IsTree(tree)
  BY <1>2, TreeIs DEF AllSpelt
<1>4. IsPath(raw)
  <2>1. CASE Loading(k.req) \/ k.req.tool \in Creating
    BY <1>1, <1>2, <1>3, <2>1 DEF Target, Uses, Spelt
  <2>2. CASE ~(Loading(k.req) \/ k.req.tool \in Creating)
    <3>1. k.req.tool \in Editing
      BY <1>2, <2>2 DEF Edits, Creating
    <3> QED
      BY <1>2, <2>2, <3>1, WantedIsPath DEF Target, Uses
  <2> QED
    BY <2>1, <2>2
<1>5. \/ r.err # "none" /\ Fail(c, r.err)
      \/ Fail(c, "io")
      \/ /\ r.err = "none" /\ disk' = With(disk, q, new) /\ dirs' = dirs \cup Parents(q)
         /\ Becomes(c, n)
  BY Zenon DEF Put, PutAt
<1>6. n.at = "reindex" /\ n.path = q /\ n.req = k.req
  BY <1>2 DEF Fields
<1>7. ASSUME r.err = "none", disk' = With(disk, q, new), dirs' = dirs \cup Parents(q), Becomes(c, n)
      PROVE  AllSpelt'
  <2>1. Nodes(tree) \subseteq Seq(Names)
    BY <1>3 DEF InNames
  <2>2. q \in Seq(Names)
    BY <1>3, <1>4, <1>7, <2>1, ForWriteNames
  <2>3. Parents(q) \subseteq Seq(Names)
    BY <2>2, ParentsNames
  <2>4. InNames(World')
    <3>1. DOMAIN disk' = DOMAIN disk \cup {q}
      BY <1>7 DEF With
    <3> HIDE DEF q
    <3> QED
      BY <1>7, <2>1, <2>2, <2>3, <3>1, WorldsAre DEF InNames, Nodes
  <2>5. k.req.tool = "periodic_create" /\ OwnPath(NewPath(k.req)) => q = NewPath(k.req)
    <3> SUFFICES ASSUME k.req.tool = "periodic_create", OwnPath(NewPath(k.req))
                 PROVE  q = NewPath(k.req)
      OBVIOUS
    <3>1. raw = NewPath(k.req)
      BY <1>1, <1>2, <1>3 DEF Target, Uses, Creating, Spelt
    <3> HIDE DEF raw, tree, k
    <3> QED
      BY <1>3, <1>7, <2>1, <3>1, OwnPlace
  <2>6. Spelt(n)
    <3> HIDE DEF n, q
    <3> QED
      BY <1>6, <2>5 DEF Spelt
  <2> QED
    BY <1>7, <2>4, <2>6, StepSpelt
<1> HIDE DEF r, q, n, new
<1> QED
  BY <1>2, <1>5, <1>7, FailSpelt

LEMMA ReindexSpelt ==
    ASSUME Inv, Honesty, AllSpelt, NEW c \in Callers, Reindex(c) PROVE AllSpelt'
<1> DEFINE r == Locate(World, call[c].path)
<1>1. call[c].at = "reindex"
  BY DEF Reindex, At
<1>2. \/ r.err # "none" /\ Fail(c, r.err)
      \/ disk' = disk /\ dirs' = dirs /\ \E x : Reply(c, x)
  BY Zenon DEF Reindex, ReindexAt, IndexNote, Done
<1>3. disk' = disk /\ dirs' = dirs => InNames(World')
  BY SmallerNames DEF AllSpelt
<1> HIDE DEF r
<1> QED
  BY <1>1, <1>2, <1>3, FailSpelt, ReplySpelt

\* Which steps are of a tool that creates nothing.
LEMMA NotPeriodic ==
    ASSUME Inv, Honesty, NEW c \in Callers,
           \/ call[c].at \in {"unlink", "unindex", "rename", "relink"} \cup Scanning
           \/ call[c].at = "answer"
    PROVE  /\ call[c].req.tool # "periodic_create" /\ call[c].at \notin {"idle", "done"}
           /\ DOMAIN call[c] = Fields
<1>1. call[c].at \notin {"idle", "done"} /\ Kind(call[c]) /\ GoodCall(setup, call[c])
  BY HonestCall DEF Scanning
<1>2. call[c].at \in Scanning => call[c].req.tool = "note_read_many"
  BY AtScan
<1>3. call[c].at = "answer" => call[c].req.tool \notin Edits
  BY <1>1 DEF GoodCall, Fits, Changing
<1> QED
  BY <1>1, <1>2, <1>3 DEF Kind, Edits, GoodCall

\* Of such steps, an answer and any other.
LEMMA PlainReply ==
    ASSUME Inv, Honesty, AllSpelt, NEW c \in Callers,
           \/ call[c].at \in {"unlink", "unindex", "rename", "relink"} \cup Scanning
           \/ call[c].at = "answer",
           DOMAIN disk' \subseteq DOMAIN disk, dirs' \subseteq dirs, NEW r, Reply(c, r)
    PROVE  AllSpelt'
<1>1. InNames(World')
  BY SmallerNames DEF AllSpelt
<1> QED
  BY <1>1, NotPeriodic, ReplySpelt

LEMMA PlainStep ==
    ASSUME Inv, Honesty, AllSpelt, NEW c \in Callers,
           \/ call[c].at \in {"unlink", "unindex", "rename", "relink"} \cup Scanning
           \/ call[c].at = "answer",
           DOMAIN disk' \subseteq DOMAIN disk, dirs' \subseteq dirs,
           NEW n, Becomes(c, n), n.req = call[c].req, n.at \notin {"rename", "put"}
    PROVE  AllSpelt'
<1>1. InNames(World')
  BY SmallerNames DEF AllSpelt
<1> QED
  BY <1>1, NotPeriodic, OtherSpelt

LEMMA UnlinkSpelt ==
    ASSUME Inv, Honesty, AllSpelt, NEW c \in Callers, Unlink(c) PROVE AllSpelt'
<1> DEFINE r == Locate(World, Req(c).path)
           n == [call[c] EXCEPT !.at = "unindex", !.path = r.path]
<1>1. call[c].at = "unlink"
  BY DEF Unlink, At
<1>2. \/ UNCHANGED vault /\ \E x : Reply(c, x)
      \/ /\ disk' = Restrict(disk, DOMAIN disk \ {r.path}) /\ dirs' = dirs \ {r.path}
         /\ Becomes(c, n)
  BY Zenon DEF Unlink, UnlinkAt, Fail
<1>3. n.at = "unindex" /\ n.req = call[c].req
  BY <1>1, NotPeriodic DEF Fields
<1>4. DOMAIN Restrict(disk, DOMAIN disk \ {r.path}) \subseteq DOMAIN disk
  BY DEF Restrict
<1> HIDE DEF n, r
<1> QED
  BY <1>1, <1>2, <1>3, <1>4, PlainReply, PlainStep DEF vault

LEMMA UnindexSpelt ==
    ASSUME Inv, Honesty, AllSpelt, NEW c \in Callers, Unindex(c) PROVE AllSpelt'
<1>1. call[c].at = "unindex" /\ disk' = disk /\ dirs' = dirs /\ \E x : Reply(c, x)
  BY DEF Unindex, At, Done
<1> QED
  BY <1>1, PlainReply

LEMMA CheckMoveSpelt ==
    ASSUME Inv, Honesty, AllSpelt, NEW c \in Callers, CheckMove(c) PROVE AllSpelt'
<1> DEFINE k == call[c]
           tree == Tree(World)
           raw == Req(c).to
           from == Locate(World, Req(c).path)
           to == ResolveForWrite(tree, raw)
           n == [k EXCEPT !.at = "rename", !.doc = from.path, !.path = to.path]
<1>1. k.at = "check" /\ Req(c).tool = "note_move"
  BY DEF CheckMove, At, Uses
<1>2. \/ from.err # "none" /\ Fail(c, from.err)
      \/ to.err # "none" /\ Fail(c, to.err)
      \/ Fail(c, "exists")
      \/ to.err = "none" /\ UNCHANGED vault /\ Becomes(c, n)
  BY Zenon DEF CheckMove, CheckMoveAt
<1>3. /\ DOMAIN k = Fields /\ Req(c) = k.req /\ WellTyped(Req(c)) /\ Sound
      /\ k.at \notin {"idle", "done"}
  BY <1>1, AtChange DEF Changing
<1>4. IsPath(raw) /\ IsTree(tree) /\ Nodes(tree) \subseteq Seq(Names)
  BY <1>1, <1>3, TreeIs DEF WellTyped, AllSpelt, InNames
<1>5. n.at = "rename" /\ n.path = to.path /\ n.req = k.req
  BY <1>3 DEF Fields
<1>6. to.err = "none" => Spelt(n)
  <2> HIDE DEF n, tree, raw
  <2>1. to.err = "none" => to.path \in Seq(Names)
    BY <1>4, ForWriteNames
  <2> QED
    BY <1>5, <2>1 DEF Spelt
<1>7. UNCHANGED vault => InNames(World')
  BY SmallerNames DEF vault, AllSpelt
<1> HIDE DEF n, from, to
<1> QED
  BY <1>2, <1>3, <1>6, <1>7, FailSpelt, StepSpelt

LEMMA RelinkSpelt ==
    ASSUME Inv, Honesty, AllSpelt, NEW c \in Callers, Relink(c) PROVE AllSpelt'
<1>1. call[c].at = "relink" /\ disk' = disk /\ dirs' = dirs
  BY DEF Relink, At
<1>2. \E x : Reply(c, x)
  BY Zenon DEF Relink, IndexNote, Done
<1> QED
  BY <1>1, <1>2, PlainReply

\* note_read_many.
LEMMA ScanSpelt ==
    ASSUME Inv, Honesty, AllSpelt, NEW c \in Callers,
           Select(c) \/ Stat(c) \/ ReadOne(c) \/ Conclude(c)
    PROVE  AllSpelt'
<1> DEFINE k == call[c]
           stat(m) == [k EXCEPT !.at = "stat", !.doc = m]
           read(p) == [k EXCEPT !.at = "read", !.path = p]
<1>1. k.at \in Scanning
  BY DEF Select, Stat, ReadOne, Conclude, At, Scanning
<1>2. /\ UNCHANGED vault
      /\ \/ \E x : Reply(c, x)
         \/ \E m : Becomes(c, stat(m))
         \/ \E p : Becomes(c, read(p))
  BY Zenon DEF Select, SelectFrom, Stat, ReadOne, Conclude, NextCandidate, Unavailable, Fail
<1>3. DOMAIN k = Fields
  BY <1>1, NotPeriodic
<1>4. \A m : stat(m).at = "stat" /\ stat(m).req = k.req
  BY <1>3 DEF Fields
<1>5. \A p : read(p).at = "read" /\ read(p).req = k.req
  BY <1>3 DEF Fields
<1> HIDE DEF stat, read
<1> QED
  BY <1>1, <1>2, <1>4, <1>5, PlainReply, PlainStep DEF vault

LEMMA Read1Spelt ==
    ASSUME Inv, Honesty, AllSpelt, NEW c \in Callers, Read1(c) PROVE AllSpelt'
<1>1. call[c].at = "answer" /\ UNCHANGED vault /\ \E x : Reply(c, x)
  BY DEF Read1, At
<1> QED
  BY <1>1, PlainReply DEF vault

LEMMA RenameSpelt ==
    ASSUME Inv, Honesty, AllSpelt, NEW c \in Callers, Rename(c) PROVE AllSpelt'
<1> DEFINE k == call[c]
           from == From(c)
           to == k.path
           branch == {from} \cup Within(from)
           moved(p) == to \o SubSeq(p, Len(from) + 1, Len(p))
           files == DOMAIN disk \cap branch
           n == [k EXCEPT !.at = "relink"]
           m == [k EXCEPT !.at = "done", !.reply = Refusal("io")]
<1>1. k.at = "rename"
  BY DEF Rename, At
<1>2. /\ DOMAIN k = Fields /\ k.at \notin {"idle", "done"} /\ Sound
      /\ k.req.tool # "periodic_create" /\ Spelt(k)
  BY <1>1, HonestCall, NotPeriodic DEF AllSpelt
<1>3. to \in Seq(Names) /\ Parents(to) \subseteq Seq(Names)
  <2>1. k.path \in Seq(Names)
    BY <1>1, <1>2 DEF Spelt
  <2> QED
    BY <2>1, ParentsNames
<1>4. DOMAIN disk \cup dirs \subseteq Seq(Names)
  BY WorldsAre DEF AllSpelt, InNames, Nodes
<1>5. \/ Fail(c, "io")
      \/ disk' = disk /\ dirs' = dirs \cup Parents(to) /\ Becomes(c, m)
      \/ /\ ~RenameFails(from, to)
         /\ DOMAIN disk' = {moved(p) : p \in files} \cup (DOMAIN disk \ branch)
         /\ dirs' = (dirs \ branch) \cup Parents(to) \cup {moved(p) : p \in dirs \cap branch}
         /\ Becomes(c, n)
  <2>1. \/ Fail(c, "io")
        \/ disk' = disk /\ dirs' = dirs \cup Parents(to) /\ Reply(c, Refusal("io"))
        \/ /\ ~RenameFails(from, to)
           /\ disk' = [q \in {moved(p) : p \in files} \cup (DOMAIN disk \ branch) |->
                          IF \E p \in files : moved(p) = q
                          THEN disk[CHOOSE p \in files : moved(p) = q] ELSE disk[q]]
           /\ dirs' = (dirs \ branch) \cup Parents(to) \cup {moved(p) : p \in dirs \cap branch}
           /\ Becomes(c, n)
    BY Zenon DEF Rename
  <2>2. Reply(c, Refusal("io")) => Becomes(c, m)
    BY Zenon DEF Reply
  <2> HIDE DEF n, m, moved, files, branch, from, to
  <2> QED
    BY <2>1, <2>2
<1>6. /\ n.at = "relink" /\ n.req = k.req /\ m.at = "done" /\ m.req = k.req
  BY <1>2 DEF Fields
<1>7. ASSUME DOMAIN disk' \cup dirs' \subseteq Seq(Names) PROVE InNames(World')
  BY <1>7, WorldsAre DEF InNames, Nodes
<1>8. ASSUME disk' = disk, dirs' = dirs \cup Parents(to), Becomes(c, m) PROVE AllSpelt'
  <2>1. InNames(World')
    BY <1>3, <1>4, <1>7, <1>8
  <2> HIDE DEF m
  <2> QED
    BY <1>2, <1>6, <1>8, <2>1, OtherSpelt
<1>9. ASSUME ~RenameFails(from, to),
             DOMAIN disk' = {moved(p) : p \in files} \cup (DOMAIN disk \ branch),
             dirs' = (dirs \ branch) \cup Parents(to) \cup {moved(p) : p \in dirs \cap branch},
             Becomes(c, n)
      PROVE  AllSpelt'
  <2>1. Len(from) \in Nat
    <3>1. from \in DOMAIN disk \cup dirs
      BY <1>9, WorldIs DEF RenameFails
    <3>2. IsSeq(from)
      BY <1>2, <3>1 DEF Sound
    <3> QED
      BY <3>2, IsSeqLen
  <2> HIDE DEF from, to, n
  <2>2. ASSUME NEW p \in Seq(Names) PROVE moved(p) \in Seq(Names)
    <3> DEFINE b == SubSeq(p, Len(from) + 1, Len(p))
    <3>1. b \in Seq(Names)
      <4>1. Len(from) + 1 \in Nat \ {0} /\ Len(p) \in Nat
        BY <2>1
      <4>2. \A i \in Len(from)+1..Len(p) : p[i] \in Names
        BY <4>1
      <4> QED
        BY <4>1, <4>2, SubSeqProperties
    <3> HIDE DEF b
    <3>2. to \o b \in Seq(Names)
      BY <1>3, <3>1, ConcatProperties
    <3> QED
      BY <3>2 DEF b
  <2> HIDE DEF moved
  <2>3. DOMAIN disk' \cup dirs' \subseteq Seq(Names)
    BY <1>3, <1>4, <1>9, <2>2
  <2>4. InNames(World')
    BY <1>7, <2>3
  <2> QED
    BY <1>2, <1>6, <1>9, <2>4, OtherSpelt
<1> HIDE DEF n, m, from, to, moved, files, branch
<1> QED
  BY <1>2, <1>5, <1>8, <1>9, FailSpelt

\* Another program saves under a name.
LEMMA EditSpelt ==
    ASSUME Inv, AllSpelt, NEW e \in Setups[setup].edits, Edit(e) PROVE AllSpelt'
<1>1. e.path \in Seq(Names)
  BY SetupsAssumption, PlaceNames DEF Inv, Sound
<1>2. DOMAIN disk' \subseteq DOMAIN disk \cup {e.path} /\ dirs' = dirs
  BY DEF Edit, With, Restrict
<1>3. InNames(World')
  BY <1>1, <1>2, WorldsAre DEF AllSpelt, InNames, Nodes
<1>4. ASSUME NEW c \in Callers, call'[c].at # "idle" PROVE Spelt(call'[c])
  <2>1. call'[c] = Disturbed(call[c])
    BY DEF Edit
  <2>2. call[c].at # "idle"
    BY <1>4, <2>1 DEF Disturbed
  <2>3. Spelt(call[c]) /\ DOMAIN call[c] = Fields
    BY <2>2 DEF AllSpelt, Inv, GoodCall
  <2> QED
    BY <2>1, <2>2, <2>3, DisturbedSpelt
<1> QED
  BY <1>3, <1>4 DEF AllSpelt

\* No step of a client or of another program brings anything but names.
LEMMA AllSpeltKeeps == Inv /\ Honesty /\ AllSpelt /\ [Next]_vars => AllSpelt'
<1> SUFFICES ASSUME Inv, Honesty, AllSpelt, [Next]_vars PROVE AllSpelt'
  OBVIOUS
<1>1. ASSUME NEW c \in Callers, NEW r \in Setups[setup].requests[c], Begin(c, r) PROVE AllSpelt'
  BY <1>1, BeginSpelt
<1>2. ASSUME NEW c \in Callers, Step1(c) PROVE AllSpelt'
  BY <1>2, CheckNewSpelt, LoadSpelt, PutSpelt, ReindexSpelt, UnlinkSpelt, UnindexSpelt,
     CheckMoveSpelt, RenameSpelt, RelinkSpelt, ScanSpelt, Read1Spelt DEF Step1
<1>3. ASSUME NEW e \in Setups[setup].edits, Edit(e) PROVE AllSpelt'
  BY <1>3, EditSpelt
<1>4. CASE UNCHANGED vars
  <2>1. World' = World /\ call' = call
    BY <1>4 DEF vars, World
  <2> HIDE DEF World
  <2> QED
    BY <2>1 DEF AllSpelt
<1> QED
  BY <1>1, <1>2, <1>3, <1>4 DEF Next

\* The vault at the start has names, and no call is under way.
LEMMA InitSpelt == Init => AllSpelt
<1> SUFFICES ASSUME Init PROVE AllSpelt
  OBVIOUS
<1>1. \A c \in Callers : call[c].at = "idle"
  BY DEF Init, Idle
<1>2. \A p \in dirs \cup DOMAIN disk : IsPlace(p)
  BY SetupsAssumption DEF Init
<1>3. Nodes(Tree(World)) = dirs \cup DOMAIN disk
  BY WorldsAre DEF Nodes
<1>4. InNames(World)
  BY <1>2, <1>3, PlaceNames DEF InNames
<1> QED
  BY <1>1, <1>4 DEF AllSpelt

\* So it is at every step.
LEMMA CallsSpelt == Spec => []AllSpelt
BY AllSpeltKeeps, CallsCorrect, CallsHonest, InitSpelt, PTL DEF Spec

--------------------------------------------------------------------------------
(* The tools that read tell one story.                                         *)

\* Nothing lies below a link out of the vault.
NothingBehindLinks(w) ==
    \A p \in Nodes(Tree(w)) : \A i \in 1..Len(p)-1 : SubSeq(p, 1, i) \notin w.links

\* A file's path leads to it, and the root's to the root.
LEMMA FileIsFound ==
    ASSUME NEW w, Tidy(w), NothingBehindLinks(w), NEW p \in DOMAIN w.disk
    PROVE  Locate(w, p) = Found(p)
<1> DEFINE tree == Tree(w)
<1>1. tree.files = DOMAIN w.disk /\ tree.dirs = w.dirs /\ tree.links = w.links
  BY DEF Tree
<1>2. IsVault(tree) /\ p \in Nodes(tree)
  BY <1>1 DEF Tidy, Nodes
<1>3. \A i \in 1..Len(p)-1 : SubSeq(p, 1, i) \notin w.links
  BY <1>2 DEF NothingBehindLinks
<1> HIDE DEF tree
<1>4. IsSeq(p) /\ Len(p) \in Nat
  BY <1>2, IsSeqLen DEF IsVault, IsTree
<1>5. p \notin tree.links
  BY <1>1, <1>2 DEF IsVault
<1>6. ASSUME NEW i \in 1..Len(p) PROVE SubSeq(p, 1, i) \notin tree.links
  <2>1. CASE i = Len(p)
    BY <1>4, <1>5, <2>1, EndsOfPrefix
  <2>2. CASE i # Len(p)
    <3>1. i \in 1..Len(p)-1
      BY <1>4, <2>2
    <3> QED
      BY <1>1, <1>3, <3>1
  <2> QED
    BY <2>1, <2>2
<1>7. ResolveExisting(tree, p) = Found(p)
  BY <1>2, <1>6, PlaceIsFound
<1> QED
  BY <1>7 DEF Locate, tree

LEMMA RootIsFound == ASSUME NEW w, Tidy(w) PROVE Locate(w, <<>>) = Found(<<>>)
<1> DEFINE tree == Tree(w)
<1>1. IsVault(tree) /\ <<>> \in Nodes(tree)
  BY DEF Tidy, IsVault, IsTree
<1>2. \A i \in 1..Len(<<>>) : SubSeq(<<>>, 1, i) \notin tree.links
  <2>1. Len(<<>>) = 0 /\ 1..0 = {}
    OBVIOUS
  <2> QED
    BY <2>1
<1> HIDE DEF tree
<1>3. ResolveExisting(tree, <<>>) = Found(<<>>)
  BY <1>1, <1>2, PlaceIsFound
<1> QED
  BY <1>3 DEF Locate, tree

\* A directory above something that is listed is listed.
LEMMA AboveListed ==
    ASSUME NEW w, Tidy(w), InNames(w), NEW F,
           F = {p \in Below(w, <<>>, TRUE) : Last(p) \in Names},
           NEW p \in F
    PROVE  /\ IsSeq(p) /\ Len(p) \in Nat \ {0}
           /\ \A k \in 1..Len(p) : SubSeq(p, 1, k) \in F /\ Len(SubSeq(p, 1, k)) = k
<1> DEFINE tree == Tree(w)
<1>1. p \in Nodes(tree) /\ IsStrictPrefix(<<>>, p) /\ ~HiddenBelow(Len(<<>>), p)
  BY DEF Below
<1>2. IsVault(tree) /\ IsSeq(p) /\ Len(p) \in Nat /\ DOMAIN p = 1..Len(p) /\ Len(<<>>) = 0
  BY <1>1, IsSeqLen DEF Tidy, IsVault, IsTree
<1>3. p # <<>> /\ Len(p) # 0
  BY <1>1, <1>2, IsSeqLen DEF IsStrictPrefix
<1>4. \A i \in 0+1..Len(p) : p[i] \notin Hidden
  BY <1>1, <1>2 DEF HiddenBelow
<1>5. \A i \in 1..Len(p) : p[i] \in Names
  BY <1>1, <1>2 DEF InNames
<1> HIDE DEF tree
<1>6. ASSUME NEW k \in 1..Len(p) PROVE SubSeq(p, 1, k) \in F /\ Len(SubSeq(p, 1, k)) = k
  <2> DEFINE q == SubSeq(p, 1, k)
  <2>1. k \in 0..Len(p) /\ k \in Nat /\ k > 0
    BY <1>2
  <2>2. IsSeq(q) /\ Len(q) = k /\ \A j \in 1..k : q[j] = p[j]
    BY <1>2, <2>1, PrefixIs
  <2>3. q \in Nodes(tree)
    BY <1>1, <1>2, <2>1, PrefixIsNode
  <2> HIDE DEF q
  <2>4. IsStrictPrefix(<<>>, q)
    <3>1. q # <<>>
      BY <1>2, <2>1, <2>2
    <3>2. SubSeq(q, 1, 0) = <<>> /\ SubSeq(<<>>, 1, 0) = <<>>
      BY <2>2, EndsOfPrefix, TuplesAreSeqs
    <3>3. Len(<<>>) <= Len(q)
      BY <1>2, <2>1, <2>2
    <3> QED
      BY <1>2, <3>1, <3>2, <3>3 DEF IsStrictPrefix, IsPrefix
  <2>5. ~HiddenBelow(Len(<<>>), q)
    <3>1. ASSUME NEW i \in 0+1..Len(q) PROVE q[i] \notin Hidden
      <4>1. i \in 1..k /\ i \in 0+1..Len(p)
        BY <1>2, <2>1, <2>2
      <4> QED
        BY <1>4, <2>2, <4>1
    <3> QED
      BY <1>2, <3>1 DEF HiddenBelow
  <2>6. Last(q) \in Names
    <3>1. k \in 1..k
      BY <2>1
    <3>2. Last(q) = p[k]
      BY <2>2, <3>1 DEF Last
    <3> QED
      BY <1>5, <3>2
  <2>7. q \in Below(w, <<>>, TRUE)
    BY <2>3, <2>4, <2>5 DEF Below, tree
  <2> QED
    BY <2>2, <2>6, <2>7 DEF q
<1> QED
  BY <1>2, <1>3, <1>6

\* The list and the tree of the vault show the same.
LEMMA ListIsTree ==
    ASSUME NEW w, Tidy(w), <<>> \in w.dirs, InNames(w)
    PROVE  DOMAIN VaultListFlat(w, <<>>, TRUE, Names, 9).body = VaultListTree(w, <<>>, 9).body
<1> DEFINE F == {p \in Below(w, <<>>, TRUE) : Last(p) \in Names}
           S == {p \in F : Len(p) <= 9}
           flat == WithMetadata(w, S)
           tree == DrawnBelow(F, Len(<<>>), 9)
<1>1. Locate(w, <<>>) = Found(<<>>)
  BY RootIsFound
<1>2. Found(<<>>).err = "none" /\ Found(<<>>).path = <<>>
  BY DEF Found
<1>3. ListIn(w, Found(<<>>), TRUE, Names) = Answer(F)
  BY <1>2 DEF ListIn
<1>4. Answer(F).err = "none" /\ Answer(F).body = F
  BY DEF Answer
<1>5. VaultListFlat(w, <<>>, TRUE, Names, 9) = Answer(flat)
  <2>1. ListFiles(w, <<>>, TRUE, Names) = Answer(F)
    BY <1>1, <1>3 DEF ListFiles
  <2> HIDE DEF F
  <2> QED
    BY <1>4, <2>1 DEF VaultListFlat, Then
<1>6. VaultListTree(w, <<>>, 9) = Answer(tree)
  <2> HIDE DEF F
  <2> QED
    BY <1>1, <1>2, <1>3, <1>4 DEF VaultListTree, TreeIn, Then
<1>7. DOMAIN flat = S
  BY DEF WithMetadata
<1>8. S = tree
  <2>0. Len(<<>>) = 0
    OBVIOUS
  <2>1. tree = UNION {{SubSeq(p, 1, k) : k \in 1..Len(p)} : p \in {q \in F : Len(q) - 0 <= 9}}
    BY <2>0 DEF DrawnBelow
  <2>2. \A p \in F : /\ IsSeq(p) /\ Len(p) \in Nat \ {0}
                     /\ \A k \in 1..Len(p) : SubSeq(p, 1, k) \in F /\ Len(SubSeq(p, 1, k)) = k
    BY AboveListed
  <2> HIDE DEF F, tree
  <2>3. ASSUME NEW x \in tree PROVE x \in S
    <3>1. PICK p \in F : Len(p) - 0 <= 9 /\ x \in {SubSeq(p, 1, k) : k \in 1..Len(p)}
      BY <2>1
    <3>2. PICK k \in 1..Len(p) : x = SubSeq(p, 1, k)
      BY <3>1
    <3>3. x \in F /\ Len(x) = k
      BY <2>2, <3>2
    <3>4. Len(p) \in Nat
      BY <2>2
    <3>5. k <= 9
      BY <3>1, <3>2, <3>4
    <3> QED
      BY <3>3, <3>5
  <2>4. ASSUME NEW x \in S PROVE x \in tree
    <3>1. x \in F /\ Len(x) <= 9 /\ IsSeq(x) /\ Len(x) \in Nat \ {0}
      BY <2>2
    <3>2. SubSeq(x, 1, Len(x)) = x
      BY <3>1, EndsOfPrefix
    <3>3. Len(x) \in 1..Len(x) /\ Len(x) - 0 <= 9
      BY <3>1
    <3>4. x \in {SubSeq(x, 1, k) : k \in 1..Len(x)}
      BY <3>2, <3>3
    <3> QED
      BY <2>1, <3>1, <3>3, <3>4
  <2> QED
    BY <2>3, <2>4
<1> HIDE DEF S, tree, flat
<1>9. \A x : Answer(x).body = x
  BY DEF Answer
<1> QED
  BY <1>5, <1>6, <1>7, <1>8, <1>9

\* Every indexed note is a file that its path leads to.
Real(w) == Tidy(w) /\ NothingBehindLinks(w) /\ DOMAIN w.meta \subseteq DOMAIN w.disk

LEMMA IndexedIs ==
    ASSUME NEW w, Real(w), NEW p \in DOMAIN w.meta
    PROVE  Locate(w, p) = Found(p) /\ IndexedAt(w, Locate(w, p)) = Answer(p)
<1>1. Locate(w, p) = Found(p)
  BY FileIsFound DEF Real
<1>2. Found(p).err = "none" /\ Found(p).path = p
  BY DEF Found
<1>3. IndexedAt(w, Found(p)) = Answer(p)
  BY <1>2 DEF IndexedAt
<1> QED
  BY <1>1, <1>3

\* What the tools of the graph and of metadata answer about it.
LEMMA LinksAre ==
    ASSUME NEW w, Real(w), NEW p \in DOMAIN w.meta
    PROVE  /\ NoteLinks(w, p).body.backlinks = BacklinksTo(w, p)
           /\ NoteLinks(w, p).body.outgoing = {<<t, ResolveLink(w, t)>> : t \in Outgoing(w, p)}
           /\ BrokenIn(w, p).body = {<<p, t>> : t \in BrokenOf(w, p)}
           /\ NoteMetadata(w, p).body.tags = Tags(w.meta[p])
<1>1. IndexedAt(w, Locate(w, p)) = Answer(p)
  BY IndexedIs
<1>2. Answer(p).err = "none" /\ Answer(p).body = p
  BY DEF Answer
<1>3. NoteLinks(w, p) = Answer([path |-> p, backlinks |-> BacklinksTo(w, p),
                                outgoing |-> {<<t, ResolveLink(w, t)>> : t \in Outgoing(w, p)}])
  BY <1>1, <1>2 DEF NoteLinks, OfIndexed, Then
<1>4. BrokenIn(w, p) = Answer({<<p, t>> : t \in BrokenOf(w, p)})
  BY <1>1, <1>2 DEF BrokenIn, OfIndexed, Then
<1>5. NoteMetadata(w, p) =
        Answer([path |-> p, tags |-> Tags(w.meta[p]), headings |-> HeadingTexts(w.meta[p]),
                links |-> Outgoing(w, p), backlinks |-> Cardinality(BacklinksTo(w, p))])
  BY <1>1, <1>2 DEF NoteMetadata, OfIndexed, Then
<1>6. \A x : Answer(x).body = x
  BY DEF Answer
<1>7. /\ NoteLinks(w, p).body = [path |-> p, backlinks |-> BacklinksTo(w, p),
                                 outgoing |-> {<<t, ResolveLink(w, t)>> : t \in Outgoing(w, p)}]
      /\ NoteMetadata(w, p).body =
           [path |-> p, tags |-> Tags(w.meta[p]), headings |-> HeadingTexts(w.meta[p]),
            links |-> Outgoing(w, p), backlinks |-> Cardinality(BacklinksTo(w, p))]
  BY <1>3, <1>5, <1>6, Zenon
<1> QED
  BY <1>4, <1>6, <1>7

\* The list of all broken links and the tool for one note's; backlinks and outgoing
\* links; orphans and both.
LEMMA GraphAgrees ==
    ASSUME NEW w, Real(w), NEW p \in DOMAIN w.meta, NEW view, view = NoteLinks(w, p).body
    PROVE  /\ view.backlinks = {q \in DOMAIN w.meta : \E x \in NoteLinks(w, q).body.outgoing :
                                    x[2] = p}
           /\ BrokenIn(w, p).body = {x \in BrokenLinks(w) : x[1] = p}
           /\ (\E x \in VaultOrphans(w).body : x[1] = p)
              <=> view.backlinks = {} /\ \A x \in view.outgoing : x[2] = None
<1> DEFINE Links(q) == {<<t, ResolveLink(w, t)>> : t \in Outgoing(w, q)}
           Dead(q) == {<<q, t>> : t \in BrokenOf(w, q)}
           none == NoLinks(w)
           sus == {x[1] : x \in BrokenLinks(w)} \ none
<1>1. view.backlinks = BacklinksTo(w, p) /\ view.outgoing = Links(p) /\ BrokenIn(w, p).body = Dead(p)
  BY LinksAre
<1>2. \A q \in DOMAIN w.meta : NoteLinks(w, q).body.outgoing = Links(q)
  BY LinksAre
<1>3. \A q, y : (\E x \in Links(q) : x[2] = y) <=> \E t \in Outgoing(w, q) : ResolveLink(w, t) = y
  <2>1. \A t : <<t, ResolveLink(w, t)>>[2] = ResolveLink(w, t)
    OBVIOUS
  <2> QED
    BY <2>1
<1>4. view.backlinks = {q \in DOMAIN w.meta : \E x \in NoteLinks(w, q).body.outgoing : x[2] = p}
  <2> HIDE DEF Links
  <2>1. \A q \in DOMAIN w.meta : (\E x \in NoteLinks(w, q).body.outgoing : x[2] = p)
                                 <=> \E t \in Outgoing(w, q) : ResolveLink(w, t) = p
    BY <1>2, <1>3
  <2> QED
    BY <1>1, <2>1 DEF BacklinksTo
<1>5. BrokenLinks(w) = UNION {Dead(q) : q \in DOMAIN w.meta}
  BY DEF BrokenLinks
<1>6. \A q : \A x : x \in Dead(q) <=> \E t \in BrokenOf(w, q) : x = <<q, t>>
  OBVIOUS
<1>7. \A q, t : <<q, t>>[1] = q
  OBVIOUS
<1> HIDE DEF Dead
<1>8. BrokenIn(w, p).body = {x \in BrokenLinks(w) : x[1] = p}
  <2>1. ASSUME NEW x \in Dead(p) PROVE x \in BrokenLinks(w) /\ x[1] = p
    BY <1>5, <1>6, <1>7
  <2>2. ASSUME NEW x \in BrokenLinks(w), x[1] = p PROVE x \in Dead(p)
    <3>1. PICK q \in DOMAIN w.meta : x \in Dead(q)
      BY <1>5
    <3>2. q = p
      BY <1>6, <1>7, <2>2, <3>1
    <3> QED
      BY <3>1, <3>2
  <2> QED
    BY <1>1, <2>1, <2>2
<1>9. \A q : q \in {x[1] : x \in BrokenLinks(w)} <=> q \in DOMAIN w.meta /\ BrokenOf(w, q) # {}
  <2>1. ASSUME NEW x \in BrokenLinks(w) PROVE x[1] \in DOMAIN w.meta /\ BrokenOf(w, x[1]) # {}
    <3>1. PICK q \in DOMAIN w.meta : x \in Dead(q)
      BY <1>5
    <3>2. PICK t \in BrokenOf(w, q) : x = <<q, t>>
      BY <1>6, <3>1
    <3> QED
      BY <1>7, <3>1, <3>2
  <2>2. ASSUME NEW q \in DOMAIN w.meta, BrokenOf(w, q) # {}
        PROVE  q \in {x[1] : x \in BrokenLinks(w)}
    <3>1. PICK t : t \in BrokenOf(w, q)
      BY <2>2
    <3>2. <<q, t>> \in BrokenLinks(w) /\ <<q, t>>[1] = q
      BY <1>5, <1>6, <1>7, <3>1
    <3> QED
      BY <3>2
  <2> QED
    BY <2>1, <2>2
<1>10. VaultOrphans(w).body = {<<q, "no_links">> : q \in none}
                              \cup {<<q, "broken_outgoing_only">> : q \in Lonely(w, sus)}
  <2>1. \A q \in sus : q \in DOMAIN w.meta
    BY <1>9
  <2>2. \A q : Found(q).err = "none"
    BY DEF Found
  <2>3. \A q \in sus : Locate(w, q).err = "none"
    BY <2>1, <2>2, IndexedIs
  <2>4. VaultOrphans(w) = OrphansAmong(w, none, sus)
    BY DEF VaultOrphans
  <2> HIDE DEF none, sus
  <2> DEFINE B == {<<q, "no_links">> : q \in none}
                  \cup {<<q, "broken_outgoing_only">> : q \in Lonely(w, sus)}
  <2>5. OrphansAmong(w, none, sus) = Answer(B)
    BY <2>3, Zenon DEF OrphansAmong
  <2> HIDE DEF B
  <2>6. Answer(B).body = B
    BY DEF Answer
  <2> QED
    BY <2>4, <2>5, <2>6 DEF B
<1>11. (\E x \in VaultOrphans(w).body : x[1] = p) <=> p \in none \/ p \in Lonely(w, sus)
  <2>1. \A q : <<q, "no_links">>[1] = q /\ <<q, "broken_outgoing_only">>[1] = q
    OBVIOUS
  <2> HIDE DEF none, sus
  <2> DEFINE L == Lonely(w, sus)
             A == {<<q, "no_links">> : q \in none}
             B == {<<q, "broken_outgoing_only">> : q \in L}
  <2>2. VaultOrphans(w).body = A \cup B
    BY <1>10
  <2> HIDE DEF L
  <2>3. (\E x \in A : x[1] = p) <=> p \in none
    BY <2>1
  <2>4. (\E x \in B : x[1] = p) <=> p \in L
    BY <2>1
  <2> HIDE DEF A, B
  <2>5. (\E x \in A \cup B : x[1] = p) <=> (\E x \in A : x[1] = p) \/ (\E x \in B : x[1] = p)
    OBVIOUS
  <2> QED
    BY <2>2, <2>3, <2>4, <2>5 DEF L
<1>12. p \in none <=> BacklinksTo(w, p) = {} /\ Outgoing(w, p) = {}
  BY DEF NoLinks
<1>13. p \in Lonely(w, sus) <=> /\ BrokenOf(w, p) # {} /\ p \notin none
                                /\ BacklinksTo(w, p) = {} /\ Outgoing(w, p) = BrokenOf(w, p)
  <2>1. p \in sus <=> BrokenOf(w, p) # {} /\ p \notin none
    BY <1>9
  <2> HIDE DEF none, sus
  <2> QED
    BY <2>1 DEF Lonely
<1>14. (\A x \in view.outgoing : x[2] = None) <=> Outgoing(w, p) = BrokenOf(w, p)
  <2>1. (\A x \in Links(p) : x[2] = None) <=> \A t \in Outgoing(w, p) : ResolveLink(w, t) = None
    <3>1. \A t : <<t, ResolveLink(w, t)>>[2] = ResolveLink(w, t)
      OBVIOUS
    <3> QED
      BY <3>1
  <2> HIDE DEF Links
  <2> QED
    BY <1>1, <2>1 DEF BrokenOf
<1>15. BrokenOf(w, p) \subseteq Outgoing(w, p)
  BY DEF BrokenOf
<1> HIDE DEF none, sus, Links
<1>16. (\E x \in VaultOrphans(w).body : x[1] = p)
       <=> view.backlinks = {} /\ \A x \in view.outgoing : x[2] = None
  BY <1>1, <1>11, <1>12, <1>13, <1>14, <1>15
<1> QED
  BY <1>4, <1>8, <1>16

\* The lines outside fences are lines of the document.
LEMMA MdProseIn ==
    ASSUME NEW d, IsDocument(d) PROVE MdProse(d) \subseteq 1..Len(d.lines)
<1>1. Len(d.lines) \in Nat
  BY LinesAre, IsSeqLen
<1> DEFINE S == Closings(d, IsDelim)
<1>2. S \in SUBSET Nat /\ (S # {} => Min(S) \in Nat)
  <2>1. S \in SUBSET Nat
    BY <1>1 DEF Closings
  <2> HIDE DEF S
  <2> QED
    BY <2>1, MinIsLeast
<1>3. (S # {} /\ MdProse(d) = Unfenced(d, Min(S))) \/ MdProse(d) = Unfenced(d, 0)
  BY Zenon DEF MdProse
<1> HIDE DEF S
<1>4. \A k \in Nat : k+1..Len(d.lines) \subseteq 1..Len(d.lines)
  BY <1>1
<1> QED
  BY <1>2, <1>3, <1>4, UnfencedIn

\* The absence of a pattern is no set of headings.
MarkersAreNoPatterns == \A d : HeadingTexts(d) # None

\* A note whose file is as it was indexed is found by its fields, tags and headings.
LEMMA SearchesShowIt ==
    ASSUME MarkersAreNoPatterns, Tidy(World), NothingBehindLinks(World),
           NEW p \in DOMAIN meta, DOMAIN meta \subseteq DOMAIN disk, meta[p] = disk[p],
           IsDocument(disk[p])
    PROVE  SearchesShow(p, NotePatchTargets(World, p).body)
<1> DEFINE w == World
           d == disk[p]
           fm == ParseFrontmatter(d)
<1>1. w.disk = disk /\ w.meta = meta /\ w.dirs = dirs /\ w.links = links
  BY WorldsAre
<1>2. Real(w) /\ p \in DOMAIN w.meta /\ p \in DOMAIN w.disk
  BY <1>1 DEF Real
<1> HIDE DEF w
<1>3. Locate(w, p) = Found(p)
  BY <1>2, IndexedIs
<1>4. Found(p).err = "none" /\ Found(p).path = p /\ \A x : Answer(x).err = "none" /\ Answer(x).body = x
  BY DEF Found, Answer
<1>5. p \notin w.dirs
  BY <1>2 DEF Real, Tidy, IsVault, Tree
<1>6. ReadFile(w, p) = Answer(d)
  <2>1. ReadAt(w, Found(p)) = Answer(w.disk[p])
    BY <1>4, <1>5 DEF ReadAt
  <2> QED
    BY <1>1, <1>3, <2>1 DEF ReadFile
<1>7. NotePatchTargets(w, p) = Answer(DocumentMap(d))
  BY <1>4, <1>6 DEF NotePatchTargets, Then
<1> DEFINE targets == DocumentMap(d)
<1>8. NotePatchTargets(w, p).body = targets
  BY <1>4, <1>7, Zenon
<1>9. targets.fields = FrontmatterKeys(d) /\ targets.headings = HeadingTexts(d)
  BY DEF DocumentMap
<1> HIDE DEF targets, d
<1>10. ASSUME NEW k \in targets.fields
       PROVE  p \in SearchFrontmatter(w, k, "exists", None).body
  <2>1. fm \notin {None, Absent} /\ k \in DOMAIN fm
    BY <1>9 DEF FrontmatterKeys
  <2>2. HasField(fm, k, "exists", None)
    BY <2>1 DEF HasField, Satisfies
  <2> DEFINE S == {q \in DOMAIN w.meta : HasField(ParseFrontmatter(w.meta[q]), k, "exists", None)}
  <2>3. SearchFrontmatter(w, k, "exists", None) = Answer(S)
    BY DEF SearchFrontmatter
  <2>4. p \in S
    BY <1>1, <1>2, <2>2 DEF d
  <2> HIDE DEF S
  <2> QED
    BY <1>4, <2>3, <2>4
<1>11. ASSUME NEW t \in NoteMetadata(w, p).body.tags PROVE p \in SearchTags(w, t, FALSE)
  <2>1. t \in Tags(w.meta[p])
    BY <1>2, LinksAre
  <2> QED
    BY <1>2, <2>1 DEF SearchTags
<1>12. ASSUME targets.headings # {} PROVE p \in SearchRegex(w, targets.headings).body
  <2> DEFINE H == HeadingTexts(d)
             S == {q \in DOMAIN w.meta : Finds(ReadFile(w, q), H)}
  <2>1. H # None /\ H # {}
    BY <1>9, <1>12 DEF MarkersAreNoPatterns
  <2>2. SearchRegex(w, H) = Answer(S)
    <3> HIDE DEF H
    <3> QED
      BY <2>1 DEF SearchRegex
  <2>3. PICK i \in MdHeadings(d) : d.lines[i].text \in H
    BY <2>1 DEF HeadingTexts
  <2>4. d.lines[i] \in Range(d.lines)
    <3>1. IsDocument(d)
      BY DEF d
    <3>2. i \in 1..Len(d.lines)
      BY <3>1, MdProseIn DEF MdHeadings
    <3>3. DOMAIN d.lines = 1..Len(d.lines)
      BY <3>1, LinesAre, IsSeqLen
    <3> QED
      BY <3>2, <3>3 DEF Range
  <2>5. Finds(ReadFile(w, p), H)
    <3> HIDE DEF H
    <3> QED
      BY <1>4, <1>6, <2>3, <2>4 DEF Finds
  <2>6. p \in S
    BY <1>2, <2>5
  <2> HIDE DEF S, H
  <2>7. p \in SearchRegex(w, H).body
    BY <1>4, <2>2, <2>6
  <2> QED
    BY <1>9, <2>7 DEF H
<1> HIDE DEF fm
<1>13. SearchesShow(p, targets)
  BY <1>1, <1>10, <1>11, <1>12, Zenon DEF SearchesShow, w
<1> QED
  BY <1>8, <1>13 DEF w

\* The tools that read tell one story (tools/graph.rs, navigation.rs, metadata.rs,
\* search.rs, vault/mod.rs): a listed file is found under that name, the list and
\* the tree show the same, backlinks, outgoing and broken links and orphans are
\* those of one graph, and a search finds a note by what its file has.  It is so of
\* every state in which no link leads out of the vault above a file.
THEOREM ReadersTell ==
    MarkersAreNoPatterns => (Spec => [](NothingBehindLinks(World) => ReadersAgree))
<1> SUFFICES ASSUME MarkersAreNoPatterns
             PROVE  Spec => [](NothingBehindLinks(World) => ReadersAgree)
  OBVIOUS
<1>1. Inv /\ Honesty /\ AllSpelt => (NothingBehindLinks(World) => ReadersAgree)
  <2> SUFFICES ASSUME Inv, Honesty, AllSpelt, NothingBehindLinks(World) PROVE ReadersAgree
    OBVIOUS
  <2>1. /\ Tidy(World) /\ <<>> \in dirs /\ InNames(World)
      /\ \A p \in DOMAIN disk : IsDocument(disk[p])
    BY DEF Inv, Sound, Honesty, AllSpelt
  <2>2. /\ World.disk = disk /\ World.dirs = dirs /\ World.meta = meta
    BY WorldsAre
  <2> DEFINE list == VaultListFlat(World, <<>>, TRUE, Names, 9).body
             tree == VaultListTree(World, <<>>, 9).body
             real == DOMAIN meta \subseteq DOMAIN disk
             linked(p) ==
               LET view == NoteLinks(World, p).body IN
               /\ view.backlinks = {q \in DOMAIN meta :
                                       \E x \in NoteLinks(World, q).body.outgoing : x[2] = p}
               /\ BrokenIn(World, p).body = {x \in BrokenLinks(World) : x[1] = p}
               /\ (\E x \in VaultOrphans(World).body : x[1] = p)
                  <=> view.backlinks = {} /\ \A x \in view.outgoing : x[2] = None
             shown(p) ==
               meta[p] = disk[p] => SearchesShow(p, NotePatchTargets(World, p).body)
  <2>3. \A p \in DOMAIN list \cap DOMAIN disk : Locate(World, p) = Found(p)
    BY <2>1, <2>2, FileIsFound
  <2>4. DOMAIN list = tree
    BY <2>1, <2>2, ListIsTree
  <2>5. ASSUME real, NEW p \in DOMAIN meta PROVE linked(p)
    <3>1. Real(World)
      BY <2>1, <2>2, <2>5 DEF Real
    <3> QED
      BY <2>2, <3>1, GraphAgrees
  <2>6. ASSUME real, NEW p \in DOMAIN meta PROVE shown(p)
    BY <2>1, <2>6, SearchesShowIt
  <2> QED
    BY <2>3, <2>4, <2>5, <2>6, Zenon DEF ReadersAgree
<1> QED
  BY <1>1, CallsCorrect, CallsHonest, CallsSpelt, PTL

--------------------------------------------------------------------------------
(* A periodic note is in the list of its period.                               *)

\* A sequence of the elements of a set, each once, by a number of theirs.
Ordered(s, T, g) == /\ s \in SetToSeqs(T)
                    /\ \A i, j \in DOMAIN s : i < j => g[s[i]] >= g[s[j]]

\* What such a sequence is.
LEMMA SeqsOf ==
    ASSUME NEW T, NEW n, Cardinality(T) = n, NEW s
    PROVE  s \in SetToSeqs(T) <=> s \in [1..n -> T] /\ \A i, j \in 1..n : i # j => s[i] # s[j]
BY DEF SetToSeqs

\* Every finite set has one: the least is the last.
LEMMA OrderExists ==
    ASSUME NEW T, IsFiniteSet(T), NEW g \in [T -> Nat]
    PROVE  \E s : Ordered(s, T, g)
<1> DEFINE S == {n \in Nat : \A U \in SUBSET T : Cardinality(U) = n => \E s : Ordered(s, U, g)}
<1>1. 0 \in S
  <2> SUFFICES ASSUME NEW U \in SUBSET T, Cardinality(U) = 0 PROVE \E s : Ordered(s, U, g)
    OBVIOUS
  <2> DEFINE s == [i \in 1..0 |-> i]
  <2>1. s \in [1..0 -> U] /\ \A i, j \in 1..0 : i # j => s[i] # s[j]
    OBVIOUS
  <2>2. s \in SetToSeqs(U)
    <3> HIDE DEF s
    <3> QED
      BY <2>1 DEF SetToSeqs
  <2>3. Ordered(s, U, g)
    BY <2>2 DEF Ordered
  <2> QED
    BY <2>3
<1>2. ASSUME NEW n \in Nat, n \in S PROVE n + 1 \in S
  <2> SUFFICES ASSUME NEW U \in SUBSET T, Cardinality(U) = n + 1 PROVE \E s : Ordered(s, U, g)
    OBVIOUS
  <2>1. IsFiniteSet(U) /\ U # {}
    <3>1. IsFiniteSet(U)
      BY FS_Subset
    <3>2. U # {}
      BY FS_EmptySet
    <3> QED
      BY <3>1, <3>2
  <2> DEFINE V == {g[p] : p \in U}
  <2>2. V \in SUBSET Nat /\ V # {}
    BY <2>1
  <2>3. Min(V) \in V /\ \A y \in V : Min(V) <= y
    <3> HIDE DEF V
    <3> QED
      BY <2>2, MinIsLeast
  <2>4. PICK x \in U : \A p \in U : g[x] <= g[p]
    BY <2>3
  <2> DEFINE W == U \ {x}
  <2>5. Cardinality(W) = n /\ W \in SUBSET T
    <3>1. Cardinality(U \ {x}) = Cardinality(U) - 1
      BY <2>1, FS_RemoveElement
    <3>2. (n + 1) - 1 = n
      OBVIOUS
    <3> QED
      BY <3>1, <3>2
  <2>6. PICK s : Ordered(s, W, g)
    <3> HIDE DEF W
    <3> QED
      BY <1>2, <2>5
  <2>7. /\ s \in [1..n -> W] /\ \A i, j \in 1..n : i # j => s[i] # s[j]
        /\ \A i, j \in 1..n : i < j => g[s[i]] >= g[s[j]]
    <3> HIDE DEF W
    <3>1. s \in [1..n -> W] /\ \A i, j \in 1..n : i # j => s[i] # s[j]
      BY <2>5, <2>6, SeqsOf DEF Ordered
    <3> QED
      BY <2>6, <3>1 DEF Ordered
  <2> DEFINE t == [i \in 1..n+1 |-> IF i = n + 1 THEN x ELSE s[i]]
  <2>8. \A i \in 1..n : t[i] = s[i] /\ s[i] \in U /\ s[i] # x
    <3>1. \A i \in 1..n : i \in 1..n+1 /\ i # n + 1
      OBVIOUS
    <3> QED
      BY <2>7, <3>1
  <2>9. t[n + 1] = x /\ DOMAIN t = 1..n+1 /\ t \in [1..n+1 -> U]
    <3>1. n + 1 \in 1..n+1 /\ \A i \in 1..n+1 : i # n + 1 => i \in 1..n
      OBVIOUS
    <3>2. \A i \in 1..n+1 : (IF i = n + 1 THEN x ELSE s[i]) \in U
      BY <2>8, <3>1
    <3> QED
      BY <3>1, <3>2
  <2> HIDE DEF t, W, V
  <2>10. \A i \in 1..n+1 : i # n + 1 => i \in 1..n
    OBVIOUS
  <2>11. \A i, j \in 1..n+1 : i # j => t[i] # t[j]
    BY <2>7, <2>8, <2>9, <2>10
  <2>12. t \in SetToSeqs(U)
    BY <2>9, <2>11, SeqsOf
  <2>13. ASSUME NEW i \in 1..n+1, NEW j \in 1..n+1, i < j PROVE g[t[i]] >= g[t[j]]
    <3>1. i \in 1..n
      BY <2>13
    <3>2. CASE j = n + 1
      <4>1. g[t[i]] \in Nat /\ g[x] \in Nat /\ g[x] <= g[t[i]]
        BY <2>4, <2>8, <3>1
      <4> QED
        BY <2>9, <3>2, <4>1
    <3>3. CASE j # n + 1
      <4>1. j \in 1..n
        BY <2>10, <3>3
      <4>2. g[s[i]] >= g[s[j]]
        BY <2>7, <2>13, <3>1, <4>1
      <4> QED
        BY <2>8, <3>1, <4>1, <4>2
    <3> QED
      BY <3>2, <3>3
  <2>14. Ordered(t, U, g)
    BY <2>9, <2>12, <2>13 DEF Ordered
  <2> QED
    BY <2>14
<1> HIDE DEF S
<1>3. Nat \subseteq S
  BY <1>1, <1>2, Induction
<1>4. Cardinality(T) \in S
  BY <1>3, FS_CardinalityType
<1> QED
  BY <1>4 DEF S

\* It has every element.
LEMMA OrderHasAll ==
    ASSUME NEW T, IsFiniteSet(T), NEW s \in SetToSeqs(T)
    PROVE  IsSeq(s) /\ Len(s) = Cardinality(T) /\ Range(s) = T
<1> DEFINE n == Cardinality(T)
<1>1. n \in Nat
  BY FS_CardinalityType
<1>2. s \in [1..n -> T] /\ \A i, j \in 1..n : i # j => s[i] # s[j]
  BY SeqsOf
<1>3. s \in Injection(1..n, T)
  BY <1>2 DEF Injection, IsInjective
<1>4. IsFiniteSet(1..n) /\ Cardinality(1..n) = n
  <2>1. Cardinality(1..n) = IF 1 > n THEN 0 ELSE n - 1 + 1
    BY <1>1, FS_Interval
  <2> QED
    BY <1>1, <2>1, FS_Interval
<1>5. s \in Surjection(1..n, T)
  BY <1>3, <1>4, FS_Injection
<1> HIDE DEF n
<1>6. s \in Seq(T) /\ Len(s) = n
  BY <1>1, <1>2
<1>7. Range(s) = T
  BY <1>2, <1>5 DEF Surjection, Range
<1>8. IsSeq(s)
  BY <1>6, SeqIsSeq
<1> QED
  BY <1>6, <1>7, <1>8 DEF n

\* What a name can be read as are days.
LEMMA DatesAreDays ==
    ASSUME NEW name, NEW format
    PROVE  TryParseDate(name, format) \in Days \cup {Nothing}
<1>1. \A more : Read(name, format, more) \subseteq Days
  BY DEF Read
<1>2. \A S \in SUBSET Days : TheDate(S) \in Days \cup {Nothing}
  BY DEF TheDate
<1>3. ParseQuarter(name, format) \in Days \cup {Nothing}
  <2>1. \A more : TheDate(Read(name, format, more)) \in Days \cup {Nothing}
    BY <1>1, <1>2
  <2> QED
    BY <2>1, Zenon DEF ParseQuarter
<1> DEFINE weekly == IF Tokens(format) \cap {"G", "V"} = {} THEN {}
                     ELSE Read(name, format, [u |-> 1])
           tries  == <<Read(name, format, <<>>), weekly, Read(name, format, [D |-> 1]),
                       Read(name, format, [M |-> 1, D |-> 1])>>
           good   == {i \in DOMAIN tries : tries[i] # {}}
<1>4. \A i \in DOMAIN tries : tries[i] \in SUBSET Days
  <2>1. weekly \subseteq Days
    BY <1>1
  <2> HIDE DEF weekly
  <2> QED
    BY <1>1, <2>1
<1>5. good # {} => Min(good) \in DOMAIN tries
  <2>1. DOMAIN tries = 1..4
    BY DEF tries
  <2>2. good \in SUBSET Nat /\ good \subseteq DOMAIN tries
    BY <2>1
  <2> HIDE DEF good, tries
  <2> QED
    BY <2>2, MinIsLeast
<1>6. TryParseDate(name, format) =
         IF Len(name) # Len(format)
            \/ \E i \in DOMAIN name : name[i][1] # Chrono(format[i]) THEN Nothing
         ELSE IF "Q" \in Tokens(format) THEN ParseQuarter(name, format)
         ELSE IF good = {} THEN Nothing ELSE TheDate(tries[Min(good)])
  BY DEF TryParseDate
<1> HIDE DEF tries, good
<1> QED
  BY <1>2, <1>3, <1>4, <1>5, <1>6

\* The notes of a folder whose names are dates.
DatedNotes(files, names, config) ==
    {p \in files : /\ Len(p) = Len(config.folder) + 1 /\ IsPrefix(config.folder, p)
                   /\ Last(p) \in names
                   /\ TryParseDate(Last(p), config.format) # Nothing}

\* The list has all of them if it may be as long, the newest first.
LEMMA ListIsOfDated ==
    ASSUME NEW files, IsFiniteSet(files), NEW names, NEW config,
           NEW limit \in Nat, Cardinality(files) <= limit
    PROVE  LET list == ListRecentPeriodicNotes(files, names, config, limit) IN
           /\ Range(list) = DatedNotes(files, names, config)
           /\ \A i, j \in DOMAIN list : i < j =>
                 TryParseDate(Last(list[i]), config.format) >= TryParseDate(Last(list[j]), config.format)
<1> DEFINE date(p) == TryParseDate(Last(p), config.format)
           T == DatedNotes(files, names, config)
           g == [p \in T |-> date(p)]
           InOrder(s) == \A i, j \in DOMAIN s : i < j => date(s[i]) >= date(s[j])
           sorted == CHOOSE s \in SetToSeqs(T) : InOrder(s)
           n == Cardinality(T)
           list == SubSeq(sorted, 1, Min({limit, Len(sorted)}))
<1>1. IsFiniteSet(T) /\ n \in Nat /\ n <= limit
  <2>1. T \in SUBSET files
    BY DEF DatedNotes
  <2> HIDE DEF T
  <2>2. IsFiniteSet(T) /\ Cardinality(T) <= Cardinality(files)
    BY <2>1, FS_Subset
  <2>3. Cardinality(T) \in Nat /\ Cardinality(files) \in Nat
    BY <2>2, FS_CardinalityType
  <2> QED
    BY <2>2, <2>3
<1>2. \A p \in T : date(p) \in Nat
  <2>1. \A p \in T : date(p) # Nothing
    BY DEF DatedNotes
  <2>2. \A p \in T : date(p) \in Days
    BY <2>1, DatesAreDays
  <2> QED
    BY <2>2, DaysAssumption
<1>3. g \in [T -> Nat] /\ \A p \in T : g[p] = date(p)
  <2> HIDE DEF T, date
  <2> QED
    BY <1>2
<1>4. ListRecentPeriodicNotes(files, names, config, limit) = list
  BY Zenon DEF ListRecentPeriodicNotes, DatedNotes
<1> HIDE DEF g, T, list
<1>5. \E s \in SetToSeqs(T) : InOrder(s)
  <2>1. PICK s : Ordered(s, T, g)
    BY <1>1, <1>3, OrderExists
  <2>2. s \in SetToSeqs(T) /\ \A i, j \in DOMAIN s : i < j => g[s[i]] >= g[s[j]]
    BY <2>1 DEF Ordered
  <2>3. \A i \in DOMAIN s : s[i] \in T
    BY <2>2 DEF SetToSeqs
  <2> HIDE DEF date
  <2>4. InOrder(s)
    BY <1>3, <2>2, <2>3
  <2> QED
    BY <2>2, <2>4
<1>6. sorted \in SetToSeqs(T) /\ InOrder(sorted)
  <2> HIDE DEF InOrder
  <2> QED
    BY <1>5
<1> HIDE DEF sorted
<1>7. IsSeq(sorted) /\ Len(sorted) = n /\ Range(sorted) = T
  BY <1>1, <1>6, OrderHasAll
<1>8. list = sorted
  <2>1. Min({limit, Len(sorted)}) = n
    <3>1. {limit, n} \in SUBSET Nat /\ {limit, n} # {}
      BY <1>1
    <3> DEFINE two == {limit, n}
    <3>2. Min(two) \in two /\ \A y \in two : Min(two) <= y
      <4> HIDE DEF two
      <4> QED
        BY <3>1, MinIsLeast DEF two
    <3>3. Min({limit, n}) = n
      BY <1>1, <3>2
    <3> QED
      BY <1>7, <3>3
  <2>2. SubSeq(sorted, 1, n) = sorted
    BY <1>7, EndsOfPrefix
  <2> QED
    BY <2>1, <2>2 DEF list
<1> QED
  BY <1>4, <1>6, <1>7, <1>8, Zenon DEF T

\* A call is of what its client asks for.
Asked == \A c \in Callers : call[c].at # "idle" => call[c].req \in Setups[setup].requests[c]

\* A step of a call is of the same request,
LEMMA SameRequest ==
    ASSUME Inv, NEW c \in Callers, Step1(c)
    PROVE  setup' = setup /\ call[c].at # "idle" /\ call'[c].req = call[c].req
<1> DEFINE k == call[c]
<1>1. DOMAIN k = Fields
  BY DEF Inv, GoodCall
<1>2. ASSUME NEW n, Becomes(c, n), n.req = k.req PROVE call'[c].req = k.req
  BY <1>2 DEF Becomes
<1>3. ASSUME NEW x, NEW p, NEW d, Becomes(c, [k EXCEPT !.at = x, !.path = p, !.doc = d])
      PROVE  call'[c].req = k.req
  <2> DEFINE n == [k EXCEPT !.at = x, !.path = p, !.doc = d]
  <2>1. n.req = k.req
    BY <1>1 DEF Fields
  <2> HIDE DEF n
  <2> QED
    BY <1>2, <1>3, <2>1 DEF n
<1>4. ASSUME NEW x, NEW p, Becomes(c, [k EXCEPT !.at = x, !.path = p]) PROVE call'[c].req = k.req
  <2> DEFINE n == [k EXCEPT !.at = x, !.path = p]
  <2>1. n.req = k.req
    BY <1>1 DEF Fields
  <2> HIDE DEF n
  <2> QED
    BY <1>2, <1>4, <2>1 DEF n
<1>5. ASSUME NEW x, NEW d, Becomes(c, [k EXCEPT !.at = x, !.doc = d]) PROVE call'[c].req = k.req
  <2> DEFINE n == [k EXCEPT !.at = x, !.doc = d]
  <2>1. n.req = k.req
    BY <1>1 DEF Fields
  <2> HIDE DEF n
  <2> QED
    BY <1>2, <1>5, <2>1 DEF n
<1>6. ASSUME Becomes(c, [k EXCEPT !.at = "relink"]) PROVE call'[c].req = k.req
  <2> DEFINE n == [k EXCEPT !.at = "relink"]
  <2>1. n.req = k.req
    BY <1>1 DEF Fields
  <2> HIDE DEF n
  <2> QED
    BY <1>2, <1>6, <2>1 DEF n
<1>7. ASSUME NEW r, Reply(c, r) PROVE call'[c].req = k.req
  <2> DEFINE n == [k EXCEPT !.at = "done", !.reply = r]
  <2>1. n.req = k.req
    BY <1>1 DEF Fields
  <2>2. Becomes(c, n)
    BY <1>7, Zenon DEF Reply
  <2> HIDE DEF n
  <2> QED
    BY <1>2, <2>1, <2>2
<1>8. CheckNew(c) => call'[c].req = k.req
  <2>1. CheckNew(c) => \/ \E r : Reply(c, r)
                       \/ \E p, d : Becomes(c, [k EXCEPT !.at = "put", !.path = p, !.doc = d])
    BY Zenon DEF CheckNew, Fail
  <2> QED
    BY <1>3, <1>7, <2>1
<1>9. Load(c) => call'[c].req = k.req
  <2>1. Load(c) => \/ \E r : Reply(c, r)
                   \/ \E p, d : Becomes(c, [k EXCEPT !.at = "put", !.path = p, !.doc = d])
    BY Zenon DEF Load, LoadFrom, Rewrite, Fail
  <2> QED
    BY <1>3, <1>7, <2>1
<1>10. Put(c) => call'[c].req = k.req
  <2>1. Put(c) => \/ \E r : Reply(c, r)
                  \/ \E p : Becomes(c, [k EXCEPT !.at = "reindex", !.path = p])
    BY Zenon DEF Put, PutAt, Fail
  <2> QED
    BY <1>4, <1>7, <2>1
<1>11. Unlink(c) => call'[c].req = k.req
  <2>1. Unlink(c) => \/ \E r : Reply(c, r)
                     \/ \E p : Becomes(c, [k EXCEPT !.at = "unindex", !.path = p])
    BY Zenon DEF Unlink, UnlinkAt, Fail
  <2> QED
    BY <1>4, <1>7, <2>1
<1>12. CheckMove(c) => call'[c].req = k.req
  <2>1. CheckMove(c) => \/ \E r : Reply(c, r)
                        \/ \E p, d : Becomes(c, [k EXCEPT !.at = "rename", !.doc = d, !.path = p])
    BY Zenon DEF CheckMove, CheckMoveAt, Fail
  <2>2. ASSUME NEW p, NEW d, Becomes(c, [k EXCEPT !.at = "rename", !.doc = d, !.path = p])
        PROVE  call'[c].req = k.req
    <3> DEFINE n == [k EXCEPT !.at = "rename", !.doc = d, !.path = p]
    <3>1. n.req = k.req
      BY <1>1 DEF Fields
    <3> HIDE DEF n
    <3> QED
      BY <1>2, <2>2, <3>1 DEF n
  <2> QED
    BY <1>7, <2>1, <2>2
<1>13. Rename(c) => call'[c].req = k.req
  <2>1. Rename(c) => (\E r : Reply(c, r)) \/ Becomes(c, [k EXCEPT !.at = "relink"])
    BY Zenon DEF Rename, Fail
  <2> QED
    BY <1>6, <1>7, <2>1
<1>14. Reindex(c) \/ Unindex(c) \/ Relink(c) \/ Conclude(c) \/ Read1(c) => call'[c].req = k.req
  <2>1. Reindex(c) \/ Unindex(c) \/ Relink(c) \/ Conclude(c) \/ Read1(c) => \E r : Reply(c, r)
    BY Zenon DEF Reindex, ReindexAt, IndexNote, Unindex, Relink, Conclude, Read1, Done, Fail
  <2> QED
    BY <1>7, <2>1
<1>15. Select(c) \/ Stat(c) \/ ReadOne(c) => call'[c].req = k.req
  <2>1. Select(c) \/ Stat(c) \/ ReadOne(c) =>
           \/ \E r : Reply(c, r)
           \/ \E d : Becomes(c, [k EXCEPT !.at = "stat", !.doc = d])
           \/ \E p : Becomes(c, [k EXCEPT !.at = "read", !.path = p])
    BY Zenon DEF Select, SelectFrom, Stat, ReadOne, NextCandidate, Unavailable, Fail
  <2> QED
    BY <1>4, <1>5, <1>7, <2>1
<1>16. setup' = setup /\ k.at # "idle"
  BY DEF Step1, CheckNew, Load, Put, Reindex, Unlink, Unindex, CheckMove, Rename, Relink,
         Select, Stat, ReadOne, Conclude, Read1, At
<1> HIDE DEF k
<1> QED
  BY <1>8, <1>9, <1>10, <1>11, <1>12, <1>13, <1>14, <1>15, <1>16 DEF Step1, k

\* one of another leaves it,
LEMMA DisturbedAsked ==
    ASSUME NEW k, DOMAIN k = Fields, k.at # "idle" PROVE Disturbed(k).req = k.req
<1> DEFINE kept == Restrict(k.kept, {p \in DOMAIN k.kept : Same(p)})
           alone == k.alone /\ vault' = vault
           grown == /\ k.grown /\ DOMAIN disk \subseteq DOMAIN disk'
                    /\ dirs \subseteq dirs' /\ links \subseteq links'
           n == [k EXCEPT !.kept = kept, !.alone = alone, !.grown = grown]
<1>1. Disturbed(k) = n
  BY Zenon DEF Disturbed
<1> HIDE DEF kept, alone, grown
<1>2. n.req = k.req
  BY DEF Fields
<1> HIDE DEF n
<1> QED
  BY <1>1, <1>2

\* and so a call stays one of those.
LEMMA OthersAsked ==
    ASSUME Inv, Asked, setup' = setup, NEW c \in Callers, call'[c] = Disturbed(call[c]),
           call'[c].at # "idle"
    PROVE  call'[c].req \in Setups[setup'].requests[c]
<1>1. call[c].at # "idle" /\ DOMAIN call[c] = Fields
  BY DEF Disturbed, Inv, GoodCall
<1> QED
  BY <1>1, DisturbedAsked DEF Asked

\* No step changes the request of a call under way.
LEMMA AskedKeeps == Inv /\ Asked /\ [Next]_vars => Asked'
<1> SUFFICES ASSUME Inv, Asked, [Next]_vars, NEW x \in Callers, call'[x].at # "idle"
             PROVE  call'[x].req \in Setups[setup'].requests[x]
  BY DEF Asked
<1>1. ASSUME NEW c \in Callers, NEW r \in Setups[setup].requests[c], Begin(c, r)
      PROVE  call'[x].req \in Setups[setup'].requests[x]
  <2>1. setup' = setup /\ \E n : n.req = r /\ Becomes(c, n)
    <3> DEFINE k == [Idle EXCEPT !.req = r, !.kept = disk]
               refused(why) == [k EXCEPT !.at = "done", !.reply = Refusal(why)]
               n == [k EXCEPT !.at = FirstStep(r)]
    <3>1. DOMAIN k = Fields /\ k.req = r
      BY DEF Idle, Fields
    <3>2. setup' = setup
      BY <1>1 DEF Begin
    <3>3. Becomes(c, n) \/ Becomes(c, refused("no_tool")) \/ Becomes(c, refused("params"))
      BY <1>1, Zenon DEF Begin
    <3> HIDE DEF k
    <3>4. n.req = r /\ \A why : refused(why).req = r
      BY <3>1 DEF Fields
    <3> HIDE DEF n, refused
    <3> QED
      BY <3>2, <3>3, <3>4
  <2>2. CASE x = c
    BY <2>1, <2>2 DEF Becomes
  <2>3. CASE x # c
    <3>1. call'[x] = Disturbed(call[x])
      BY <2>1, <2>3 DEF Becomes
    <3> QED
      BY <2>1, <3>1, OthersAsked
  <2> QED
    BY <2>2, <2>3
<1>2. ASSUME NEW c \in Callers, Step1(c) PROVE call'[x].req \in Setups[setup'].requests[x]
  <2>1. setup' = setup /\ call[c].at # "idle" /\ call'[c].req = call[c].req
    BY <1>2, SameRequest
  <2>2. CASE x = c
    BY <2>1, <2>2 DEF Asked
  <2>3. CASE x # c
    <3>1. call'[x] = Disturbed(call[x])
      <4>1. \E n : Becomes(c, n)
        BY <1>2, Zenon DEF Step1, CheckNew, Load, LoadFrom, Rewrite, Put, PutAt, Reindex,
           ReindexAt, IndexNote, Unlink, UnlinkAt, Unindex, CheckMove, CheckMoveAt, Rename,
           Relink, Select, SelectFrom, Stat, ReadOne, Conclude, Read1, NextCandidate,
           Unavailable, Done, Fail, Reply
      <4> QED
        BY <2>3, <4>1 DEF Becomes
    <3> QED
      BY <2>1, <3>1, OthersAsked
  <2> QED
    BY <2>2, <2>3
<1>3. ASSUME NEW e \in Setups[setup].edits, Edit(e)
      PROVE  call'[x].req \in Setups[setup'].requests[x]
  <2>1. setup' = setup /\ call'[x] = Disturbed(call[x])
    BY <1>3 DEF Edit
  <2> QED
    BY <2>1, OthersAsked
<1>4. CASE UNCHANGED vars
  BY <1>4 DEF vars, Asked
<1> QED
  BY <1>1, <1>2, <1>3, <1>4 DEF Next

\* So every call is of what its client asks for.
LEMMA CallsAsked == Spec => []Asked
<1>1. Init => Asked
  BY DEF Init, Idle, Asked
<1> QED
  BY <1>1, AskedKeeps, CallsCorrect, PTL DEF Spec

\* The name that a day has under a format is one of a date, and read as a day that
\* is not after it; its path is spelled as the vault spells it.
ReadAsDay(config, day) ==
    LET name == FormatDate(config.format, day)
        date == TryParseDate(name, config.format)
    IN /\ OwnPath(PeriodicNotePath(config, day)) /\ name \in Dated
       /\ date # Nothing /\ date <= day

\* So it is of the days that clients ask for.
DaysAreReadBack ==
    \A s \in DOMAIN Setups : \A c \in Callers : \A r \in Setups[s].requests[c] :
        r.tool = "periodic_create" => ReadAsDay(PeriodicConfig(r.period), r.day)

\* The note of a day is in the list of its period's folder.
LEMMA DayIsDated ==
    ASSUME NEW config, NEW day, IsSeq(config.folder), ReadAsDay(config, day),
           NEW files, PeriodicNotePath(config, day) \in files
    PROVE  /\ PeriodicNotePath(config, day) \in DatedNotes(files, Dated, config)
           /\ Last(PeriodicNotePath(config, day)) = FormatDate(config.format, day)
<1> DEFINE f == config.folder
           name == FormatDate(config.format, day)
           p == Append(f, name)
<1>1. PeriodicNotePath(config, day) = p
  BY DEF PeriodicNotePath
<1>2. Len(f) \in Nat /\ Len(f) \in 0..Len(f) /\ IsSeq(f)
  BY IsSeqLen
<1>3. name \in Dated /\ TryParseDate(name, config.format) # Nothing
  BY DEF ReadAsDay
<1> HIDE DEF f, name
<1>4. /\ IsSeq(p) /\ Len(p) = Len(f) + 1 /\ p[Len(f) + 1] = name
      /\ \A i \in 1..Len(f) : p[i] = f[i]
  <2>1. IsSeq(p) /\ Len(p) = Len(f) + 1
    BY <1>2, AppendIsSeq
  <2>2. p[Len(f) + 1] = name
    BY <1>2, AppendIs
  <2>3. \A i \in 1..Len(f) : p[i] = f[i]
    BY <1>2, AppendIs
  <2> QED
    BY <2>1, <2>2, <2>3
<1> HIDE DEF p
<1>5. Last(p) = name
  BY <1>4 DEF Last
<1>6. IsPrefix(f, p)
  <2>1. SubSeq(f, 1, Len(f)) = f
    BY <1>2, EndsOfPrefix
  <2> DEFINE a == SubSeq(p, 1, Len(f))
  <2>2. IsSeq(a) /\ Len(a) = Len(f) /\ \A i \in 1..Len(f) : a[i] = p[i]
    <3>1. Len(f) \in 0..Len(p)
      BY <1>2, <1>4
    <3> QED
      BY <1>4, <3>1, PrefixIs
  <2> HIDE DEF a
  <2>3. f = a
    BY <1>2, <1>4, <2>2, SamePath
  <2> QED
    BY <1>2, <1>4, <2>1, <2>3 DEF IsPrefix, a
<1>7. p \in files
  BY <1>1
<1> QED
  BY <1>1, <1>3, <1>4, <1>5, <1>6, <1>7 DEF DatedNotes, f, name

\* A file is read under its own path.
LEMMA FileIsRead ==
    ASSUME Tidy(World), NothingBehindLinks(World), NEW p \in DOMAIN disk
    PROVE  ReadFile(World, p) = Answer(disk[p])
<1>1. World.disk = disk /\ World.dirs = dirs
  BY WorldsAre
<1>2. Locate(World, p) = Found(p)
  BY <1>1, FileIsFound
<1>3. p \notin dirs
  BY WorldsAre DEF Tidy, IsVault
<1>4. Found(p).err = "none" /\ Found(p).path = p
  BY DEF Found
<1> QED
  BY <1>1, <1>2, <1>3, <1>4 DEF ReadFile, ReadAt

\* A periodic note that was created is read back under its date and appears in the
\* list of its period, which is the newest first (periodic.rs), whatever other
\* clients do: for any calendar and configuration under which the days that are
\* asked for are read back, in every state in which no link leads out of the vault
\* above a file.
THEOREM PeriodicListed ==
    DaysAreReadBack => (Spec => [](NothingBehindLinks(World) => PeriodicIsListed))
<1> SUFFICES ASSUME DaysAreReadBack
             PROVE  Spec => [](NothingBehindLinks(World) => PeriodicIsListed)
  OBVIOUS
<1>1. Inv /\ Honesty /\ AllMade /\ AllSpelt /\ Asked =>
         (NothingBehindLinks(World) => PeriodicIsListed)
  <2> SUFFICES ASSUME Inv, Honesty, AllMade, AllSpelt, Asked, NothingBehindLinks(World),
                      NEW c \in Callers, Answered(c, {"periodic_create"}),
                      call[c].path \in DOMAIN disk
               PROVE  LET r == Req(c)
                          list == PeriodicList(World, r.period, Cardinality(DOMAIN disk))
                          date(p) == TryParseDate(Last(p), PeriodicConfig(r.period).format)
                      IN /\ call[c].path \in Range(list)
                         /\ PeriodicGet(World, r.period, r.day) = Answer(disk[call[c].path])
                         /\ date(call[c].path) <= r.day
                         /\ \A i, j \in DOMAIN list : i < j => date(list[i]) >= date(list[j])
    BY Zenon DEF PeriodicIsListed
  <2> DEFINE k == call[c]
             r == Req(c)
             config == PeriodicConfig(r.period)
             day == r.day
             p == PeriodicNotePath(config, day)
             n == Cardinality(DOMAIN disk)
             list == PeriodicList(World, r.period, n)
  <2>1. k.at = "done" /\ k.reply.err = "none" /\ r.tool = "periodic_create" /\ r = k.req
    BY DEF Answered, Req
  <2>2. Made(World, k) /\ Spelt(k) /\ Tidy(World) /\ Sound
    BY <2>1 DEF AllMade, AllSpelt, Honesty, Inv
  <2>3. ReadAsDay(config, day)
    <3>1. k.req \in Setups[setup].requests[c] /\ setup \in DOMAIN Setups
      BY <2>1, <2>2 DEF Asked, Sound
    <3> QED
      BY <2>1, <3>1 DEF DaysAreReadBack
  <2>4. IsSeq(config.folder)
    <3>1. WellTyped(r)
      BY <2>1, <2>2 DEF Made
    <3>2. IsPath(config.folder)
      BY <2>1, <3>1 DEF WellTyped, NamesADay
    <3> QED
      BY <3>2, PathIsSeq
  <2>5. NewPath(r) = p
    BY <2>1 DEF NewPath
  <2>6. k.path = p /\ p \in DOMAIN disk
    <3>1. OwnPath(NewPath(r))
      BY <2>3, <2>5 DEF ReadAsDay
    <3>2. k.path = NewPath(r)
      BY <2>1, <2>2, <3>1 DEF Spelt
    <3> QED
      BY <2>5, <3>2
  <2>7. PeriodicGet(World, r.period, r.day) = Answer(disk[p])
    <3>1. PeriodicGet(World, r.period, r.day) = ReadFile(World, p)
      BY DEF PeriodicGet
    <3> HIDE DEF p
    <3> QED
      BY <2>2, <2>6, <3>1, FileIsRead
  <2>8. n \in Nat /\ Cardinality(DOMAIN disk) <= n /\ IsFiniteSet(DOMAIN disk)
    BY <2>2, FS_CardinalityType DEF Sound
  <2>9. list = ListRecentPeriodicNotes(DOMAIN disk, Dated, config, n)
    BY WorldsAre DEF PeriodicList
  <2> HIDE DEF r, config, p, n, list, day, k
  <2>10. /\ Range(list) = DatedNotes(DOMAIN disk, Dated, config)
         /\ \A i, j \in DOMAIN list : i < j =>
               TryParseDate(Last(list[i]), config.format) >= TryParseDate(Last(list[j]), config.format)
    BY <2>8, <2>9, ListIsOfDated
  <2>11. /\ p \in DatedNotes(DOMAIN disk, Dated, config)
         /\ Last(p) = FormatDate(config.format, day)
    BY <2>3, <2>4, <2>6, DayIsDated DEF p
  <2>12. TryParseDate(Last(p), config.format) <= day
    BY <2>3, <2>11 DEF ReadAsDay
  <2> QED
    BY <2>6, <2>7, <2>10, <2>11, <2>12, Zenon DEF r, config, list, n, k, day
<1> QED
  BY <1>1, CallsCorrect, CallsHonest, AllMadeKeeps, InitMade, CallsSpelt, CallsAsked, PTL DEF Spec

--------------------------------------------------------------------------------
(* The default formats of periodic notes.                                      *)

\* A calendar: year, month and day make one day, and so do an ISO week and its day.
Identify(fields) ==
    \A d, e \in Days : (\A f \in fields : Calendar[d][f] = Calendar[e][f]) => d = e
IsCalendar == Identify({"Y", "M", "D"}) /\ Identify({"G", "V", "u"}) /\ Nothing \notin Days

\* The first day of a period.
SameFields(d, e, fields) == \A f \in fields : Calendar[e][f] = Calendar[d][f]
Begins(e, period, d) ==
    CASE period = "daily"     -> e = d
      [] period = "weekly"    -> SameFields(d, e, {"G", "V"}) /\ Calendar[e]["u"] = 1
      [] period = "monthly"   -> SameFields(d, e, {"Y", "M"}) /\ Calendar[e]["D"] = 1
      [] period = "quarterly" ->
            /\ SameFields(d, e, {"Y", "Q"})
            /\ Calendar[e]["M"] = 3 * (Calendar[d]["Q"] - 1) + 1 /\ Calendar[e]["D"] = 1
      [] period = "yearly"    ->
            SameFields(d, e, {"Y"}) /\ Calendar[e]["M"] = 1 /\ Calendar[e]["D"] = 1

\* A name has the fields of its format.
LEMMA NameIs ==
    ASSUME NEW format, IsSeq(format), NEW d
    PROVE  LET name == FormatDate(format, d) IN
           /\ Len(name) = Len(format) /\ DOMAIN name = DOMAIN format
           /\ \A i \in DOMAIN format : /\ name[i][1] = Chrono(format[i])
                                       /\ name[i][2] = Calendar[d][Chrono(format[i])]
<1> DEFINE name == FormatDate(format, d)
<1>1. name = [i \in DOMAIN format |-> <<Chrono(format[i]), Calendar[d][Chrono(format[i])]>>]
  BY DEF FormatDate
<1> HIDE DEF name
<1>2. DOMAIN name = DOMAIN format /\ DOMAIN format = 1..Len(format) /\ Len(format) \in Nat
  BY <1>1, IsSeqLen
<1>3. Len(name) = Len(format)
  BY <1>2
<1>4. \A i \in DOMAIN format : /\ name[i][1] = Chrono(format[i])
                               /\ name[i][2] = Calendar[d][Chrono(format[i])]
  BY <1>1
<1> QED
  BY <1>2, <1>3, <1>4 DEF name

\* With fields that make a day it is read as the one that has them.
LEMMA ReadAsOne ==
    ASSUME IsCalendar, NEW format, IsSeq(format), NEW d \in Days, NEW more,
           Determine(Tokens(format) \cup DOMAIN more),
           NEW e \in Days, SameFields(d, e, Tokens(format)),
           \A f \in DOMAIN more : Calendar[e][f] = more[f]
    PROVE  Read(FormatDate(format, d), format, more) = {e}
<1> DEFINE name == FormatDate(format, d)
           F == Tokens(format) \cup DOMAIN more
           R == {x \in Days : /\ \A i \in DOMAIN name : Calendar[x][name[i][1]] = name[i][2]
                              /\ \A f \in DOMAIN more : Calendar[x][f] = more[f]}
<1>1. Read(name, format, more) = R
  BY DEF Read
<1>2. /\ DOMAIN name = DOMAIN format
      /\ \A i \in DOMAIN format : /\ name[i][1] = Chrono(format[i])
                                  /\ name[i][2] = Calendar[d][Chrono(format[i])]
  BY NameIs
<1> HIDE DEF name
<1>3. ASSUME NEW x \in Days
      PROVE  (\A i \in DOMAIN name : Calendar[x][name[i][1]] = name[i][2])
             <=> SameFields(d, x, Tokens(format))
  BY <1>2 DEF SameFields, Tokens
<1>4. e \in R
  BY <1>3
<1>5. ASSUME NEW x \in R PROVE x = e
  <2>1. x \in Days /\ SameFields(d, x, Tokens(format)) /\ \A f \in DOMAIN more : Calendar[x][f] = more[f]
    BY <1>3
  <2>2. \A f \in F : Calendar[x][f] = Calendar[e][f]
    BY <2>1 DEF SameFields
  <2>3. {"Y", "M", "D"} \subseteq F \/ {"G", "V", "u"} \subseteq F
    BY DEF Determine
  <2> QED
    BY <2>1, <2>2, <2>3 DEF IsCalendar, Identify
<1> HIDE DEF R
<1>6. R = {e}
  BY <1>4, <1>5
<1> QED
  BY <1>1, <1>6 DEF name

\* Without them it is not read.
LEMMA ReadAsNone ==
    ASSUME NEW name, NEW format, NEW more, ~Determine(Tokens(format) \cup DOMAIN more)
    PROVE  Read(name, format, more) = {}
BY DEF Read

\* The first way to read it counts.
ByWeek(name, format) ==
    IF Tokens(format) \cap {"G", "V"} = {} THEN {} ELSE Read(name, format, [u |-> 1])
FirstIs(name, format, e) ==
    \/ Read(name, format, <<>>) = {e}
    \/ Read(name, format, <<>>) = {} /\ ByWeek(name, format) = {e}
    \/ /\ Read(name, format, <<>>) = {} /\ ByWeek(name, format) = {}
       /\ Read(name, format, [D |-> 1]) = {e}
    \/ /\ Read(name, format, <<>>) = {} /\ ByWeek(name, format) = {}
       /\ Read(name, format, [D |-> 1]) = {} /\ Read(name, format, [M |-> 1, D |-> 1]) = {e}
\* try_parse_date: the first try that makes a day is its date.
LEMMA FirstTry ==
    ASSUME NEW format, IsSeq(format), NEW d, "Q" \notin Tokens(format), NEW e,
           FirstIs(FormatDate(format, d), format, e)
    PROVE  TryParseDate(FormatDate(format, d), format) = e
<1> DEFINE name == FormatDate(format, d)
           a == Read(name, format, <<>>)
           b == ByWeek(name, format)
           m == Read(name, format, [D |-> 1])
           y == Read(name, format, [M |-> 1, D |-> 1])
           tries == <<a, b, m, y>>
           good == {i \in DOMAIN tries : tries[i] # {}}
<1>1. Len(name) = Len(format) /\ \A i \in DOMAIN name : name[i][1] = Chrono(format[i])
  BY NameIs
<1>2. TryParseDate(name, format) =
         IF Len(name) # Len(format)
            \/ \E i \in DOMAIN name : name[i][1] # Chrono(format[i]) THEN Nothing
         ELSE IF "Q" \in Tokens(format) THEN ParseQuarter(name, format)
         ELSE IF good = {} THEN Nothing ELSE TheDate(tries[Min(good)])
  BY DEF TryParseDate, ByWeek
<1>3. TryParseDate(name, format) = IF good = {} THEN Nothing ELSE TheDate(tries[Min(good)])
  <2> HIDE DEF good, tries, name
  <2> QED
    BY <1>1, <1>2
<1>0. \/ a = {e}
      \/ a = {} /\ b = {e}
      \/ a = {} /\ b = {} /\ m = {e}
      \/ a = {} /\ b = {} /\ m = {} /\ y = {e}
  BY Zenon DEF FirstIs
<1> HIDE DEF a, b, m, y
<1>4. DOMAIN tries = 1..4 /\ tries[1] = a /\ tries[2] = b /\ tries[3] = m /\ tries[4] = y
  OBVIOUS
<1>5. good \in SUBSET Nat /\ good \subseteq 1..4
  BY <1>4
<1> HIDE DEF good, tries
<1>6. \A k \in 1..4 : k \in good <=> tries[k] # {}
  BY <1>4 DEF good
<1>7. \E k \in good : k \in 1..4 /\ tries[k] = {e} /\ \A i \in 1..4 : i < k => i \notin good
  <2>1. CASE a = {e}
    <3>1. 1 \in good /\ 1 \in 1..4 /\ \A i \in 1..4 : ~(i < 1)
      BY <1>4, <1>6, <2>1
    <3> QED
      BY <1>4, <2>1, <3>1
  <2>2. CASE a = {} /\ b = {e}
    BY <1>4, <1>6, <2>2
  <2>3. CASE a = {} /\ b = {} /\ m = {e}
    BY <1>4, <1>6, <2>3
  <2>4. CASE a = {} /\ b = {} /\ m = {} /\ y = {e}
    BY <1>4, <1>6, <2>4
  <2> QED
    BY <1>0, <2>1, <2>2, <2>3, <2>4
<1>8. good # {} /\ tries[Min(good)] = {e}
  <2>1. PICK k \in good : k \in 1..4 /\ tries[k] = {e} /\ \A i \in 1..4 : i < k => i \notin good
    BY <1>7
  <2>2. Min(good) \in good /\ \A i \in good : Min(good) <= i
    BY <1>5, <2>1, MinIsLeast
  <2>3. Min(good) \in 1..4 /\ Min(good) <= k
    BY <1>5, <2>1, <2>2
  <2>4. ~(Min(good) < k)
    BY <2>1, <2>2, <2>3
  <2>5. Min(good) = k
    BY <2>1, <2>3, <2>4
  <2> QED
    BY <2>1, <2>5
<1>9. TheDate({e}) = e
  BY DEF TheDate
<1> QED
  BY <1>3, <1>8, <1>9 DEF name

\* The fields of the default formats.
LEMMA DefaultTokens ==
    /\ \A p \in Periods : IsSeq(DefaultFormat(p))
    /\ Tokens(DefaultFormat("daily")) = {"Y", "M", "D"}
    /\ Tokens(DefaultFormat("weekly")) = {"G", "V"}
    /\ Tokens(DefaultFormat("monthly")) = {"Y", "M"}
    /\ Tokens(DefaultFormat("quarterly")) = {"Y", "Q"}
    /\ Tokens(DefaultFormat("yearly")) = {"Y"}
<1>1. \A t \in {"Y", "G", "Q", "M", "D", "V"} : Chrono(t) = t
  BY DEF Chrono
<1>2. \A x, y, z : /\ Tokens(<<x, y, z>>) = {Chrono(x), Chrono(y), Chrono(z)}
                   /\ Tokens(<<x, y>>) = {Chrono(x), Chrono(y)} /\ Tokens(<<x>>) = {Chrono(x)}
  <2> TAKE x, y, z
  <2>1. DOMAIN <<x, y, z>> = {1, 2, 3} /\ DOMAIN <<x, y>> = {1, 2} /\ DOMAIN <<x>> = {1}
    OBVIOUS
  <2>2. Tokens(<<x, y, z>>) = {Chrono(x), Chrono(y), Chrono(z)}
    BY <2>1 DEF Tokens
  <2>3. Tokens(<<x, y>>) = {Chrono(x), Chrono(y)}
    BY <2>1 DEF Tokens
  <2>4. Tokens(<<x>>) = {Chrono(x)}
    BY <2>1 DEF Tokens
  <2> QED
    BY <2>2, <2>3, <2>4
<1>3. /\ DefaultFormat("daily") = <<"Y", "M", "D">> /\ DefaultFormat("weekly") = <<"G", "V">>
      /\ DefaultFormat("monthly") = <<"Y", "M">> /\ DefaultFormat("quarterly") = <<"Y", "Q">>
      /\ DefaultFormat("yearly") = <<"Y">>
  BY DEF DefaultFormat
<1>4. \A x, y, z : IsSeq(<<x, y, z>>) /\ IsSeq(<<x, y>>) /\ IsSeq(<<x>>)
  <2> TAKE x, y, z
  <2> DEFINE T == {x, y, z}
  <2>1. <<x, y, z>> \in Seq(T) /\ <<x, y>> \in Seq(T) /\ <<x>> \in Seq(T)
    OBVIOUS
  <2> HIDE DEF T
  <2> QED
    BY <2>1, SeqIsSeq
<1>5. \A p \in Periods : IsSeq(DefaultFormat(p))
  <2> HIDE DEF DefaultFormat
  <2> QED
    BY <1>3, <1>4 DEF Periods
<1> QED
  BY <1>1, <1>2, <1>3, <1>5

\* A year, month and day are read as that day.
LEMMA DailyRead ==
    ASSUME IsCalendar, NEW format, IsSeq(format), Tokens(format) = {"Y", "M", "D"}, NEW d \in Days
    PROVE  TryParseDate(FormatDate(format, d), format) = d
<1>1. Read(FormatDate(format, d), format, <<>>) = {d}
  <2>1. Determine(Tokens(format) \cup DOMAIN <<>>)
    BY DEF Determine
  <2> QED
    BY <2>1, ReadAsOne DEF SameFields
<1>2. "Q" \notin Tokens(format)
  OBVIOUS
<1>3. FirstIs(FormatDate(format, d), format, d)
  BY <1>1, Zenon DEF FirstIs
<1> QED
  BY <1>2, <1>3, FirstTry

\* With the first day of its period added to it, a name is read as that day.
LEMMA WeeklyRead ==
    ASSUME IsCalendar, NEW format, IsSeq(format), Tokens(format) = {"G", "V"}, NEW d \in Days,
           NEW e \in Days, SameFields(d, e, {"G", "V"}), Calendar[e]["u"] = 1
    PROVE  TryParseDate(FormatDate(format, d), format) = e
<1> DEFINE name == FormatDate(format, d)
           more == [u |-> 1]
<1>1. Read(name, format, <<>>) = {}
  <2>1. ~Determine(Tokens(format) \cup DOMAIN <<>>)
    BY DEF Determine
  <2> QED
    BY <2>1, ReadAsNone
<1>2. Read(name, format, more) = {e}
  <2>1. DOMAIN more = {"u"} /\ more["u"] = 1
    OBVIOUS
  <2> HIDE DEF more
  <2>2. Determine(Tokens(format) \cup DOMAIN more)
    BY <2>1 DEF Determine
  <2>3. \A f \in DOMAIN more : Calendar[e][f] = more[f]
    BY <2>1
  <2>4. SameFields(d, e, Tokens(format))
    OBVIOUS
  <2> QED
    BY <2>2, <2>3, <2>4, ReadAsOne, Zenon
<1>3. Tokens(format) \cap {"G", "V"} # {} /\ "Q" \notin Tokens(format)
  OBVIOUS
<1>4. ByWeek(name, format) = {e}
  <2> HIDE DEF name
  <2> QED
    BY <1>2, <1>3, Zenon DEF ByWeek
<1>5. FirstIs(name, format, e)
  BY <1>1, <1>4, Zenon DEF FirstIs
<1> QED
  BY <1>3, <1>5, FirstTry

\* A year and month are read as the first of that month,
LEMMA MonthlyRead ==
    ASSUME IsCalendar, NEW format, IsSeq(format), Tokens(format) = {"Y", "M"}, NEW d \in Days,
           NEW e \in Days, SameFields(d, e, {"Y", "M"}), Calendar[e]["D"] = 1
    PROVE  TryParseDate(FormatDate(format, d), format) = e
<1> DEFINE name == FormatDate(format, d)
           more == [D |-> 1]
<1>1. Read(name, format, <<>>) = {}
  <2>1. ~Determine(Tokens(format) \cup DOMAIN <<>>)
    BY DEF Determine
  <2> QED
    BY <2>1, ReadAsNone
<1>2. Read(name, format, more) = {e}
  <2>1. DOMAIN more = {"D"} /\ more["D"] = 1
    OBVIOUS
  <2> HIDE DEF more
  <2>2. Determine(Tokens(format) \cup DOMAIN more)
    BY <2>1 DEF Determine
  <2>3. \A f \in DOMAIN more : Calendar[e][f] = more[f]
    BY <2>1
  <2>4. SameFields(d, e, Tokens(format))
    OBVIOUS
  <2> QED
    BY <2>2, <2>3, <2>4, ReadAsOne, Zenon
<1>3. Tokens(format) \cap {"G", "V"} = {} /\ "Q" \notin Tokens(format)
  OBVIOUS
<1>4. ByWeek(name, format) = {}
  <2> HIDE DEF name
  <2> QED
    BY <1>3, Zenon DEF ByWeek
<1>5. FirstIs(name, format, e)
  <2> HIDE DEF name
  <2> QED
    BY <1>1, <1>2, <1>4, Zenon DEF FirstIs
<1> QED
  BY <1>3, <1>5, FirstTry

\* The fields that are added to those of the format make a day.
LEMMA ReadWithMore ==
    ASSUME IsCalendar, NEW T, NEW format, IsSeq(format), Tokens(format) = T, NEW d \in Days,
           NEW e \in Days, SameFields(d, e, T), NEW more, Determine(T \cup DOMAIN more),
           \A f \in DOMAIN more : Calendar[e][f] = more[f]
    PROVE  Read(FormatDate(format, d), format, more) = {e}
BY ReadAsOne

\* a year as its first day,
LEMMA YearlyRead ==
    ASSUME IsCalendar, NEW format, IsSeq(format), Tokens(format) = {"Y"}, NEW d \in Days,
           NEW e \in Days, SameFields(d, e, {"Y"}), Calendar[e]["M"] = 1, Calendar[e]["D"] = 1
    PROVE  TryParseDate(FormatDate(format, d), format) = e
<1> DEFINE name == FormatDate(format, d)
           more == [M |-> 1, D |-> 1]
<1>1. Read(name, format, <<>>) = {} /\ Read(name, format, [D |-> 1]) = {}
  <2>1. ~Determine(Tokens(format) \cup DOMAIN <<>>) /\ ~Determine(Tokens(format) \cup DOMAIN [D |-> 1])
    BY DEF Determine
  <2> QED
    BY <2>1, ReadAsNone
<1>2. Read(name, format, more) = {e}
  <2>1. DOMAIN more = {"M", "D"} /\ more["M"] = 1 /\ more["D"] = 1
    OBVIOUS
  <2> HIDE DEF more
  <2>2. Determine({"Y"} \cup DOMAIN more)
    BY <2>1 DEF Determine
  <2>3. \A f \in DOMAIN more : Calendar[e][f] = more[f]
    BY <2>1
  <2> QED
    BY <2>2, <2>3, ReadWithMore
<1>3. Tokens(format) \cap {"G", "V"} = {} /\ "Q" \notin Tokens(format)
  OBVIOUS
<1>4. ByWeek(name, format) = {}
  <2> HIDE DEF name
  <2> QED
    BY <1>3, Zenon DEF ByWeek
<1>5. FirstIs(name, format, e)
  <2> HIDE DEF name
  <2> QED
    BY <1>1, <1>2, <1>4, Zenon DEF FirstIs
<1> QED
  BY <1>3, <1>5, FirstTry

\* and a quarter, by ParseQuarter, as its first day.
LEMMA QuarterlyRead ==
    ASSUME IsCalendar, NEW d \in Days,
           NEW e \in Days, SameFields(d, e, {"Y", "Q"}),
           Calendar[e]["M"] = 3 * (Calendar[d]["Q"] - 1) + 1, Calendar[e]["D"] = 1
    PROVE  TryParseDate(FormatDate(<<"Y", "Q">>, d), <<"Y", "Q">>) = e
<1> DEFINE format == <<"Y", "Q">>
           name == FormatDate(format, d)
           field(t) == name[CHOOSE i \in DOMAIN name : name[i][1] = t][2]
           more == [M |-> 3 * (field("Q") - 1) + 1, D |-> 1, Y |-> field("Y")]
<1>1. IsSeq(format) /\ DOMAIN format = {1, 2} /\ Tokens(format) = {"Y", "Q"}
  <2>1. DefaultFormat("quarterly") = format /\ "quarterly" \in Periods
    BY DEF DefaultFormat, Periods
  <2>2. DOMAIN format = {1, 2}
    OBVIOUS
  <2> HIDE DEF format
  <2> QED
    BY <2>1, <2>2, DefaultTokens
<1>2. /\ DOMAIN name = {1, 2} /\ name[1][1] = "Y" /\ name[1][2] = Calendar[d]["Y"]
      /\ name[2][1] = "Q" /\ name[2][2] = Calendar[d]["Q"]
  <2>1. format[1] = "Y" /\ format[2] = "Q" /\ Chrono("Y") = "Y" /\ Chrono("Q") = "Q"
    BY DEF Chrono
  <2> HIDE DEF format
  <2> QED
    BY <1>1, <2>1, NameIs
<1>3. Len(name) = Len(format) /\ \A i \in DOMAIN name : name[i][1] = Chrono(format[i])
  <2> HIDE DEF format
  <2>1. Len(name) = Len(format) /\ DOMAIN name = DOMAIN format
    BY <1>1, NameIs
  <2>2. \A i \in DOMAIN format : name[i][1] = Chrono(format[i])
    BY <1>1, NameIs
  <2> HIDE DEF name
  <2> QED
    BY <2>1, <2>2
<1> HIDE DEF name
<1>4. field("Y") = Calendar[d]["Y"] /\ field("Q") = Calendar[d]["Q"]
  <2>1. (CHOOSE i \in DOMAIN name : name[i][1] = "Y") = 1
    BY <1>2
  <2>2. (CHOOSE i \in DOMAIN name : name[i][1] = "Q") = 2
    BY <1>2
  <2> QED
    BY <1>2, <2>1, <2>2
<1> HIDE DEF format
<1>5. TryParseDate(name, format) = TheDate(Read(name, format, more))
  <2>1. TryParseDate(name, format) = ParseQuarter(name, format)
    BY <1>1, <1>3 DEF TryParseDate
  <2>2. ParseQuarter(name, format) = TheDate(Read(name, format, more))
    BY <1>1, Zenon DEF ParseQuarter
  <2> QED
    BY <2>1, <2>2
<1> HIDE DEF field
<1>7. Read(name, format, more) = {e}
  <2>1. /\ DOMAIN more = {"M", "D", "Y"} /\ more["D"] = 1 /\ more["Y"] = field("Y")
        /\ more["M"] = 3 * (field("Q") - 1) + 1
    OBVIOUS
  <2> HIDE DEF more
  <2>3. \A f \in DOMAIN more : Calendar[e][f] = more[f]
    BY <1>4, <2>1 DEF SameFields
  <2>4. IsSeq(format) /\ Tokens(format) = {"Y", "Q"} /\ Determine({"Y", "Q"} \cup DOMAIN more)
    BY <1>1, <2>1 DEF Determine
  <2>5. Read(FormatDate(format, d), format, more) = {e}
    BY <2>3, <2>4, ReadWithMore
  <2> QED
    BY <2>5 DEF name
<1>8. TheDate({e}) = e
  BY DEF TheDate
<1> QED
  BY <1>5, <1>7, <1>8 DEF name, format

\* The name of a day under the default format of a period is read as the first day
\* of that period (periodic.rs), for any calendar.
THEOREM DefaultsAreRead ==
    ASSUME IsCalendar, NEW period \in Periods, NEW d \in Days, NEW e \in Days, Begins(e, period, d)
    PROVE  TryParseDate(FormatDate(DefaultFormat(period), d), DefaultFormat(period)) = e
<1> DEFINE format == DefaultFormat(period)
<1>1. IsSeq(format)
  BY DefaultTokens
<1>2. CASE period = "daily"
  <2>1. e = d /\ Tokens(format) = {"Y", "M", "D"}
    BY <1>2, DefaultTokens DEF Begins
  <2> HIDE DEF format
  <2> QED
    BY <1>1, <2>1, DailyRead DEF format
<1>3. CASE period = "weekly"
  <2>1. SameFields(d, e, {"G", "V"}) /\ Calendar[e]["u"] = 1 /\ Tokens(format) = {"G", "V"}
    BY <1>3, DefaultTokens DEF Begins
  <2> HIDE DEF format
  <2> QED
    BY <1>1, <2>1, WeeklyRead DEF format
<1>4. CASE period = "monthly"
  <2>1. SameFields(d, e, {"Y", "M"}) /\ Calendar[e]["D"] = 1 /\ Tokens(format) = {"Y", "M"}
    BY <1>4, DefaultTokens DEF Begins
  <2> HIDE DEF format
  <2> QED
    BY <1>1, <2>1, MonthlyRead DEF format
<1>5. CASE period = "quarterly"
  <2>1. /\ SameFields(d, e, {"Y", "Q"}) /\ Calendar[e]["D"] = 1
        /\ Calendar[e]["M"] = 3 * (Calendar[d]["Q"] - 1) + 1 /\ format = <<"Y", "Q">>
    BY <1>5 DEF Begins, DefaultFormat
  <2> HIDE DEF format
  <2> QED
    BY <2>1, QuarterlyRead DEF format
<1>6. CASE period = "yearly"
  <2>1. SameFields(d, e, {"Y"}) /\ Calendar[e]["M"] = 1 /\ Calendar[e]["D"] = 1 /\ Tokens(format) = {"Y"}
    BY <1>6, DefaultTokens DEF Begins
  <2> HIDE DEF format
  <2> QED
    BY <1>1, <2>1, YearlyRead DEF format
<1> QED
  BY <1>2, <1>3, <1>4, <1>5, <1>6 DEF Periods
================================================================================
