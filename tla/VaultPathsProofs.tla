---------------------------- MODULE VaultPathsProofs ---------------------------
(* What path.rs finds in a vault, for any tree of directories, files and links *)
(* and any path that a request may spell, names in two Unicode forms among it: *)
(* what is resolved is there (ResolvedIsThere); what is found is found by the  *)
(* same path in any smaller tree that has it (FoundBefore); where a file is    *)
(* written either is a file that the path finds, or nothing is, nor on the way *)
(* (WritePlace). And what writing, removing and moving make of a vault is one  *)
(* again (PutVault, WithoutLeaf, MoveVault).                                   *)
(*                                                                             *)
(* What recursive definitions compute is shown by induction on the numbers     *)
(* they are defined over (Induction).                                          *)
EXTENDS VaultPaths, SequenceTheorems, FiniteSetTheorems, WellFoundedInduction, TLAPS

--------------------------------------------------------------------------------
(* Induction, and functions defined by recursion over a prefix of the numbers. *)

\* A set of numbers with zero and the successor of each of its numbers has all.
LEMMA Induction ==
    ASSUME NEW S, 0 \in S, \A n \in Nat : n \in S => n + 1 \in S
    PROVE  Nat \subseteq S
<1>1. SUFFICES ASSUME Nat \ S # {} PROVE FALSE
  OBVIOUS
<1>2. \A y, z \in Nat : y < z => <<y, z>> \in OpToRel(<, Nat)
  BY DEF OpToRel
<1>3. PICK x \in Nat \ S : \A y \in Nat \ S : <<y, x>> \notin OpToRel(<, Nat)
  BY <1>1, WFMin, NatLessThanWellFounded
<1>4. x \in Nat /\ x # 0 /\ x - 1 \in Nat /\ x - 1 < x
  OBVIOUS
<1>5. x - 1 \in S
  BY <1>2, <1>3, <1>4
<1>6. (x - 1) + 1 \in S
  BY <1>4, <1>5
<1>7. (x - 1) + 1 = x
  BY <1>4
<1> QED
  BY <1>6, <1>7

\* Numbers have a least one, which is what Min is.
LEMMA MinIsLeast ==
    ASSUME NEW S \in SUBSET Nat, S # {}
    PROVE  Min(S) \in S /\ \A y \in S : Min(S) <= y
<1>1. \A y, z \in Nat : y < z => <<y, z>> \in OpToRel(<, Nat)
  BY DEF OpToRel
<1>2. PICK x \in S : \A y \in S : <<y, x>> \notin OpToRel(<, Nat)
  BY WFMin, NatLessThanWellFounded
<1>3. ASSUME NEW y \in S PROVE x <= y
  <2>1. x \in Nat /\ y \in Nat /\ ~(y < x)
    BY <1>1, <1>2
  <2> QED
    BY <2>1
<1> QED
  BY <1>3 DEF Min

Recurs(f, n, base, step) == f[0] = base /\ \A k \in 1..n : f[k] = step[k][f[k - 1]]

\* A recursion from a base by steps within V defines a function into V.
LEMMA Recursion ==
    ASSUME NEW V, NEW n \in Nat, NEW base \in V, NEW step \in [1..n -> [V -> V]]
    PROVE  \E f \in [0..n -> V] : Recurs(f, n, base, step)
<1> DEFINE Follows(f, m) == f = [k \in 0..m |-> IF k = 0 THEN base ELSE step[k][f[k - 1]]]
           S == {m \in Nat : m <= n => \E f \in [0..m -> V] : Follows(f, m)}
<1>1. 0 \in S
  <2>1. Follows([k \in 0..0 |-> base], 0) /\ [k \in 0..0 |-> base] \in [0..0 -> V]
    OBVIOUS
  <2> QED
    BY <2>1
<1>2. ASSUME NEW m \in Nat, m \in S PROVE m + 1 \in S
  <2>1. SUFFICES ASSUME m + 1 <= n PROVE \E f \in [0..m+1 -> V] : Follows(f, m + 1)
    OBVIOUS
  <2>2. PICK f \in [0..m -> V] : Follows(f, m)
    BY <1>2, <2>1
  <2> DEFINE g == [k \in 0..m+1 |-> IF k = m + 1 THEN step[k][f[m]] ELSE f[k]]
  <2>3. f[m] \in V /\ m + 1 \in 1..n
    BY <2>1
  <2>4. step[m + 1][f[m]] \in V
    BY <2>3
  <2>5. g \in [0..m+1 -> V]
    BY <2>4
  <2>6. ASSUME NEW k \in 0..m+1
        PROVE  g[k] = IF k = 0 THEN base ELSE step[k][g[k - 1]]
    <3>1. CASE k = m + 1
      BY <3>1
    <3>2. CASE k # m + 1
      <4>1. k \in 0..m /\ (k # 0 => k - 1 \in 0..m /\ k - 1 # m + 1)
        BY <3>2
      <4>2. f[k] = IF k = 0 THEN base ELSE step[k][f[k - 1]]
        BY <2>2, <4>1
      <4> QED
        BY <4>1, <4>2, <3>2
    <3> QED
      BY <3>1, <3>2
  <2>7. Follows(g, m + 1)
    BY <2>6
  <2> QED
    BY <2>5, <2>7
<1> HIDE DEF S
<1>3. n \in S
  BY <1>1, <1>2, Induction
<1>4. PICK f \in [0..n -> V] : Follows(f, n)
  BY <1>3 DEF S
<1>5. Recurs(f, n, base, step)
  BY <1>4 DEF Recurs
<1> QED
  BY <1>5

\* The function that a definition chooses has its values in V as well.
LEMMA RecursionStays ==
    ASSUME NEW V, NEW n \in Nat, NEW f,
           f = [k \in 0..n |-> f[k]],
           f[0] \in V, \A k \in 1..n : f[k - 1] \in V => f[k] \in V
    PROVE  \A k \in 0..n : f[k] \in V
<1> DEFINE S == {m \in Nat : m <= n => f[m] \in V}
<1>1. 0 \in S
  OBVIOUS
<1>2. ASSUME NEW m \in Nat, m \in S PROVE m + 1 \in S
  <2>1. SUFFICES ASSUME m + 1 <= n PROVE f[m + 1] \in V
    OBVIOUS
  <2>2. m + 1 \in 1..n /\ (m + 1) - 1 = m /\ f[m] \in V
    BY <1>2, <2>1
  <2> QED
    BY <2>2
<1> HIDE DEF S
<1>3. Nat \subseteq S
  BY <1>1, <1>2, Induction
<1> QED
  BY <1>3 DEF S

--------------------------------------------------------------------------------
(* Sequences, of whatever they are.                                            *)

IsSeq(s) == s \in Seq(Range(s))

\* A sequence over any set is one over its own elements.
LEMMA SeqIsSeq == ASSUME NEW S, NEW s \in Seq(S) PROVE IsSeq(s)
<1>1. s \in [1..Len(s) -> S] /\ Len(s) \in Nat
  BY LenProperties
<1>2. s \in [1..Len(s) -> Range(s)]
  BY <1>1 DEF Range
<1> QED
  BY <1>1, <1>2, SeqDef DEF IsSeq

\* Its places are the numbers up to its length.
LEMMA IsSeqLen ==
    ASSUME NEW s, IsSeq(s)
    PROVE  Len(s) \in Nat /\ DOMAIN s = 1..Len(s) /\ (s # <<>> => Len(s) > 0)
BY DEF IsSeq

\* What Append, \o and Tail make of sequences, and how long that is.
LEMMA AppendIsSeq ==
    ASSUME NEW s, IsSeq(s), NEW x
    PROVE  IsSeq(Append(s, x)) /\ Len(Append(s, x)) = Len(s) + 1
<1> DEFINE T == Range(s) \cup {x}
<1>1. s \in Seq(T)
  BY SeqMonotonic DEF IsSeq
<1>2. Append(s, x) \in Seq(T) /\ Len(Append(s, x)) = Len(s) + 1
  BY <1>1
<1> QED
  BY <1>2, SeqIsSeq

\* One sequence behind another.
LEMMA ConcatIsSeq ==
    ASSUME NEW s, IsSeq(s), NEW t, IsSeq(t)
    PROVE  IsSeq(s \o t) /\ Len(s \o t) = Len(s) + Len(t)
<1> DEFINE T == Range(s) \cup Range(t)
<1>1. s \in Seq(T) /\ t \in Seq(T)
  BY SeqMonotonic DEF IsSeq
<1>2. s \o t \in Seq(T) /\ Len(s \o t) = Len(s) + Len(t)
  BY <1>1, ConcatProperties
<1> QED
  BY <1>2, SeqIsSeq

\* All but the first.
LEMMA TailIsSeq ==
    ASSUME NEW s, IsSeq(s), s # <<>>
    PROVE  IsSeq(Tail(s)) /\ Len(Tail(s)) = Len(s) - 1
<1>1. Tail(s) \in Seq(Range(s)) /\ Len(Tail(s)) = Len(s) - 1
  BY DEF IsSeq
<1> QED
  BY <1>1, SeqIsSeq

\* A part of a sequence between two of its places, which may be empty.
LEMMA SubSeqIsSeq ==
    ASSUME NEW s, IsSeq(s), NEW m \in Nat \ {0}, NEW n \in Int, n <= Len(s)
    PROVE  IsSeq(SubSeq(s, m, n)) /\ Len(SubSeq(s, m, n)) = IF m <= n THEN n - m + 1 ELSE 0
<1>1. \A i \in m..n : s[i] \in Range(s)
  BY IsSeqLen DEF Range
<1>2. /\ SubSeq(s, m, n) \in Seq(Range(s))
      /\ Len(SubSeq(s, m, n)) = IF m <= n THEN n - m + 1 ELSE 0
  BY <1>1, SubSeqProperties
<1> QED
  BY <1>2, SeqIsSeq

\* The sequences of no element and of one.
LEMMA TuplesAreSeqs == IsSeq(<<>>) /\ \A x : IsSeq(<<x>>)
<1>1. <<>> \in Seq({}) /\ \A x : <<x>> \in Seq({x})
  OBVIOUS
<1> QED
  BY <1>1, SeqIsSeq

\* A finite set in some order.
LEMMA OrderIsSeq ==
    ASSUME NEW S, IsFiniteSet(S) PROVE SetToSeq(S) \in Seq(S) /\ IsSeq(SetToSeq(S))
<1>1. Cardinality(S) \in Nat /\ ExistsBijection(1..Cardinality(S), S)
  BY FS_CardinalityType, FS_NatBijection, Zenon
<1>2. PICK f : f \in Bijection(1..Cardinality(S), S)
  BY <1>1, Zenon DEF ExistsBijection
<1>3. f \in [1..Cardinality(S) -> S] /\ IsInjective(f)
  BY <1>2, Zenon DEF Bijection, Injection
<1>4. SetToSeq(S) \in [1..Cardinality(S) -> S]
  BY <1>3, Zenon DEF SetToSeq
<1>5. SetToSeq(S) \in Seq(S)
  BY <1>1, <1>4, SeqDef
<1> QED
  BY <1>5, SeqIsSeq

\* A sequence without its last element.
LEMMA FrontIsSeq == ASSUME NEW s, IsSeq(s) PROVE IsSeq(Front(s))
<1>1. Len(s) \in Nat
  BY IsSeqLen
<1>2. Len(s) - 1 \in Int /\ Len(s) - 1 <= Len(s) /\ 1 \in Nat \ {0}
  BY <1>1
<1>3. IsSeq(SubSeq(s, 1, Len(s) - 1))
  BY <1>2, SubSeqIsSeq
<1> QED
  BY <1>3 DEF Front

--------------------------------------------------------------------------------
(* Paths: what is found in the vault is there.                                 *)

\* A sequence without its last element, and with it again.
LEMMA FrontIn ==
    ASSUME NEW S, NEW s \in Seq(S), s # <<>>
    PROVE  Front(s) \in Seq(S) /\ Append(Front(s), s[Len(s)]) = s
<1>1. Len(s) \in Nat /\ Len(s) > 0 /\ DOMAIN s = 1..Len(s)
  OBVIOUS
<1>2. /\ Front(s) \in Seq(S) /\ Len(Front(s)) = Len(s) - 1
      /\ \A i \in 1..Len(s)-1 : Front(s)[i] = s[i]
  BY <1>1 DEF Front
<1>3. Append(Front(s), s[Len(s)]) \in Seq(S) /\ Len(Append(Front(s), s[Len(s)])) = Len(s)
  <2>1. s[Len(s)] \in S
    BY <1>1
  <2>2. /\ Append(Front(s), s[Len(s)]) \in Seq(S)
        /\ Len(Append(Front(s), s[Len(s)])) = Len(Front(s)) + 1
    BY <1>2, <2>1
  <2> QED
    BY <1>1, <1>2, <2>2
<1>4. \A i \in 1..Len(s) : Append(Front(s), s[Len(s)])[i] = s[i]
  BY <1>1, <1>2
<1> QED
  BY <1>2, <1>3, <1>4, SeqEqual

\* The results of dropping "." and ".." from ever longer parts of a path.
Normalizes(to, raw) ==
    /\ to = [k \in 0..Len(raw) |-> to[k]] /\ to[0] = Found(<<>>)
    /\ \A k \in 1..Len(raw) : to[k] = Component(to[k - 1], raw[k])

\* What normalizing may come to: a path, or an error.
Normalized(raw) == [err : {"none", "invalid", "outside"}, path : Seq(Range(raw))]

\* One component makes a path of a path, or an error.
LEMMA ComponentIs ==
    ASSUME NEW raw, IsSeq(raw), NEW r \in Normalized(raw), NEW k \in 1..Len(raw)
    PROVE  Component(r, raw[k]) \in Normalized(raw)
<1>1. raw[k] \in Range(raw)
  BY IsSeqLen DEF Range
<1>2. Append(r.path, raw[k]) \in Seq(Range(raw))
  BY <1>1 DEF Normalized
<1>3. r.path # <<>> => Front(r.path) \in Seq(Range(raw))
  BY FrontIn DEF Normalized
<1>4. <<>> \in Seq(Range(raw))
  OBVIOUS
<1> QED
  BY <1>2, <1>3, <1>4 DEF Component, Found, Error, Normalized

\* Normalizing goes component by component.
LEMMA NormSteps ==
    ASSUME NEW raw, IsSeq(raw)
    PROVE  \E to : Normalizes(to, raw) /\ NormalizeRelative(raw) = to[Len(raw)]
<1> DEFINE n == Len(raw)
           V == Normalized(raw)
           base == Found(<<>>)
           step == [k \in 1..n |-> [r \in V |-> Component(r, raw[k])]]
           Follows(f) == f = [k \in 0..n |-> IF k = 0 THEN base
                                             ELSE Component(f[k - 1], raw[k])]
           to == CHOOSE f : Follows(f)
<1>1. n \in Nat /\ DOMAIN raw = 1..n
  BY IsSeqLen
<1>2. base \in V
  BY DEF Found, Normalized
<1>3. \A r \in V : \A k \in 1..n : Component(r, raw[k]) \in V
  BY ComponentIs
<1> HIDE DEF base, n
<1>4. step \in [1..n -> [V -> V]]
  BY <1>3
<1> HIDE DEF step, V
<1>5. PICK f \in [0..n -> V] : Recurs(f, n, base, step)
  BY <1>1, <1>2, <1>4, Recursion
<1>6. Follows(f)
  <2>1. ASSUME NEW k \in 0..n
        PROVE  f[k] = IF k = 0 THEN base ELSE Component(f[k - 1], raw[k])
    <3>1. CASE k = 0
      BY <3>1, <1>5 DEF Recurs
    <3>2. CASE k # 0
      <4>1. k \in 1..n /\ k - 1 \in 0..n
        BY <1>1, <3>2
      <4>2. f[k] = step[k][f[k - 1]]
        BY <1>5, <4>1 DEF Recurs
      <4>3. f[k - 1] \in V
        BY <4>1
      <4>4. step[k][f[k - 1]] = Component(f[k - 1], raw[k])
        BY <4>1, <4>3 DEF step
      <4> QED
        BY <3>2, <4>2, <4>4
    <3> QED
      BY <3>1, <3>2
  <2> QED
    BY <2>1
<1>7. Follows(to)
  BY <1>6, Zenon
<1> HIDE DEF to
<1>8. to = [k \in 0..n |-> to[k]] /\ to[0] = base
  BY <1>1, <1>7
<1>9. ASSUME NEW k \in 1..n PROVE to[k] = Component(to[k - 1], raw[k])
  <2>1. k \in 0..n /\ k # 0
    BY <1>1
  <2> QED
    BY <1>7, <2>1
<1>10. NormalizeRelative(raw) = to[n]
  BY Zenon DEF NormalizeRelative, to, base, n
<1>11. Normalizes(to, raw)
  BY <1>8, <1>9 DEF Normalizes, base, n
<1> QED
  BY <1>10, <1>11 DEF n

\* A request's path, without "." and "..", is a path.
LEMMA NormalizedIs ==
    ASSUME NEW raw, IsSeq(raw) PROVE NormalizeRelative(raw) \in Normalized(raw)
<1>1. PICK to : Normalizes(to, raw) /\ NormalizeRelative(raw) = to[Len(raw)]
  BY NormSteps
<1>2. Len(raw) \in Nat
  BY IsSeqLen
<1>3. to[0] \in Normalized(raw)
  <2>1. <<>> \in Seq(Range(raw))
    OBVIOUS
  <2>2. to[0] = [err |-> "none", path |-> <<>>]
    BY <1>1 DEF Normalizes, Found
  <2> QED
    BY <2>1, <2>2 DEF Normalized
<1>4. \A k \in 1..Len(raw) : to[k - 1] \in Normalized(raw) => to[k] \in Normalized(raw)
  BY <1>1, ComponentIs DEF Normalizes
<1>5. \A k \in 0..Len(raw) : to[k] \in Normalized(raw)
  BY <1>1, <1>2, <1>3, <1>4, RecursionStays DEF Normalizes
<1> QED
  BY <1>1, <1>2, <1>5

\* A tree has a root, and its nodes have paths.
IsTree(tree) == <<>> \in Nodes(tree) /\ \A p \in Nodes(tree) : IsSeq(p)

\* What the steps of a walk may come to: a node, or an error.
Results(tree) ==
    {r \in [err : {"none", "invalid", "outside", "missing", "io"}, path : Nodes(tree) \cup {<<>>}] :
        r.err = "none" => r.path \in Nodes(tree)}

\* A step down the tree finds a node or fails.
LEMMA StepFinds ==
    ASSUME NEW tree, IsTree(tree), NEW r \in Results(tree), NEW name
    PROVE  Step(tree, r, name) \in Results(tree)
<1> DEFINE entries == Children(tree, r.path)
           Good(x) == x \in Results(tree)
<1>1. \A why \in {"invalid", "outside", "missing", "io"} : Good(Error(why))
  BY DEF Error, Results
<1>2. ASSUME r.err = "none", NEW e \in entries PROVE Good(Found(Append(r.path, e)))
  <2>1. PICK p \in Nodes(tree) : p # <<>> /\ Front(p) = r.path /\ e = p[Len(p)]
    BY <1>2 DEF Children
  <2>2. p \in Seq(Range(p))
    BY DEF IsTree, IsSeq
  <2>3. Append(r.path, e) = p
    BY <2>1, <2>2, FrontIn
  <2> QED
    BY <2>3 DEF Found, Results
<1> HIDE DEF entries
<1>3. ASSUME r.err = "none", NEW S \in SUBSET entries PROVE Good(Only(r.path, S))
  <2>1. S # {} => (CHOOSE e \in S : TRUE) \in entries
    OBVIOUS
  <2> QED
    BY <1>1, <1>2, <1>3, <2>1 DEF Only
<1>4. ASSUME r.err = "none" PROVE Good(FindComponent(r.path, name, entries))
  <2>1. Alike(entries, name) \in SUBSET entries
    BY DEF Alike
  <2> QED
    BY <1>2, <1>3, <1>4, <2>1 DEF FindComponent
<1>5. \A x : Good(x) => Good(Inside(tree, x))
  BY <1>1 DEF Inside
<1> HIDE DEF Good
<1>6. CASE r.err # "none"
  BY <1>6 DEF Step, Good
<1>7. CASE r.err = "none"
  <2>1. Step(tree, r, name) = IF r.path \in tree.files THEN Error("io")
                              ELSE Inside(tree, FindComponent(r.path, name, entries))
    BY <1>7 DEF Step, entries
  <2>2. Good(Error("io")) /\ Good(Inside(tree, FindComponent(r.path, name, entries)))
    BY <1>1, <1>4, <1>5, <1>7
  <2> QED
    BY <2>1, <2>2 DEF Good
<1> QED
  BY <1>6, <1>7 DEF Good

\* A walk goes step by step.
Walks(to, tree, path) ==
    /\ to = [k \in 0..Len(path) |-> to[k]] /\ to[0] = Found(<<>>)
    /\ \A k \in 1..Len(path) : to[k] = Step(tree, to[k - 1], path[k])

\* A walk goes name by name.
LEMMA WalkSteps ==
    ASSUME NEW tree, IsTree(tree), NEW path, IsSeq(path)
    PROVE  Walks(Walk(tree, path), tree, path)
<1> DEFINE n == Len(path)
           V == Results(tree)
           base == Found(<<>>)
           step == [k \in 1..n |-> [r \in V |-> Step(tree, r, path[k])]]
           Follows(f) == f = [k \in 0..n |-> IF k = 0 THEN base
                                             ELSE Step(tree, f[k - 1], path[k])]
           to == CHOOSE f : Follows(f)
<1>1. n \in Nat
  BY IsSeqLen
<1>2. base \in V
  BY DEF Found, Results, IsTree
<1>3. \A r \in V : \A k \in 1..n : Step(tree, r, path[k]) \in V
  BY StepFinds
<1> HIDE DEF base, n
<1>4. step \in [1..n -> [V -> V]]
  BY <1>3
<1> HIDE DEF step, V
<1>5. PICK f \in [0..n -> V] : Recurs(f, n, base, step)
  BY <1>1, <1>2, <1>4, Recursion
<1>6. Follows(f)
  <2>1. ASSUME NEW k \in 0..n
        PROVE  f[k] = IF k = 0 THEN base ELSE Step(tree, f[k - 1], path[k])
    <3>1. CASE k = 0
      BY <3>1, <1>5 DEF Recurs
    <3>2. CASE k # 0
      <4>1. k \in 1..n /\ k - 1 \in 0..n
        BY <1>1, <3>2
      <4>2. f[k] = step[k][f[k - 1]]
        BY <1>5, <4>1 DEF Recurs
      <4>3. f[k - 1] \in V
        BY <4>1
      <4>4. step[k][f[k - 1]] = Step(tree, f[k - 1], path[k])
        BY <4>1, <4>3 DEF step
      <4> QED
        BY <3>2, <4>2, <4>4
    <3> QED
      BY <3>1, <3>2
  <2> QED
    BY <2>1
<1>7. Follows(to)
  BY <1>6, Zenon
<1> HIDE DEF to
<1>8. to = [k \in 0..n |-> to[k]] /\ to[0] = base
  BY <1>1, <1>7
<1>9. ASSUME NEW k \in 1..n PROVE to[k] = Step(tree, to[k - 1], path[k])
  <2>1. k \in 0..n /\ k # 0
    BY <1>1
  <2> QED
    BY <1>7, <2>1
<1>10. Walk(tree, path) = to
  BY Zenon DEF Walk, to, base, n
<1>11. Walks(to, tree, path)
  BY <1>8, <1>9 DEF Walks, base, n
<1> QED
  BY <1>10, <1>11

\* Each of its results is a node or an error.
LEMMA WalkFinds ==
    ASSUME NEW tree, IsTree(tree), NEW path, IsSeq(path)
    PROVE  /\ Walk(tree, path)[0] = Found(<<>>)
           /\ \A k \in 0..Len(path) : Walk(tree, path)[k] \in Results(tree)
<1> DEFINE to == Walk(tree, path)
<1>1. Walks(to, tree, path) /\ Len(path) \in Nat
  BY WalkSteps, IsSeqLen
<1> HIDE DEF to
<1>2. to[0] \in Results(tree)
  BY <1>1 DEF Walks, Found, Results, IsTree
<1>3. \A k \in 1..Len(path) : to[k - 1] \in Results(tree) => to[k] \in Results(tree)
  BY <1>1, StepFinds DEF Walks
<1>4. \A k \in 0..Len(path) : to[k] \in Results(tree)
  BY <1>1, <1>2, <1>3, RecursionStays DEF Walks
<1> QED
  BY <1>1, <1>4 DEF Walks, to

\* A path that resolve_existing accepts leads to a file or a directory of the
\* vault, whatever the request has spelt (path.rs).
THEOREM ResolvedIsThere ==
    ASSUME NEW tree, IsTree(tree), NEW raw, IsSeq(raw),
           ResolveExisting(tree, raw).err = "none"
    PROVE  ResolveExisting(tree, raw).path \in Nodes(tree)
<1> DEFINE r == NormalizeRelative(raw)
<1>1. r.path \in Seq(Range(raw))
  BY NormalizedIs DEF Normalized
<1>2. IsSeq(r.path)
  BY <1>1, SeqIsSeq
<1>3. Len(r.path) \in 0..Len(r.path)
  BY <1>2, IsSeqLen
<1>4. Walk(tree, r.path)[Len(r.path)] \in Results(tree)
  BY <1>2, <1>3, WalkFinds
<1>5. ResolveExisting(tree, raw) = IF r.err # "none" THEN r
                                   ELSE Walk(tree, r.path)[Len(r.path)]
  BY DEF ResolveExisting, Existing
<1> HIDE DEF r
<1> QED
  BY <1>4, <1>5 DEF Results

--------------------------------------------------------------------------------
(* Vaults.                                                                     *)

\* The vault is a tree of names, of which none is "." or "..", with files in
\* directories; the index counts as excluded what is.
Plain(p) == Range(p) \cap {Up, Here, Root} = {}
IsVault(tree) ==
    /\ IsTree(tree) /\ tree.files \cap tree.dirs = {}
    /\ tree.links \subseteq tree.dirs \ {<<>>}
    /\ \A p \in Nodes(tree) : Plain(p) /\ Parents(p) \subseteq tree.dirs

--------------------------------------------------------------------------------
(* Beginnings of a path.                                                       *)

\* The first i names of a path are a path of that length.
LEMMA PrefixIs ==
    ASSUME NEW p, IsSeq(p), NEW i \in 0..Len(p)
    PROVE  /\ IsSeq(SubSeq(p, 1, i)) /\ Len(SubSeq(p, 1, i)) = i
           /\ \A j \in 1..i : SubSeq(p, 1, i)[j] = p[j]
<1>1. Len(p) \in Nat
  BY IsSeqLen
<1>2. 1 \in Nat \ {0} /\ i \in Int /\ i <= Len(p) /\ (IF 1 <= i THEN i - 1 + 1 ELSE 0) = i
  BY <1>1
<1>3. IsSeq(SubSeq(p, 1, i)) /\ Len(SubSeq(p, 1, i)) = i
  BY <1>2, SubSeqIsSeq
<1>4. \A j \in 1..i : p[j] \in Range(p)
  BY <1>1, IsSeqLen DEF Range
<1>5. \A j \in 1..i : SubSeq(p, 1, i)[j] = p[1 + j - 1]
  BY <1>2, <1>4, SubSeqProperties
<1>6. ASSUME NEW j \in 1..i PROVE 1 + j - 1 = j
  OBVIOUS
<1> QED
  BY <1>3, <1>5, <1>6

\* Two paths with the same names are the same.
LEMMA SamePath ==
    ASSUME NEW p, IsSeq(p), NEW q, IsSeq(q), Len(p) = Len(q), \A i \in 1..Len(p) : p[i] = q[i]
    PROVE  p = q
<1> DEFINE T == Range(p) \cup Range(q)
<1>1. p \in Seq(T) /\ q \in Seq(T)
  BY SeqMonotonic DEF IsSeq
<1> QED
  BY <1>1, SeqEqual

\* What a name at the end adds.
LEMMA AppendIs ==
    ASSUME NEW p, IsSeq(p), NEW x
    PROVE  /\ Append(p, x)[Len(p) + 1] = x /\ Append(p, x) # <<>>
           /\ \A i \in 1..Len(p) : Append(p, x)[i] = p[i]
<1> DEFINE T == Range(p) \cup {x}
<1>1. p \in Seq(T) /\ x \in T
  BY SeqMonotonic DEF IsSeq
<1> HIDE DEF T
<1>2. /\ Append(p, x) \in Seq(T) /\ Len(Append(p, x)) = Len(p) + 1
      /\ \A i \in 1..Len(p) : Append(p, x)[i] = p[i]
      /\ Append(p, x)[Len(p) + 1] = x
  BY <1>1, AppendProperties
<1>3. Len(p) \in Nat
  BY IsSeqLen
<1>4. Append(p, x) # <<>>
  BY <1>2, <1>3
<1> QED
  BY <1>2, <1>4

\* What was there before the last name.
LEMMA FrontOfAppend ==
    ASSUME NEW p, IsSeq(p), NEW x PROVE Front(Append(p, x)) = p
<1> DEFINE q == Append(p, x)
<1>1. /\ IsSeq(q) /\ Len(q) = Len(p) + 1 /\ \A i \in 1..Len(p) : q[i] = p[i]
      /\ Len(p) \in Nat
  BY AppendIsSeq, AppendIs, IsSeqLen
<1> HIDE DEF q
<1>2. Front(q) = SubSeq(q, 1, Len(p))
  BY <1>1 DEF Front
<1>3. /\ IsSeq(SubSeq(q, 1, Len(p))) /\ Len(SubSeq(q, 1, Len(p))) = Len(p)
      /\ \A j \in 1..Len(p) : SubSeq(q, 1, Len(p))[j] = q[j]
  BY <1>1, PrefixIs
<1>4. Front(q) = p
  BY <1>1, <1>2, <1>3, SamePath
<1> QED
  BY <1>4 DEF q

\* From one beginning to the next, from the root to the whole path.
LEMMA NextPrefix ==
    ASSUME NEW p, IsSeq(p), NEW i \in Nat, i + 1 <= Len(p)
    PROVE  SubSeq(p, 1, i + 1) = Append(SubSeq(p, 1, i), p[i + 1])
<1> DEFINE s == SubSeq(p, 1, i)
           q == SubSeq(p, 1, i + 1)
           a == Append(s, p[i + 1])
<1>1. Len(p) \in Nat /\ i \in 0..Len(p) /\ i + 1 \in 0..Len(p)
  BY IsSeqLen
<1>2. IsSeq(s) /\ Len(s) = i /\ \A j \in 1..i : s[j] = p[j]
  BY <1>1, PrefixIs
<1>3. IsSeq(q) /\ Len(q) = i + 1 /\ \A j \in 1..i+1 : q[j] = p[j]
  BY <1>1, PrefixIs
<1> HIDE DEF s, q
<1>4. /\ IsSeq(a) /\ Len(a) = i + 1 /\ a[i + 1] = p[i + 1]
      /\ \A j \in 1..i : a[j] = s[j]
  BY <1>2, AppendIsSeq, AppendIs
<1> HIDE DEF a
<1>5. \A j \in 1..i+1 : q[j] = a[j]
  BY <1>2, <1>3, <1>4
<1>6. q = a
  BY <1>3, <1>4, <1>5, SamePath
<1> QED
  BY <1>6 DEF a, q, s

\* The whole path, and none of it.
LEMMA EndsOfPrefix ==
    ASSUME NEW p, IsSeq(p)
    PROVE  SubSeq(p, 1, Len(p)) = p /\ SubSeq(p, 1, 0) = <<>>
<1>1. Len(p) \in Nat /\ Len(p) \in 0..Len(p) /\ 0 \in 0..Len(p)
  BY IsSeqLen
<1>2. SubSeq(p, 1, Len(p)) = p
  BY <1>1, PrefixIs, SamePath
<1>3. IsSeq(SubSeq(p, 1, 0)) /\ Len(SubSeq(p, 1, 0)) = 0
  BY <1>1, PrefixIs
<1>4. SubSeq(p, 1, 0) = <<>>
  BY <1>3, IsSeqLen
<1> QED
  BY <1>2, <1>4

\* A beginning of a beginning.
LEMMA PrefixOfPrefix ==
    ASSUME NEW p, IsSeq(p), NEW i \in 0..Len(p), NEW j \in 0..i
    PROVE  SubSeq(SubSeq(p, 1, i), 1, j) = SubSeq(p, 1, j)
<1> DEFINE s == SubSeq(p, 1, i)
           a == SubSeq(s, 1, j)
           b == SubSeq(p, 1, j)
<1>1. Len(p) \in Nat /\ j \in 0..Len(p)
  BY IsSeqLen
<1>2. IsSeq(s) /\ Len(s) = i /\ \A k \in 1..i : s[k] = p[k]
  BY PrefixIs
<1>3. IsSeq(b) /\ Len(b) = j /\ \A k \in 1..j : b[k] = p[k]
  BY <1>1, PrefixIs
<1> HIDE DEF s, b
<1>4. IsSeq(a) /\ Len(a) = j /\ \A k \in 1..j : a[k] = s[k]
  BY <1>2, PrefixIs
<1> HIDE DEF a
<1>5. \A k \in 1..j : k \in 1..i
  OBVIOUS
<1>6. a = b
  BY <1>2, <1>3, <1>4, <1>5, SamePath
<1> QED
  BY <1>6 DEF a, b, s

\* One more name leaves the beginnings as they are.
LEMMA PrefixOfAppend ==
    ASSUME NEW p, IsSeq(p), NEW x, NEW i \in 0..Len(p)
    PROVE  SubSeq(Append(p, x), 1, i) = SubSeq(p, 1, i)
<1> DEFINE q == Append(p, x)
           a == SubSeq(q, 1, i)
           b == SubSeq(p, 1, i)
<1>1. /\ IsSeq(q) /\ Len(q) = Len(p) + 1 /\ \A k \in 1..Len(p) : q[k] = p[k]
      /\ Len(p) \in Nat
  BY AppendIsSeq, AppendIs, IsSeqLen
<1> HIDE DEF q
<1>2. i \in 0..Len(q)
  BY <1>1
<1>3. IsSeq(a) /\ Len(a) = i /\ \A k \in 1..i : a[k] = q[k]
  BY <1>1, <1>2, PrefixIs
<1>4. IsSeq(b) /\ Len(b) = i /\ \A k \in 1..i : b[k] = p[k]
  BY PrefixIs
<1> HIDE DEF a, b
<1>5. \A k \in 1..i : k \in 1..Len(p)
  BY <1>1
<1>6. a = b
  BY <1>1, <1>3, <1>4, <1>5, SamePath
<1> QED
  BY <1>6 DEF a, b, q

\* No name of a beginning is new.
LEMMA PlainPrefix ==
    ASSUME NEW p, IsSeq(p), Plain(p), NEW i \in 0..Len(p) PROVE Plain(SubSeq(p, 1, i))
<1>1. /\ IsSeq(SubSeq(p, 1, i)) /\ Len(SubSeq(p, 1, i)) = i
      /\ \A j \in 1..i : SubSeq(p, 1, i)[j] = p[j]
  BY PrefixIs
<1>2. \A j \in 1..i : j \in 1..Len(p)
  BY IsSeqLen
<1>3. DOMAIN SubSeq(p, 1, i) = 1..i /\ DOMAIN p = 1..Len(p)
  BY <1>1, IsSeqLen
<1> QED
  BY <1>1, <1>2, <1>3 DEF Plain, Range

--------------------------------------------------------------------------------
(* What path.rs makes of a path: names only; of a place's path, that path.     *)

\* A path that is normalized has names only.
LEMMA NormalizedIsPlain ==
    ASSUME NEW raw, IsSeq(raw), NormalizeRelative(raw).err = "none"
    PROVE  Plain(NormalizeRelative(raw).path)
<1> DEFINE V == {r \in Normalized(raw) : r.err = "none" => Plain(r.path)}
<1>1. PICK to : Normalizes(to, raw) /\ NormalizeRelative(raw) = to[Len(raw)]
  BY NormSteps
<1>2. Len(raw) \in Nat
  BY IsSeqLen
<1>3. to[0] \in V
  BY <1>1 DEF Normalizes, Normalized, Found, Plain, Range
<1>4. ASSUME NEW k \in 1..Len(raw), to[k - 1] \in V PROVE to[k] \in V
  <2> DEFINE r == to[k - 1]
             x == raw[k]
  <2>1. to[k] = Component(r, x) /\ to[k] \in Normalized(raw)
    BY <1>1, <1>4, ComponentIs DEF Normalizes
  <2>2. r \in Normalized(raw) /\ (r.err = "none" => Plain(r.path)) /\ IsSeq(r.path)
    <3>1. r \in Normalized(raw) /\ (r.err = "none" => Plain(r.path))
      BY <1>4
    <3> QED
      BY <3>1, SeqIsSeq DEF Normalized
  <2> HIDE DEF r, x
  <2>3. CASE r.err # "none" \/ x = Here
    BY <2>1, <2>2, <2>3 DEF Component
  <2>4. CASE r.err = "none" /\ x # Here /\ x = Root
    BY <2>1, <2>4 DEF Component, Error
  <2>5. CASE r.err = "none" /\ x # Here /\ x # Root /\ x # Up
    <3>1. to[k] = Found(Append(r.path, x))
      BY <2>1, <2>5 DEF Component
    <3>2. /\ IsSeq(Append(r.path, x)) /\ Len(Append(r.path, x)) = Len(r.path) + 1
          /\ \A i \in 1..Len(r.path) : Append(r.path, x)[i] = r.path[i]
          /\ Append(r.path, x)[Len(r.path) + 1] = x /\ Len(r.path) \in Nat
      BY <2>2, AppendIsSeq, AppendIs, IsSeqLen
    <3>3. DOMAIN r.path = 1..Len(r.path) /\ DOMAIN Append(r.path, x) = 1..Len(r.path)+1
      BY <2>2, <3>2, IsSeqLen
    <3>4. Plain(r.path)
      BY <2>2, <2>5
    <3>5. ASSUME NEW i \in 1..Len(r.path)+1 PROVE Append(r.path, x)[i] \notin {Up, Here, Root}
      <4>1. i \in 1..Len(r.path) \/ i = Len(r.path) + 1
        BY <3>2
      <4> QED
        BY <2>5, <3>2, <3>3, <3>4, <4>1 DEF Plain, Range
    <3>6. Plain(Append(r.path, x))
      BY <3>3, <3>5 DEF Plain, Range
    <3>7. Found(Append(r.path, x)).path = Append(r.path, x)
      BY DEF Found
    <3> QED
      BY <2>1, <3>1, <3>6, <3>7
  <2>6. CASE r.err = "none" /\ x # Here /\ x # Root /\ x = Up
    <3>1. to[k] = IF r.path = <<>> THEN Error("outside") ELSE Found(Front(r.path))
      BY <2>1, <2>6 DEF Component
    <3>2. CASE r.path = <<>>
      BY <2>1, <3>1, <3>2 DEF Error
    <3>3. CASE r.path # <<>>
      <4>1. Len(r.path) \in Nat /\ Len(r.path) > 0
        BY <2>2, <3>3, IsSeqLen
      <4>2. Len(r.path) - 1 \in 0..Len(r.path)
        BY <4>1
      <4>3. Front(r.path) = SubSeq(r.path, 1, Len(r.path) - 1)
        BY DEF Front
      <4>4. Plain(Front(r.path))
        BY <2>2, <2>6, <4>2, <4>3, PlainPrefix
      <4>5. Found(Front(r.path)).path = Front(r.path)
        BY DEF Found
      <4> QED
        BY <2>1, <3>1, <3>3, <4>4, <4>5
    <3> QED
      BY <3>2, <3>3
  <2> QED
    BY <2>3, <2>4, <2>5, <2>6
<1> HIDE DEF V
<1>5. \A k \in 0..Len(raw) : to[k] \in V
  BY <1>1, <1>2, <1>3, <1>4, RecursionStays DEF Normalizes
<1>6. to[Len(raw)] \in V
  BY <1>2, <1>5
<1> QED
  BY <1>1, <1>6 DEF V

\* A path of names only is normalized already.
LEMMA NormalizedPlace ==
    ASSUME NEW p, IsSeq(p), Plain(p) PROVE NormalizeRelative(p) = Found(p)
<1>1. PICK to : Normalizes(to, p) /\ NormalizeRelative(p) = to[Len(p)]
  BY NormSteps
<1> DEFINE T == {k \in Nat : k <= Len(p) => to[k] = Found(SubSeq(p, 1, k))}
<1>2. Len(p) \in Nat /\ DOMAIN p = 1..Len(p)
  BY IsSeqLen
<1>3. 0 \in T
  BY <1>1, EndsOfPrefix DEF Normalizes
<1>4. ASSUME NEW k \in Nat, k \in T PROVE k + 1 \in T
  <2> SUFFICES ASSUME k + 1 <= Len(p) PROVE to[k + 1] = Found(SubSeq(p, 1, k + 1))
    BY <1>4
  <2>1. k + 1 \in 1..Len(p) /\ k <= Len(p) /\ (k + 1) - 1 = k
    BY <1>2
  <2>2. to[k] = Found(SubSeq(p, 1, k))
    BY <1>4, <2>1
  <2>3. to[k + 1] = Component(to[k], p[k + 1])
    BY <1>1, <2>1 DEF Normalizes
  <2>4. p[k + 1] \notin {Up, Here, Root}
    BY <1>2, <2>1 DEF Plain, Range
  <2>5. to[k + 1] = Found(Append(SubSeq(p, 1, k), p[k + 1]))
    BY <2>2, <2>3, <2>4 DEF Component, Found
  <2> QED
    BY <2>1, <2>5, NextPrefix
<1> HIDE DEF T
<1>5. Nat \subseteq T
  BY <1>3, <1>4, Induction
<1>6. to[Len(p)] = Found(SubSeq(p, 1, Len(p)))
  BY <1>2, <1>5 DEF T
<1> QED
  BY <1>1, <1>6, EndsOfPrefix

--------------------------------------------------------------------------------
(* Walks through a tree.                                                       *)

\* A child is a node one name further.
LEMMA ChildIs ==
    ASSUME NEW tree, IsTree(tree), NEW s, IsSeq(s), NEW e
    PROVE  e \in Children(tree, s) <=> Append(s, e) \in Nodes(tree)
<1>1. ASSUME e \in Children(tree, s) PROVE Append(s, e) \in Nodes(tree)
  <2>1. PICK p \in Nodes(tree) : p # <<>> /\ Front(p) = s /\ e = p[Len(p)]
    BY <1>1 DEF Children
  <2>2. p \in Seq(Range(p))
    BY DEF IsTree, IsSeq
  <2> QED
    BY <2>1, <2>2, FrontIn
<1>2. ASSUME Append(s, e) \in Nodes(tree) PROVE e \in Children(tree, s)
  <2> DEFINE p == Append(s, e)
  <2>1. Front(p) = s /\ Len(p) = Len(s) + 1 /\ p[Len(s) + 1] = e /\ p # <<>>
    BY FrontOfAppend, AppendIs, AppendIsSeq
  <2> HIDE DEF p
  <2>2. p \in Nodes(tree) /\ p[Len(p)] = e
    BY <1>2, <2>1 DEF p
  <2> QED
    BY <2>1, <2>2 DEF Children
<1> QED
  BY <1>1, <1>2

\* The beginnings of a node are directories.
LEMMA PrefixIsNode ==
    ASSUME NEW tree, IsVault(tree), NEW p \in Nodes(tree), NEW i \in 0..Len(p)
    PROVE  /\ SubSeq(p, 1, i) \in Nodes(tree)
           /\ i < Len(p) => SubSeq(p, 1, i) \in tree.dirs /\ SubSeq(p, 1, i) \notin tree.files
<1>1. IsSeq(p) /\ Len(p) \in Nat
  BY IsSeqLen DEF IsVault, IsTree
<1>2. CASE i < Len(p)
  <2>1. i \in 0..Len(p)-1
    BY <1>1, <1>2
  <2>2. SubSeq(p, 1, i) \in Parents(p)
    BY <2>1 DEF Parents
  <2> QED
    BY <2>2 DEF IsVault, Nodes
<1>3. CASE i = Len(p)
  <2>1. SubSeq(p, 1, i) = p /\ ~(i < Len(p))
    BY <1>1, <1>3, EndsOfPrefix
  <2> QED
    BY <2>1
<1> QED
  BY <1>1, <1>2, <1>3

\* A step that finds something finds a child, and the one of that spelling.
LEMMA StepOk ==
    ASSUME NEW tree, IsTree(tree), NEW r \in Results(tree), NEW name,
           Step(tree, r, name).err = "none"
    PROVE  /\ r = Found(r.path) /\ r.path \in Nodes(tree) /\ r.path \notin tree.files
           /\ \E e \in Children(tree, r.path) :
                 /\ Step(tree, r, name) = Found(Append(r.path, e))
                 /\ Append(r.path, e) \notin tree.links
                 /\ IF name \in Children(tree, r.path) THEN e = name
                    ELSE Alike(Children(tree, r.path), name) = {e}
<1> DEFINE entries == Children(tree, r.path)
           next == FindComponent(r.path, name, entries)
<1>1. r.err = "none" /\ r.path \notin tree.files /\ Step(tree, r, name) = Inside(tree, next)
  BY DEF Step, Error
<1>2. r = Found(r.path) /\ r.path \in Nodes(tree)
  BY <1>1 DEF Results, Found
<1>3. Inside(tree, next) = next /\ next.err = "none" /\ next.path \notin tree.links
  BY <1>1 DEF Inside, Error
<1>4. CASE name \in entries
  <2>1. next = Found(Append(r.path, name))
    BY <1>4 DEF FindComponent
  <2>2. Append(r.path, name) \notin tree.links
    BY <1>3, <2>1 DEF Found
  <2>3. Step(tree, r, name) = Found(Append(r.path, name))
    BY <1>1, <1>3, <2>1
  <2> HIDE DEF next
  <2> QED
    BY <1>1, <1>2, <1>4, <2>2, <2>3
<1>5. CASE name \notin entries
  <2> DEFINE S == Alike(entries, name)
             e == CHOOSE e \in S : TRUE
  <2>1. next = Only(r.path, S)
    BY <1>5 DEF FindComponent
  <2>2. S \subseteq entries
    BY DEF Alike
  <2> HIDE DEF S, entries
  <2>3. S # {} /\ ~\E x, y \in S : x # y
    BY <1>3, <2>1 DEF Only, Error
  <2>4. next = Found(Append(r.path, e))
    BY <2>1, <2>3 DEF Only
  <2>5. e \in S
    BY <2>3
  <2> HIDE DEF e
  <2>6. S = {e} /\ e \in entries
    BY <2>2, <2>3, <2>5
  <2>7. Append(r.path, e) \notin tree.links
    BY <1>3, <2>4 DEF Found
  <2> QED
    BY <1>1, <1>2, <1>3, <1>5, <2>4, <2>6, <2>7 DEF S, entries
<1> QED
  BY <1>4, <1>5

\* A step that finds an entry comes to it.
LEMMA FoundSteps ==
    ASSUME NEW tree, NEW s, s \notin tree.files, NEW name, NEW next, next \notin tree.links,
           FindComponent(s, name, Children(tree, s)) = Found(next)
    PROVE  Step(tree, Found(s), name) = Found(next)
<1>1. Found(s).err = "none" /\ Found(s).path = s /\ Found(next).path = next
  BY DEF Found
<1> QED
  BY <1>1 DEF Step, Inside

\* A walk that finds something has found the beginnings of it, directories
\* inside of the vault.
Trail(tree, w, m) ==
    /\ IsSeq(w[m].path) /\ Len(w[m].path) = m /\ w[m].path \in Nodes(tree)
    /\ \A i \in 0..m : w[i] = Found(SubSeq(w[m].path, 1, i))
    /\ \A i \in 0..m : i < m => SubSeq(w[m].path, 1, i) \notin tree.files
    /\ \A i \in 1..m : SubSeq(w[m].path, 1, i) \notin tree.links

\* A walk without an error follows the path that it found.
LEMMA WalkTrails ==
    ASSUME NEW tree, IsTree(tree), NEW path, IsSeq(path), NEW w, Walks(w, tree, path),
           \A k \in 0..Len(path) : w[k] \in Results(tree)
    PROVE  \A m \in 0..Len(path) : w[m].err = "none" => Trail(tree, w, m)
<1> DEFINE S == {m \in Nat : m <= Len(path) /\ w[m].err = "none" => Trail(tree, w, m)}
<1>1. Len(path) \in Nat
  BY IsSeqLen
<1>2. 0 \in S
  <2>1. w[0] = Found(<<>>) /\ IsSeq(<<>>) /\ Len(<<>>) = 0
    BY TuplesAreSeqs DEF Walks
  <2>2. SubSeq(<<>>, 1, 0) = <<>>
    BY <2>1, EndsOfPrefix
  <2>3. w[0].path = <<>>
    BY <2>1 DEF Found
  <2>4. \A i \in 0..0 : i = 0
    OBVIOUS
  <2>5. \A i \in 0..0 : w[i] = Found(SubSeq(<<>>, 1, i))
    BY <2>1, <2>2, <2>4
  <2>6. \A i \in 0..0 : ~(i < 0)
    OBVIOUS
  <2>7. \A i \in 1..0 : FALSE
    OBVIOUS
  <2>8. <<>> \in Nodes(tree)
    BY DEF IsTree
  <2>9. Trail(tree, w, 0)
    BY <2>1, <2>3, <2>5, <2>6, <2>7, <2>8 DEF Trail
  <2> QED
    BY <2>9
<1>3. ASSUME NEW m \in Nat, m \in S PROVE m + 1 \in S
  <2> SUFFICES ASSUME m + 1 <= Len(path), w[m + 1].err = "none" PROVE Trail(tree, w, m + 1)
    BY <1>3
  <2>1. m + 1 \in 1..Len(path) /\ m \in 0..Len(path) /\ (m + 1) - 1 = m
    BY <1>1
  <2>2. w[m + 1] = Step(tree, w[m], path[m + 1]) /\ w[m] \in Results(tree)
    BY <2>1 DEF Walks
  <2> DEFINE p == w[m].path
  <2>3. PICK e \in Children(tree, p) : w[m + 1] = Found(Append(p, e)) /\ Append(p, e) \notin tree.links
    BY <2>2, StepOk
  <2>4. w[m] = Found(p) /\ p \in Nodes(tree) /\ p \notin tree.files
    BY <2>2, StepOk
  <2>5. w[m].err = "none"
    BY <2>4 DEF Found
  <2>6. Trail(tree, w, m)
    BY <1>3, <2>1, <2>5
  <2> HIDE DEF p
  <2> DEFINE q == Append(p, e)
  <2>7. IsSeq(p) /\ Len(p) = m
    BY <2>6 DEF Trail, p
  <2>8. IsSeq(q) /\ Len(q) = m + 1 /\ q \in Nodes(tree) /\ q \notin tree.links
    BY <2>3, <2>7, AppendIsSeq, ChildIs
  <2>9. \A i \in 0..m : SubSeq(q, 1, i) = SubSeq(p, 1, i)
    BY <2>7, PrefixOfAppend
  <2>10. SubSeq(q, 1, m + 1) = q /\ SubSeq(p, 1, m) = p
    BY <2>7, <2>8, EndsOfPrefix
  <2>11. w[m + 1] = Found(q) /\ w[m + 1].path = q
    BY <2>3 DEF Found
  <2> HIDE DEF q
  <2>12. ASSUME NEW i \in 0..m+1 PROVE w[i] = Found(SubSeq(q, 1, i))
    <3>1. i \in 0..m \/ i = m + 1
      OBVIOUS
    <3> QED
      BY <2>6, <2>9, <2>10, <2>11, <3>1 DEF Trail, p
  <2>13. ASSUME NEW i \in 0..m+1, i < m + 1 PROVE SubSeq(q, 1, i) \notin tree.files
    <3>1. i \in 0..m /\ (i < m \/ i = m)
      BY <2>13
    <3> QED
      BY <2>4, <2>6, <2>9, <2>10, <3>1 DEF Trail, p
  <2>14. ASSUME NEW i \in 1..m+1 PROVE SubSeq(q, 1, i) \notin tree.links
    <3>1. (i \in 0..m /\ i \in 1..m) \/ i = m + 1
      OBVIOUS
    <3> QED
      BY <2>6, <2>8, <2>9, <2>10, <3>1 DEF Trail, p
  <2> QED
    BY <2>8, <2>11, <2>12, <2>13, <2>14 DEF Trail
<1> HIDE DEF S
<1>4. Nat \subseteq S
  BY <1>2, <1>3, Induction
<1> QED
  BY <1>1, <1>4 DEF S

\* What a path leads to, it leads to name by name.
LEMMA FoundByWalk ==
    ASSUME NEW tree, IsTree(tree), NEW raw, IsSeq(raw), NEW q,
           ResolveExisting(tree, raw) = Found(q)
    PROVE  LET r == NormalizeRelative(raw)
               w == Walk(tree, r.path)
               n == Len(r.path)
           IN /\ r.err = "none" /\ IsSeq(r.path) /\ n \in Nat /\ Walks(w, tree, r.path)
              /\ \A k \in 0..n : w[k] \in Results(tree)
              /\ w[n] = Found(q) /\ Trail(tree, w, n)
<1> DEFINE r == NormalizeRelative(raw)
           w == Walk(tree, r.path)
           n == Len(r.path)
<1>1. r.path \in Seq(Range(raw))
  BY NormalizedIs DEF Normalized
<1>2. IsSeq(r.path) /\ n \in Nat /\ n \in 0..n
  BY <1>1, SeqIsSeq, IsSeqLen
<1>3. ResolveExisting(tree, raw) = IF r.err # "none" THEN r ELSE w[n]
  BY DEF ResolveExisting, Existing
<1>4. Walks(w, tree, r.path) /\ \A k \in 0..n : w[k] \in Results(tree)
  BY <1>2, WalkSteps, WalkFinds
<1> HIDE DEF r
<1> HIDE DEF w
<1>5. r.err = "none" /\ w[n] = Found(q)
  BY <1>3 DEF Found
<1>6. Trail(tree, w, n)
  BY <1>2, <1>4, <1>5, WalkTrails DEF Found
<1> QED
  BY <1>2, <1>4, <1>5, <1>6 DEF r, w

\* The path of a node that no link leads to leads to that node.
LEMMA PlaceIsFound ==
    ASSUME NEW tree, IsVault(tree), NEW q \in Nodes(tree),
           \A i \in 1..Len(q) : SubSeq(q, 1, i) \notin tree.links
    PROVE  ResolveExisting(tree, q) = Found(q)
<1> DEFINE w == Walk(tree, q)
           S == {k \in Nat : k <= Len(q) => w[k] = Found(SubSeq(q, 1, k))}
<1>1. IsTree(tree) /\ IsSeq(q) /\ Plain(q) /\ Len(q) \in Nat
  BY IsSeqLen DEF IsVault, IsTree
<1>2. NormalizeRelative(q) = Found(q) /\ Walks(w, tree, q)
  BY <1>1, NormalizedPlace, WalkSteps
<1>3. ResolveExisting(tree, q) = w[Len(q)]
  BY <1>2 DEF ResolveExisting, Existing, Found
<1> HIDE DEF w
<1>4. 0 \in S
  BY <1>1, <1>2, EndsOfPrefix DEF Walks
<1>5. ASSUME NEW k \in Nat, k \in S PROVE k + 1 \in S
  <2> SUFFICES ASSUME k + 1 <= Len(q) PROVE w[k + 1] = Found(SubSeq(q, 1, k + 1))
    BY <1>5
  <2> DEFINE s == SubSeq(q, 1, k)
  <2>1. k + 1 \in 1..Len(q) /\ k \in 0..Len(q) /\ k < Len(q) /\ (k + 1) - 1 = k
        /\ k + 1 \in 0..Len(q)
    BY <1>1
  <2>2. w[k + 1] = Step(tree, w[k], q[k + 1]) /\ w[k] = Found(s)
    <3>1. w[k + 1] = Step(tree, w[k], q[k + 1])
      BY <1>2, <2>1 DEF Walks
    <3>2. k <= Len(q) => w[k] = Found(SubSeq(q, 1, k))
      BY <1>5
    <3> QED
      BY <2>1, <3>1, <3>2
  <2>3. SubSeq(q, 1, k + 1) = Append(s, q[k + 1])
    BY <1>1, NextPrefix
  <2>4. Append(s, q[k + 1]) \in Nodes(tree) /\ Append(s, q[k + 1]) \notin tree.links
    BY <2>1, <2>3, PrefixIsNode
  <2>5. s \notin tree.files /\ IsSeq(s)
    BY <1>1, <2>1, PrefixIsNode, PrefixIs
  <2> HIDE DEF s
  <2>6. q[k + 1] \in Children(tree, s)
    BY <1>1, <2>4, <2>5, ChildIs
  <2>7. FindComponent(s, q[k + 1], Children(tree, s)) = Found(Append(s, q[k + 1]))
    BY <2>6 DEF FindComponent
  <2>8. Step(tree, Found(s), q[k + 1]) = Found(Append(s, q[k + 1]))
    BY <2>4, <2>5, <2>7, FoundSteps
  <2> QED
    BY <2>2, <2>3, <2>8
<1> HIDE DEF S
<1>6. Nat \subseteq S
  BY <1>4, <1>5, Induction
<1>7. w[Len(q)] = Found(SubSeq(q, 1, Len(q)))
  BY <1>1, <1>6 DEF S
<1> QED
  BY <1>1, <1>3, <1>7, EndsOfPrefix

\* Where only files and directories have come, what a path leads to that was
\* there before, it led to before: no new entry, in either Unicode form, makes
\* resolve_existing come to another's file (path.rs).
THEOREM FoundBefore ==
    ASSUME NEW tree, IsVault(tree), NEW grown, IsTree(grown),
           tree.files \subseteq grown.files, tree.dirs \subseteq grown.dirs,
           tree.links \subseteq grown.links,
           NEW q \in Nodes(tree), NEW raw, IsSeq(raw), ResolveExisting(grown, raw) = Found(q)
    PROVE  ResolveExisting(tree, raw) = Found(q)
<1> DEFINE r == NormalizeRelative(raw)
           n == Len(r.path)
           w == Walk(tree, r.path)
           v == Walk(grown, r.path)
           S == {k \in Nat : k <= n => w[k] = Found(SubSeq(q, 1, k))}
<1>1. /\ r.err = "none" /\ IsSeq(r.path) /\ n \in Nat /\ Walks(v, grown, r.path)
      /\ \A k \in 0..n : v[k] \in Results(grown)
      /\ v[n] = Found(q) /\ Trail(grown, v, n)
  BY FoundByWalk
<1>2. IsTree(tree) /\ IsSeq(q)
  BY DEF IsVault, IsTree
<1>3. Walks(w, tree, r.path) /\ ResolveExisting(tree, raw) = w[n]
  BY <1>1, <1>2, WalkSteps DEF ResolveExisting, Existing
<1> HIDE DEF r
<1> HIDE DEF w, v
<1>4. v[n].path = q
  BY <1>1 DEF Found
<1>5. /\ Len(q) = n /\ \A i \in 0..n : v[i] = Found(SubSeq(q, 1, i))
      /\ \A i \in 0..n : i < n => SubSeq(q, 1, i) \notin grown.files
      /\ \A i \in 1..n : SubSeq(q, 1, i) \notin grown.links
  BY <1>1, <1>4 DEF Trail
<1>6. 0 \in S
  BY <1>2, <1>3, EndsOfPrefix DEF Walks
<1>7. ASSUME NEW k \in Nat, k \in S PROVE k + 1 \in S
  <2> SUFFICES ASSUME k + 1 <= n PROVE w[k + 1] = Found(SubSeq(q, 1, k + 1))
    BY <1>7
  <2> DEFINE s == SubSeq(q, 1, k)
             name == r.path[k + 1]
             old == Children(tree, s)
             new == Children(grown, s)
             x == q[k + 1]
  <2>1. k + 1 \in 1..n /\ k \in 0..n /\ k < n /\ (k + 1) - 1 = k /\ k + 1 \in 0..n
    BY <1>1
  <2>2. /\ w[k + 1] = Step(tree, w[k], name) /\ w[k] = Found(s)
        /\ v[k + 1] = Step(grown, v[k], name) /\ v[k] = Found(s) /\ v[k] \in Results(grown)
    <3>1. w[k + 1] = Step(tree, w[k], name) /\ v[k + 1] = Step(grown, v[k], name)
      BY <1>1, <1>3, <2>1 DEF Walks
    <3>2. k <= n => w[k] = Found(SubSeq(q, 1, k))
      BY <1>7
    <3>3. v[k] = Found(s) /\ v[k] \in Results(grown)
      BY <1>1, <1>5, <2>1
    <3> QED
      BY <2>1, <3>1, <3>2, <3>3
  <2>3. SubSeq(q, 1, k + 1) = Append(s, x) /\ v[k + 1] = Found(SubSeq(q, 1, k + 1))
    BY <1>2, <1>5, <2>1, NextPrefix
  <2>4. /\ Append(s, x) \in Nodes(tree) /\ Append(s, x) \notin tree.links
        /\ s \notin tree.files /\ IsSeq(s)
    BY <1>2, <1>5, <2>1, <2>3, PrefixIsNode, PrefixIs
  <2>5. v[k].path = s /\ v[k + 1].err = "none"
    BY <2>2, <2>3 DEF Found
  <2> HIDE DEF s, x, name
  <2>6. x \in old
    BY <1>2, <2>4, ChildIs
  <2>7. PICK e \in new : /\ Found(Append(s, x)) = Found(Append(s, e))
                         /\ IF name \in new THEN e = name ELSE Alike(new, name) = {e}
    <3>1. IsTree(grown) /\ Step(grown, v[k], name).err = "none"
      BY <2>2, <2>5
    <3>2. \E e \in Children(grown, v[k].path) :
              /\ Step(grown, v[k], name) = Found(Append(v[k].path, e))
              /\ Append(v[k].path, e) \notin grown.links
              /\ IF name \in Children(grown, v[k].path) THEN e = name
                 ELSE Alike(Children(grown, v[k].path), name) = {e}
      BY <2>2, <3>1, StepOk
    <3> QED
      BY <2>2, <2>3, <2>5, <3>2
  <2>8. e = x
    <3>1. Append(s, x) = Append(s, e)
      BY <2>7 DEF Found
    <3>2. Append(s, x)[Len(s) + 1] = x /\ Append(s, e)[Len(s) + 1] = e
      BY <2>4, AppendIs
    <3> QED
      BY <3>1, <3>2
  <2>9. old \subseteq new
    BY DEF Children, Nodes
  <2> HIDE DEF old, new
  <2>10. FindComponent(s, name, old) = Found(Append(s, x))
    <3>1. CASE name \in old
      BY <2>7, <2>8, <2>9, <3>1 DEF FindComponent
    <3>2. CASE name \notin old
      <4>1. name \notin new
        BY <2>6, <2>7, <2>8, <3>2
      <4>2. Alike(new, name) = {x}
        BY <2>7, <2>8, <4>1
      <4>3. Alike(old, name) = {x}
        BY <2>6, <2>9, <4>2 DEF Alike
      <4> QED
        BY <3>2, <4>3 DEF FindComponent, Only
    <3> QED
      BY <3>1, <3>2
  <2>11. Step(tree, Found(s), name) = Found(Append(s, x))
    BY <2>4, <2>10, FoundSteps DEF old
  <2> QED
    BY <2>2, <2>3, <2>11
<1> HIDE DEF S
<1>8. Nat \subseteq S
  BY <1>6, <1>7, Induction
<1>9. w[n] = Found(SubSeq(q, 1, n))
  BY <1>1, <1>8 DEF S
<1> QED
  BY <1>2, <1>3, <1>5, <1>9, EndsOfPrefix

--------------------------------------------------------------------------------
(* Where a new file goes.                                                      *)

\* Max is what it says.
LEMMA MaxIsGreatest ==
    ASSUME NEW n \in Nat, NEW S \in SUBSET (0..n), S # {}
    PROVE  Max(S) \in S /\ \A y \in S : y <= Max(S)
<1> DEFINE T == {n - x : x \in S}
           m == Min(T)
<1>1. T \in SUBSET Nat /\ T # {}
  <2>1. \A x \in S : x \in 0..n
    OBVIOUS
  <2>2. \A x \in S : n - x \in Nat
    BY <2>1
  <2> QED
    BY <2>2
<1> HIDE DEF T
<1>2. m \in T /\ \A y \in T : m <= y
  BY <1>1, MinIsLeast
<1> HIDE DEF m
<1>3. PICK x \in S : m = n - x
  BY <1>2 DEF T
<1>4. ASSUME NEW y \in S PROVE x >= y
  <2>1. n - y \in T
    BY DEF T
  <2>2. n - x <= n - y
    BY <1>2, <1>3, <2>1
  <2>3. x \in 0..n /\ y \in 0..n
    OBVIOUS
  <2> QED
    BY <2>2, <2>3
<1>5. \E z \in S : \A y \in S : z >= y
  BY <1>4
<1>6. Max(S) \in S /\ \A y \in S : Max(S) >= y
  BY <1>5, Zenon DEF Max
<1>7. ASSUME NEW y \in S PROVE y <= Max(S)
  BY <1>6
<1> QED
  BY <1>6, <1>7

\* Where a file is written has a path, whether or not it is there.
LEMMA ForWriteIsPath ==
    ASSUME NEW tree, IsTree(tree), NEW raw, IsSeq(raw),
           ResolveForWrite(tree, raw).err = "none"
    PROVE  IsSeq(ResolveForWrite(tree, raw).path)
<1> DEFINE r == NormalizeRelative(raw)
           n == Len(r.path)
           walk == Walk(tree, r.path)
           S == {k \in 0..n : walk[k].err = "none"}
<1>1. r.path \in Seq(Range(raw))
  BY NormalizedIs DEF Normalized
<1>2. IsSeq(r.path)
  BY <1>1, SeqIsSeq
<1>3. n \in Nat /\ n \in 0..n
  BY <1>2, IsSeqLen
<1>4. walk[0] = Found(<<>>) /\ \A k \in 0..n : walk[k] \in Results(tree)
  BY <1>2, WalkFinds
<1> HIDE DEF n, walk
<1>5. \A k \in 0..n : IsSeq(walk[k].path)
  BY <1>4, TuplesAreSeqs DEF Results, IsTree
<1>6. Max(S) \in 0..n
  <2>1. 0 \in S
    BY <1>3, <1>4 DEF Found
  <2>2. S \in SUBSET (0..n) /\ S # {}
    BY <2>1
  <2> HIDE DEF S
  <2> QED
    BY <1>3, <2>2, MaxIsGreatest
<1>7. ResolveForWrite(tree, raw) = IF r.err # "none" THEN r
                                   ELSE IF walk[n].err # "missing" THEN walk[n]
                                   ELSE Found(walk[Max(S)].path \o SubSeq(r.path, Max(S) + 1, n))
  BY DEF ResolveForWrite, ForWrite, Extended, n, walk
<1> HIDE DEF S
<1>8. IsSeq(walk[Max(S)].path \o SubSeq(r.path, Max(S) + 1, n))
  <2>1. Max(S) + 1 \in Nat \ {0} /\ n \in Int /\ n <= n
    BY <1>3, <1>6
  <2>2. IsSeq(SubSeq(r.path, Max(S) + 1, n))
    BY <1>2, <2>1, SubSeqIsSeq DEF n
  <2> QED
    BY <1>5, <1>6, <2>2, ConcatIsSeq
<1> HIDE DEF r
<1> QED
  BY <1>2, <1>3, <1>5, <1>7, <1>8 DEF Found

\* An error stays the result to the end of the walk.
LEMMA ErrorsStay ==
    ASSUME NEW tree, NEW path, IsSeq(path), NEW w, Walks(w, tree, path),
           NEW k \in 0..Len(path), w[k].err # "none"
    PROVE  w[Len(path)] = w[k]
<1> DEFINE S == {j \in Nat : k + j <= Len(path) => w[k + j] = w[k]}
<1>1. Len(path) \in Nat /\ k \in Nat
  BY IsSeqLen
<1>2. 0 \in S
  BY <1>1
<1>3. ASSUME NEW j \in Nat, j \in S PROVE j + 1 \in S
  <2> SUFFICES ASSUME k + (j + 1) <= Len(path) PROVE w[k + (j + 1)] = w[k]
    OBVIOUS
  <2> DEFINE i == k + (j + 1)
  <2>1. i \in 1..Len(path) /\ i - 1 = k + j /\ k + j <= Len(path)
    BY <1>1
  <2>2. k + j <= Len(path) => w[k + j] = w[k]
    BY <1>3
  <2>3. w[i - 1] = w[k]
    BY <2>1, <2>2
  <2> HIDE DEF i
  <2>4. w[i] = Step(tree, w[i - 1], path[i])
    BY <2>1 DEF Walks
  <2>5. w[i] = w[k]
    BY <2>3, <2>4 DEF Step
  <2> QED
    BY <2>5 DEF i
<1> HIDE DEF S
<1>4. Len(path) - k \in Nat
  BY <1>1
<1>5. Len(path) - k \in S
  BY <1>2, <1>3, <1>4, Induction
<1>6. k + (Len(path) - k) = Len(path) /\ Len(path) <= Len(path)
  BY <1>1
<1> QED
  BY <1>5, <1>6 DEF S

\* What is missing is missing from a directory.
LEMMA MissingThere ==
    ASSUME NEW tree, NEW r, r.err = "none", NEW name, Step(tree, r, name).err = "missing"
    PROVE  r.path \notin tree.files /\ name \notin Children(tree, r.path)
<1> DEFINE next == FindComponent(r.path, name, Children(tree, r.path))
<1>1. r.path \notin tree.files
  BY DEF Step, Error
<1>2. Step(tree, r, name) = Inside(tree, next)
  BY <1>1 DEF Step
<1> HIDE DEF next
<1>3. next.err = "missing"
  <2>1. Inside(tree, next) = next \/ Inside(tree, next) = Error("outside")
    BY DEF Inside
  <2>2. Error("outside").err # "missing"
    BY DEF Error
  <2> QED
    BY <1>2, <2>1, <2>2
<1>4. ASSUME name \in Children(tree, r.path) PROVE next.err = "none"
  BY <1>4 DEF next, FindComponent, Found
<1> QED
  BY <1>1, <1>3, <1>4

\* One path, and from there the rest of another.
LEMMA RestOf ==
    ASSUME NEW s, IsSeq(s), NEW p, IsSeq(p), Len(s) <= Len(p)
    PROVE  LET q == s \o SubSeq(p, Len(s) + 1, Len(p)) IN
           /\ IsSeq(q) /\ Len(q) = Len(p)
           /\ \A i \in 1..Len(s) : q[i] = s[i]
           /\ \A i \in Len(s)+1..Len(p) : q[i] = p[i]
           /\ SubSeq(q, 1, Len(s)) = s
<1> DEFINE m == Len(s)
           n == Len(p)
           t == SubSeq(p, m + 1, n)
           q == s \o t
           T == Range(s) \cup Range(p)
<1>1. m \in Nat /\ n \in Nat /\ m <= n /\ DOMAIN p = 1..n
  BY IsSeqLen
<1>2. s \in Seq(T) /\ p \in Seq(T)
  BY SeqMonotonic DEF IsSeq
<1>3. \A i \in m+1..n : p[i] \in T
  BY <1>1 DEF Range
<1>4. m + 1 \in Int /\ n \in Int
  BY <1>1
<1> HIDE DEF T, m, n
<1>5. /\ t \in Seq(T) /\ Len(t) = IF m + 1 <= n THEN n - (m + 1) + 1 ELSE 0
      /\ \A i \in 1..n-(m+1)+1 : t[i] = p[m + 1 + i - 1]
  BY <1>3, <1>4, SubSeqProperties
<1>6. Len(t) = n - m
  BY <1>1, <1>5
<1> HIDE DEF t
<1>7. /\ q \in Seq(T) /\ Len(q) = Len(s) + Len(t)
      /\ \A i \in 1..Len(s)+Len(t) : q[i] = IF i <= Len(s) THEN s[i] ELSE t[i - Len(s)]
  BY <1>2, <1>5, ConcatProperties
<1> HIDE DEF q
<1>8. Len(q) = n /\ m = Len(s)
  BY <1>1, <1>6, <1>7 DEF m
<1>9. ASSUME NEW i \in 1..m PROVE q[i] = s[i]
  BY <1>1, <1>6, <1>7, <1>8
<1>10. ASSUME NEW i \in m+1..n PROVE q[i] = p[i]
  <2>1. i \in 1..n /\ ~(i <= m) /\ i - m \in 1..n-(m+1)+1 /\ m + 1 + (i - m) - 1 = i
    BY <1>1
  <2>2. q[i] = t[i - m]
    BY <1>1, <1>6, <1>7, <1>8, <2>1
  <2> QED
    BY <1>5, <2>1, <2>2
<1>11. IsSeq(q)
  BY <1>7, SeqIsSeq
<1>12. m \in 0..Len(q)
  BY <1>1, <1>8
<1>13. SubSeq(q, 1, m) = s
  <2>1. /\ IsSeq(SubSeq(q, 1, m)) /\ Len(SubSeq(q, 1, m)) = m
        /\ \A j \in 1..m : SubSeq(q, 1, m)[j] = q[j]
    BY <1>11, <1>12, PrefixIs
  <2> QED
    BY <1>8, <1>9, <2>1, SamePath
<1> QED
  BY <1>8, <1>9, <1>10, <1>11, <1>13 DEF q, t, m, n

\* Where a file may go: below directories, through no link, by names.
Writable(tree, q) ==
    /\ IsSeq(q) /\ Plain(q)
    /\ \A i \in 0..Len(q) : i < Len(q) => SubSeq(q, 1, i) \notin tree.files
    /\ \A i \in 1..Len(q) : SubSeq(q, 1, i) \notin tree.links

\* What a walk finds may be written to.
LEMMA FoundIsWritable ==
    ASSUME NEW tree, IsVault(tree), NEW w, NEW m \in Nat, Trail(tree, w, m)
    PROVE  Writable(tree, w[m].path)
BY DEF Trail, Writable, IsVault

\* Where the walk stops, the names that were asked for go on, of which none is there.
LEMMA RestIsWritable ==
    ASSUME NEW tree, IsVault(tree), NEW path, IsSeq(path), Plain(path), NEW s, IsSeq(s),
           Len(s) < Len(path), Writable(tree, s), s \notin tree.files, s \in Nodes(tree),
           path[Len(s) + 1] \notin Children(tree, s),
           NEW q, q = s \o SubSeq(path, Len(s) + 1, Len(path))
    PROVE  Writable(tree, q) /\ q \notin Nodes(tree)
<1> DEFINE m == Len(s)
           n == Len(path)
<1>1. /\ IsSeq(q) /\ Len(q) = n /\ SubSeq(q, 1, m) = s
      /\ \A i \in 1..m : q[i] = s[i]
      /\ \A i \in m+1..n : q[i] = path[i]
  BY RestOf
<1>2. m \in Nat /\ n \in Nat /\ m < n /\ m + 1 <= n /\ IsTree(tree)
  BY IsSeqLen DEF IsVault
<1>3. Plain(q)
  <2>1. DOMAIN q = 1..n /\ DOMAIN s = 1..m /\ DOMAIN path = 1..n
    BY <1>1, IsSeqLen
  <2>2. ASSUME NEW i \in 1..n PROVE q[i] \in Range(s) \cup Range(path)
    <3>1. i \in 1..m \/ i \in m+1..n
      BY <1>2
    <3>2. (\A j \in 1..m : q[j] = s[j]) /\ \A j \in m+1..n : q[j] = path[j]
      BY <1>1
    <3> QED
      BY <2>1, <3>1, <3>2 DEF Range
  <2>3. Plain(s)
    BY DEF Writable
  <2> QED
    BY <2>1, <2>2, <2>3 DEF Plain, Range
<1>4. SubSeq(q, 1, m + 1) \notin Nodes(tree)
  <2>1. m + 1 \in m+1..n
    BY <1>2
  <2>2. q[m + 1] = path[m + 1]
    BY <1>1, <2>1
  <2>3. SubSeq(q, 1, m + 1) = Append(s, path[m + 1])
    BY <1>1, <1>2, <2>2, NextPrefix
  <2> QED
    BY <1>2, <2>3, ChildIs
<1>5. ASSUME NEW i \in m+1..n PROVE SubSeq(q, 1, i) \notin Nodes(tree)
  <2> DEFINE p == SubSeq(q, 1, i)
  <2>1. i \in 0..Len(q) /\ m + 1 \in 0..i
    BY <1>1, <1>2
  <2>2. Len(p) = i /\ SubSeq(p, 1, m + 1) = SubSeq(q, 1, m + 1)
    BY <1>1, <2>1, PrefixIs, PrefixOfPrefix
  <2> HIDE DEF p
  <2>3. ASSUME p \in Nodes(tree) PROVE FALSE
    BY <1>4, <2>1, <2>2, <2>3, PrefixIsNode
  <2> QED
    BY <2>3 DEF p
<1>6. \A i \in 0..m : SubSeq(q, 1, i) = SubSeq(s, 1, i)
  <2> TAKE i \in 0..m
  <2>1. m \in 0..Len(q)
    BY <1>1, <1>2
  <2> QED
    BY <1>1, <2>1, PrefixOfPrefix
<1>7. tree.links \subseteq Nodes(tree) /\ tree.files \subseteq Nodes(tree)
  BY DEF IsVault, Nodes
<1>8. ASSUME NEW i \in 0..n, i < n PROVE SubSeq(q, 1, i) \notin tree.files
  <2>1. CASE i \in m+1..n
    BY <1>5, <1>7, <2>1
  <2>2. CASE i \in 0..m
    <3>1. i < m \/ i = m
      BY <2>2, <1>2
    <3>2. i < m => SubSeq(s, 1, i) \notin tree.files
      BY <2>2 DEF Writable
    <3> QED
      BY <1>1, <1>6, <2>2, <3>1, <3>2
  <2> QED
    BY <1>2, <2>1, <2>2
<1>9. ASSUME NEW i \in 1..n PROVE SubSeq(q, 1, i) \notin tree.links
  <2>1. CASE i \in m+1..n
    BY <1>5, <1>7, <2>1
  <2>2. CASE i \in 1..m
    <3>1. SubSeq(s, 1, i) \notin tree.links
      BY <2>2 DEF Writable
    <3>2. i \in 0..m
      BY <2>2
    <3> QED
      BY <1>6, <3>1, <3>2
  <2> QED
    BY <1>2, <2>1, <2>2
<1>10. n \in m+1..n /\ SubSeq(q, 1, n) = q
  BY <1>1, <1>2, EndsOfPrefix
<1> QED
  BY <1>1, <1>3, <1>5, <1>8, <1>9, <1>10 DEF Writable

\* resolve_for_write names a place with only directories of the vault above it, no
\* link among them; if something is there, reading the path would find it too, so
\* that no check of the path overlooks what a write replaces (path.rs).
THEOREM WritePlace ==
    ASSUME NEW tree, IsVault(tree), NEW raw, IsSeq(raw), NEW q,
           ResolveForWrite(tree, raw).err = "none", q = ResolveForWrite(tree, raw).path
    PROVE  Writable(tree, q) /\ (q \in Nodes(tree) => ResolveExisting(tree, raw) = Found(q))
<1> DEFINE r == NormalizeRelative(raw)
           n == Len(r.path)
           w == Walk(tree, r.path)
           S == {k \in 0..n : w[k].err = "none"}
           m == Max(S)
<1>1. r.path \in Seq(Range(raw)) /\ r \in Normalized(raw)
  BY NormalizedIs DEF Normalized
<1>2. IsTree(tree) /\ IsSeq(r.path) /\ n \in Nat /\ n \in 0..n
  BY <1>1, SeqIsSeq, IsSeqLen DEF IsVault
<1>3. Walks(w, tree, r.path) /\ \A k \in 0..n : w[k] \in Results(tree)
  BY <1>2, WalkSteps, WalkFinds
<1>4. \A k \in 0..n : w[k].err = "none" => Trail(tree, w, k)
  BY <1>2, <1>3, WalkTrails
<1>5. ResolveForWrite(tree, raw) = IF r.err # "none" THEN r
                                   ELSE IF w[n].err # "missing" THEN w[n]
                                   ELSE Found(w[m].path \o SubSeq(r.path, m + 1, n))
  BY DEF ResolveForWrite, ForWrite, Extended
<1>6. r.err = "none" => Plain(r.path)
  BY NormalizedIsPlain
<1>7. ResolveExisting(tree, raw) = IF r.err # "none" THEN r ELSE w[n]
  BY DEF ResolveExisting, Existing
<1>8. w[0] = Found(<<>>)
  BY <1>3 DEF Walks
<1>9. m \in S /\ \A k \in S : k <= m
  <2>1. 0 \in S
    BY <1>2, <1>8 DEF Found
  <2>2. S \in SUBSET (0..n) /\ S # {}
    BY <2>1
  <2> HIDE DEF S
  <2> QED
    BY <1>2, <2>2, MaxIsGreatest
<1> HIDE DEF m
<1>10. m \in 0..n /\ w[m].err = "none" /\ \A k \in 0..n : w[k].err = "none" => k <= m
  BY <1>9
<1> HIDE DEF S, w
<1>11. r.err = "none"
  BY <1>5
<1>12. CASE w[n].err # "missing"
  <2>1. w[n].err = "none" /\ q = w[n].path
    BY <1>5, <1>11, <1>12
  <2>2. Trail(tree, w, n)
    BY <1>2, <1>4, <2>1
  <2>3. w[n] = Found(q)
    BY <1>2, <1>3, <2>1 DEF Results, Found
  <2> QED
    BY <1>2, <1>7, <1>11, <2>1, <2>2, <2>3, FoundIsWritable
<1>13. CASE w[n].err = "missing"
  <2> DEFINE s == w[m].path
  <2>1. q = s \o SubSeq(r.path, m + 1, n)
    <3> DEFINE x == s \o SubSeq(r.path, m + 1, n)
    <3>1. ResolveForWrite(tree, raw) = Found(x)
      BY <1>5, <1>11, <1>13
    <3>2. Found(x).path = x
      BY DEF Found
    <3> HIDE DEF x
    <3>3. q = x
      BY <3>1, <3>2
    <3> QED
      BY <3>3 DEF x
  <2>2. Trail(tree, w, m)
    BY <1>4, <1>10
  <2>3. IsSeq(s) /\ Len(s) = m /\ s \in Nodes(tree)
    BY <2>2 DEF Trail
  <2>4. Writable(tree, s)
    BY <1>10, <2>2, FoundIsWritable
  <2>5. m # n /\ m + 1 \in 0..n /\ m + 1 \in 1..n /\ (m + 1) - 1 = m /\ m < n
    BY <1>2, <1>10, <1>13
  <2>6. w[m + 1].err # "none"
    BY <1>10, <2>5
  <2>7. w[m + 1].err = "missing"
    <3> DEFINE k == m + 1
    <3>1. k \in 0..Len(r.path) /\ w[k].err # "none"
      BY <2>5, <2>6
    <3>2. IsSeq(r.path) /\ Walks(w, tree, r.path)
      BY <1>2, <1>3
    <3> HIDE DEF k
    <3>3. w[Len(r.path)] = w[k]
      BY <3>1, <3>2, ErrorsStay
    <3> QED
      BY <1>13, <3>3 DEF k
  <2>8. w[m + 1] = Step(tree, w[m], r.path[m + 1])
    BY <1>3, <2>5 DEF Walks
  <2>9. s \notin tree.files /\ r.path[m + 1] \notin Children(tree, s)
    BY <1>10, <2>7, <2>8, MissingThere
  <2> HIDE DEF s, r
  <2>10. Writable(tree, q) /\ q \notin Nodes(tree)
    BY <1>2, <1>6, <1>11, <2>1, <2>3, <2>4, <2>5, <2>9, RestIsWritable
  <2> QED
    BY <2>10
<1> QED
  BY <1>12, <1>13

\* Nothing but the root itself is below the root.
LEMMA RootIsBelowNone ==
    ASSUME NEW p, IsSeq(p), IsStrictPrefix(p, <<>>) PROVE FALSE
<1>1. Len(p) <= Len(<<>>) /\ p # <<>>
  BY DEF IsStrictPrefix, IsPrefix
<1>2. Len(p) \in Nat /\ Len(p) > 0 /\ Len(<<>>) = 0
  BY <1>1, IsSeqLen
<1> QED
  BY <1>1, <1>2

--------------------------------------------------------------------------------
(* A vault stays one, whatever the steps do to it.                             *)

\* The directories on the way to a path.
LEMMA ParentsAre ==
    ASSUME NEW p, IsSeq(p), NEW y \in Parents(p)
    PROVE  /\ IsSeq(y) /\ Len(y) < Len(p) /\ y = SubSeq(p, 1, Len(y))
           /\ Parents(y) \subseteq Parents(p) /\ (Plain(p) => Plain(y))
<1>1. PICK k \in 0..Len(p)-1 : y = SubSeq(p, 1, k)
  BY DEF Parents
<1>2. Len(p) \in Nat /\ k \in 0..Len(p) /\ k < Len(p) /\ k \in Nat
  BY <1>1, IsSeqLen
<1>3. IsSeq(y) /\ Len(y) = k
  BY <1>1, <1>2, PrefixIs
<1>4. ASSUME NEW z \in Parents(y) PROVE z \in Parents(p)
  <2>1. PICK j \in 0..k-1 : z = SubSeq(y, 1, j)
    BY <1>3 DEF Parents
  <2>2. j \in 0..k /\ j \in 0..Len(p)-1
    BY <1>2
  <2>3. z = SubSeq(p, 1, j)
    BY <1>1, <1>2, <2>1, <2>2, PrefixOfPrefix
  <2> QED
    BY <2>2, <2>3 DEF Parents
<1>5. Plain(p) => Plain(y)
  BY <1>1, <1>2, PlainPrefix
<1> QED
  BY <1>1, <1>2, <1>3, <1>4, <1>5

\* What is strictly below a path has it on its way.
LEMMA BelowIs ==
    ASSUME NEW x, IsSeq(x), NEW p, IsSeq(p) PROVE IsStrictPrefix(x, p) <=> x \in Parents(p)
<1>1. Len(x) \in Nat /\ Len(p) \in Nat
  BY IsSeqLen
<1>2. SubSeq(x, 1, Len(x)) = x /\ SubSeq(p, 1, Len(p)) = p
  BY EndsOfPrefix
<1>3. ASSUME IsStrictPrefix(x, p) PROVE x \in Parents(p)
  <2>1. Len(x) <= Len(p) /\ x = SubSeq(p, 1, Len(x)) /\ x # p
    BY <1>2, <1>3 DEF IsStrictPrefix, IsPrefix
  <2>2. Len(x) # Len(p)
    BY <1>2, <2>1
  <2>3. Len(x) \in 0..Len(p)-1
    BY <1>1, <2>1, <2>2
  <2> QED
    BY <2>1, <2>3 DEF Parents
<1>4. ASSUME x \in Parents(p) PROVE IsStrictPrefix(x, p)
  <2>1. Len(x) < Len(p) /\ x = SubSeq(p, 1, Len(x))
    BY <1>4, ParentsAre
  <2>2. x # p /\ Len(x) <= Len(p)
    BY <1>1, <2>1
  <2> QED
    BY <1>2, <2>1, <2>2 DEF IsStrictPrefix, IsPrefix
<1> QED
  BY <1>3, <1>4

\* The directories for a file are made, then the file.
LEMMA WithParents ==
    ASSUME NEW tree, IsVault(tree), NEW q, IsSeq(q), Plain(q), Parents(q) \cap tree.files = {},
           NEW next, next.files = tree.files, next.dirs = tree.dirs \cup Parents(q),
           next.links = tree.links
    PROVE  IsVault(next)
<1>1. Nodes(next) = Nodes(tree) \cup Parents(q)
  BY DEF Nodes
<1>2. \A p \in Parents(q) : IsSeq(p) /\ Plain(p) /\ Parents(p) \subseteq Parents(q)
  BY ParentsAre
<1>3. IsTree(next)
  BY <1>1, <1>2 DEF IsVault, IsTree
<1>4. next.files \cap next.dirs = {} /\ next.links \subseteq next.dirs \ {<<>>}
  BY DEF IsVault
<1>5. \A p \in Nodes(tree) : Plain(p) /\ Parents(p) \subseteq tree.dirs
  BY DEF IsVault
<1> QED
  BY <1>1, <1>2, <1>3, <1>4, <1>5 DEF IsVault

\* A new file in a directory that is there.
LEMMA WithFile ==
    ASSUME NEW tree, IsVault(tree), NEW q, IsSeq(q), Plain(q), Parents(q) \subseteq tree.dirs,
           q \notin tree.dirs,
           NEW next, next.files = tree.files \cup {q}, next.dirs = tree.dirs,
           next.links = tree.links
    PROVE  IsVault(next)
<1>1. Nodes(next) = Nodes(tree) \cup {q}
  BY DEF Nodes
<1>2. IsTree(next)
  BY <1>1 DEF IsVault, IsTree
<1> QED
  BY <1>1, <1>2 DEF IsVault

\* No file is above a place that may be written to.
LEMMA NoFileAbove ==
    ASSUME NEW tree, NEW q, Writable(tree, q) PROVE Parents(q) \cap tree.files = {}
<1>1. \A k \in 0..Len(q)-1 : k \in 0..Len(q) /\ k < Len(q)
  BY IsSeqLen DEF Writable
<1> QED
  BY <1>1 DEF Writable, Parents

\* A vault with a file that fs::write_file has put, and the directories it has
\* made for it, is a vault, and the file is found under its path.
THEOREM PutVault ==
    ASSUME NEW tree, IsVault(tree), NEW q, Writable(tree, q), q \notin tree.dirs,
           NEW next, next.files = tree.files \cup {q}, next.dirs = tree.dirs \cup Parents(q),
           next.links = tree.links
    PROVE  IsVault(next) /\ ResolveExisting(next, q) = Found(q)
<1> DEFINE mid == [files |-> tree.files, dirs |-> tree.dirs \cup Parents(q), links |-> tree.links]
<1>1. /\ mid.files = tree.files /\ mid.dirs = tree.dirs \cup Parents(q)
      /\ mid.links = tree.links
  OBVIOUS
<1>2. IsSeq(q) /\ Plain(q) /\ Parents(q) \cap tree.files = {}
  BY NoFileAbove DEF Writable
<1>3. Len(q) \in Nat /\ q \notin Parents(q)
  <2>1. Len(q) \in Nat
    BY <1>2, IsSeqLen
  <2>2. ASSUME q \in Parents(q) PROVE FALSE
    BY <1>2, <2>1, <2>2, ParentsAre
  <2> QED
    BY <2>1, <2>2
<1> HIDE DEF mid
<1>4. IsVault(mid)
  BY <1>1, <1>2, WithParents
<1>5. IsVault(next)
  BY <1>1, <1>2, <1>3, <1>4, WithFile
<1>6. q \in Nodes(next) /\ \A i \in 1..Len(q) : SubSeq(q, 1, i) \notin next.links
  BY DEF Nodes, Writable
<1> QED
  BY <1>5, <1>6, PlaceIsFound

\* What nothing is below may go.
LEMMA WithoutLeaf ==
    ASSUME NEW tree, IsVault(tree), NEW x, x # <<>>, x \notin tree.links,
           \A p \in Nodes(tree) : x \notin Parents(p),
           NEW next, next.files = tree.files \ {x}, next.dirs = tree.dirs \ {x},
           next.links = tree.links
    PROVE  IsVault(next)
<1>1. Nodes(next) = Nodes(tree) \ {x}
  BY DEF Nodes
<1>2. IsTree(next)
  BY <1>1 DEF IsVault, IsTree
<1> QED
  BY <1>1, <1>2 DEF IsVault

--------------------------------------------------------------------------------
(* A file or a directory and all that is below it, under another path.         *)

Moved(from, to, p) == to \o SubSeq(p, Len(from) + 1, Len(p))
Branch(tree, from) == {from} \cup {q \in Nodes(tree) : IsStrictPrefix(from, q)}
Renamed(tree, from, to, S) ==
    {Moved(from, to, p) : p \in S \cap Branch(tree, from)} \cup (S \ Branch(tree, from))

\* A moved path begins with the new path and ends as before.
LEMMA MovedIs ==
    ASSUME NEW from, IsSeq(from), NEW to, IsSeq(to), NEW p, IsSeq(p), Len(from) <= Len(p)
    PROVE  /\ IsSeq(Moved(from, to, p)) /\ Len(Moved(from, to, p)) = Len(to) + Len(p) - Len(from)
           /\ \A i \in 1..Len(to) : Moved(from, to, p)[i] = to[i]
           /\ \A i \in Len(from)+1..Len(p) : \A j \in Nat :
                 j + Len(from) = i + Len(to) => Moved(from, to, p)[j] = p[i]
           /\ SubSeq(Moved(from, to, p), 1, Len(to)) = to
<1> DEFINE m == Len(from)
           k == Len(to)
           n == Len(p)
           t == SubSeq(p, m + 1, n)
           q == Moved(from, to, p)
           T == Range(to) \cup Range(p)
<1>1. m \in Nat /\ n \in Nat /\ m <= n /\ k \in Nat /\ DOMAIN p = 1..n
  BY IsSeqLen
<1>2. to \in Seq(T) /\ p \in Seq(T)
  BY SeqMonotonic DEF IsSeq
<1>3. \A i \in m+1..n : p[i] \in T
  BY <1>1 DEF Range
<1>4. m + 1 \in Int /\ n \in Int
  BY <1>1
<1> HIDE DEF T
<1>5. /\ t \in Seq(T) /\ Len(t) = IF m + 1 <= n THEN n - (m + 1) + 1 ELSE 0
      /\ \A i \in 1..n-(m+1)+1 : t[i] = p[m + 1 + i - 1]
  <2> HIDE DEF m, n
  <2> QED
    BY <1>3, <1>4, SubSeqProperties
<1>6. q = to \o t
  BY DEF Moved
<1> HIDE DEF m, n, k, q, t
<1>7. Len(t) = n - m
  BY <1>1, <1>5
<1>8. /\ q \in Seq(T) /\ Len(q) = k + Len(t)
      /\ \A i \in 1..k+Len(t) : q[i] = IF i <= k THEN to[i] ELSE t[i - k]
  BY <1>2, <1>5, <1>6, ConcatProperties DEF k
<1>9. Len(q) = k + n - m
  BY <1>1, <1>7, <1>8
<1>10. ASSUME NEW i \in 1..k PROVE q[i] = to[i]
  BY <1>1, <1>7, <1>8
<1>11. ASSUME NEW i \in m+1..n, NEW j \in Nat, j + m = i + k PROVE q[j] = p[i]
  <2>1. /\ j \in 1..k+Len(t) /\ ~(j <= k) /\ j - k = i - m
        /\ i - m \in 1..n-(m+1)+1 /\ m + 1 + (i - m) - 1 = i
    BY <1>1, <1>7, <1>11
  <2>2. q[j] = t[i - m]
    BY <1>8, <2>1
  <2> QED
    BY <1>5, <2>1, <2>2
<1>12. IsSeq(q)
  BY <1>8, SeqIsSeq
<1>13. k \in 0..Len(q)
  BY <1>1, <1>9
<1>14. SubSeq(q, 1, k) = to
  <2>1. /\ IsSeq(SubSeq(q, 1, k)) /\ Len(SubSeq(q, 1, k)) = k
        /\ \A j \in 1..k : SubSeq(q, 1, k)[j] = q[j]
    BY <1>12, <1>13, PrefixIs
  <2>2. Len(to) = k
    BY DEF k
  <2> QED
    BY <1>10, <2>1, <2>2, SamePath
<1>15. \A i \in m+1..n : \A j \in Nat : j + m = i + k => q[j] = p[i]
  BY <1>11
<1> QED
  BY <1>9, <1>10, <1>12, <1>14, <1>15 DEF q, m, n, k

\* Name by name.
LEMMA MovedRest ==
    ASSUME NEW from, IsSeq(from), NEW to, IsSeq(to), NEW p, IsSeq(p), Len(from) <= Len(p),
           NEW i \in Len(from)+1..Len(p), NEW j \in Nat, j + Len(from) = i + Len(to)
    PROVE  Moved(from, to, p)[j] = p[i]
BY MovedIs

\* The beginnings of a moved path are those of the new one, then moved ones.
LEMMA MovedPrefix ==
    ASSUME NEW from, IsSeq(from), NEW to, IsSeq(to), NEW p, IsSeq(p), Len(from) <= Len(p),
           NEW i \in Len(from)..Len(p)
    PROVE  SubSeq(Moved(from, to, p), 1, Len(to) + i - Len(from)) = Moved(from, to, SubSeq(p, 1, i))
<1> DEFINE m == Len(from)
           k == Len(to)
           n == Len(p)
           s == SubSeq(p, 1, i)
           q == Moved(from, to, p)
           r == Moved(from, to, s)
           j == k + i - m
           a == SubSeq(q, 1, j)
<1>1. m \in Nat /\ n \in Nat /\ k \in Nat /\ m <= i /\ i <= n /\ i \in 0..n /\ i \in Nat
  BY IsSeqLen
<1>2. IsSeq(s) /\ Len(s) = i /\ \A x \in 1..i : s[x] = p[x]
  BY <1>1, PrefixIs
<1> HIDE DEF s
<1>3. /\ IsSeq(q) /\ Len(q) = k + n - m /\ \A x \in 1..k : q[x] = to[x]
      /\ \A x \in m+1..n : \A y \in Nat : y + m = x + k => q[y] = p[x]
  <2>1. IsSeq(q) /\ Len(q) = k + n - m /\ \A x \in 1..k : q[x] = to[x]
    BY MovedIs
  <2>2. \A x \in m+1..n : \A y \in Nat : y + m = x + k => q[y] = p[x]
    BY MovedRest
  <2> QED
    BY <2>1, <2>2
<1>4. /\ IsSeq(r) /\ Len(r) = k + i - m /\ \A x \in 1..k : r[x] = to[x]
      /\ \A x \in m+1..i : \A y \in Nat : y + m = x + k => r[y] = s[x]
  <2>1. Len(from) <= Len(s)
    BY <1>1, <1>2
  <2>2. IsSeq(s)
    BY <1>2
  <2>3. IsSeq(r) /\ Len(r) = k + Len(s) - m /\ \A x \in 1..k : r[x] = to[x]
    BY <2>1, <2>2, MovedIs
  <2>4. \A x \in m+1..Len(s) : \A y \in Nat : y + m = x + k => r[y] = s[x]
    BY <2>1, <2>2, MovedRest
  <2> HIDE DEF r, k, m
  <2> QED
    BY <1>2, <2>3, <2>4
<1> HIDE DEF q, r, m, k, n
<1>5. j \in 0..Len(q)
  BY <1>1, <1>3
<1>6. IsSeq(a) /\ Len(a) = j /\ \A x \in 1..j : a[x] = q[x]
  BY <1>3, <1>5, PrefixIs
<1>7. ASSUME NEW x \in 1..j PROVE a[x] = r[x]
  <2>1. CASE x \in 1..k
    BY <1>3, <1>4, <1>6, <2>1
  <2>2. CASE x \notin 1..k
    <3> DEFINE y == x - k + m
    <3>1. y \in m+1..i /\ y \in m+1..n /\ y \in 1..i /\ x + m = y + k /\ x \in Nat
      BY <1>1, <2>2
    <3> HIDE DEF y
    <3>2. q[x] = p[y] /\ r[x] = s[y] /\ s[y] = p[y]
      BY <1>2, <1>3, <1>4, <3>1
    <3> QED
      BY <1>6, <3>2
  <2> QED
    BY <2>1, <2>2
<1> HIDE DEF a, j
<1>8. a = r
  BY <1>4, <1>6, <1>7, SamePath DEF j
<1> QED
  BY <1>8 DEF a, r, q, s, j, m, k

\* What is moved was there once, so no two things come to one path.
LEMMA MovedOnce ==
    ASSUME NEW from, IsSeq(from), NEW to, IsSeq(to),
           NEW p, IsSeq(p), Len(from) <= Len(p), SubSeq(p, 1, Len(from)) = from,
           NEW q, IsSeq(q), Len(from) <= Len(q), SubSeq(q, 1, Len(from)) = from,
           Moved(from, to, p) = Moved(from, to, q)
    PROVE  p = q
<1> DEFINE m == Len(from)
           k == Len(to)
<1>1. m \in Nat /\ k \in Nat /\ Len(p) \in Nat /\ Len(q) \in Nat
  BY IsSeqLen
<1>2. /\ Len(Moved(from, to, p)) = k + Len(p) - m
      /\ \A i \in m+1..Len(p) : \A j \in Nat : j + m = i + k => Moved(from, to, p)[j] = p[i]
  <2>1. Len(Moved(from, to, p)) = k + Len(p) - m
    BY MovedIs
  <2>2. \A i \in m+1..Len(p) : \A j \in Nat : j + m = i + k => Moved(from, to, p)[j] = p[i]
    BY MovedRest
  <2> QED
    BY <2>1, <2>2
<1>3. /\ Len(Moved(from, to, q)) = k + Len(q) - m
      /\ \A i \in m+1..Len(q) : \A j \in Nat : j + m = i + k => Moved(from, to, q)[j] = q[i]
  <2>1. Len(Moved(from, to, q)) = k + Len(q) - m
    BY MovedIs
  <2>2. \A i \in m+1..Len(q) : \A j \in Nat : j + m = i + k => Moved(from, to, q)[j] = q[i]
    BY MovedRest
  <2> QED
    BY <2>1, <2>2
<1>4. Len(p) = Len(q)
  <2> HIDE DEF m, k
  <2> QED
    BY <1>1, <1>2, <1>3
<1>5. ASSUME NEW i \in 1..Len(p) PROVE p[i] = q[i]
  <2>1. CASE i \in m+1..Len(p)
    <3> DEFINE j == i + k - m
    <3>1. j \in Nat /\ j + m = i + k
      BY <1>1, <2>1
    <3> HIDE DEF j, m, k
    <3>2. Moved(from, to, p)[j] = p[i] /\ Moved(from, to, q)[j] = q[i]
      BY <1>2, <1>3, <1>4, <2>1, <3>1
    <3> QED
      BY <3>2
  <2>2. CASE i \in 1..m
    <3>1. m \in 0..Len(p) /\ m \in 0..Len(q)
      BY <1>1
    <3>2. SubSeq(p, 1, m)[i] = p[i]
      BY <2>2, <3>1, PrefixIs
    <3>3. SubSeq(q, 1, m)[i] = q[i]
      BY <2>2, <3>1, PrefixIs
    <3> QED
      BY <3>2, <3>3
  <2> QED
    BY <1>1, <2>1, <2>2
<1> QED
  BY <1>4, <1>5, SamePath

\* What is on the branch begins with the path it grows from.
LEMMA OnBranch ==
    ASSUME NEW tree, IsTree(tree), NEW from \in Nodes(tree), NEW p \in Branch(tree, from)
    PROVE  /\ p \in Nodes(tree) /\ IsSeq(from) /\ IsSeq(p) /\ Len(from) <= Len(p)
           /\ SubSeq(p, 1, Len(from)) = from
<1>1. IsSeq(from) /\ p \in Nodes(tree) /\ IsSeq(p) /\ Len(from) \in Nat /\ SubSeq(from, 1, Len(from)) = from
  BY IsSeqLen, EndsOfPrefix DEF IsTree, Branch
<1>2. p = from \/ IsStrictPrefix(from, p)
  BY DEF Branch
<1> QED
  BY <1>1, <1>2 DEF IsStrictPrefix, IsPrefix

\* What is on the way to a node on the branch is on it, or above it.
LEMMA BranchCloses ==
    ASSUME NEW tree, IsVault(tree), NEW from \in Nodes(tree), NEW p \in Nodes(tree),
           NEW y \in Parents(p), y \in Branch(tree, from)
    PROVE  p \in Branch(tree, from)
<1>1. IsTree(tree) /\ IsSeq(p) /\ IsSeq(from) /\ IsSeq(y)
  BY ParentsAre DEF IsVault, IsTree
<1>2. y = from \/ IsStrictPrefix(from, y)
  BY DEF Branch
<1>3. from \in Parents(p)
  <2>1. IsStrictPrefix(from, y) => from \in Parents(y)
    BY <1>1, BelowIs
  <2>2. Parents(y) \subseteq Parents(p)
    BY <1>1, ParentsAre
  <2> QED
    BY <1>2, <2>1, <2>2
<1>4. IsStrictPrefix(from, p)
  BY <1>1, <1>3, BelowIs
<1> QED
  BY <1>4 DEF Branch

\* Nothing is below what is no directory.
LEMMA NothingBelow ==
    ASSUME NEW tree, IsVault(tree), NEW q, q \notin tree.dirs, NEW p \in Nodes(tree)
    PROVE  q \notin Parents(p)
BY DEF IsVault

\* A moved path has names only.
LEMMA MovedPlain ==
    ASSUME NEW from, IsSeq(from), NEW to, IsSeq(to), Plain(to), NEW p, IsSeq(p), Plain(p),
           Len(from) <= Len(p)
    PROVE  Plain(Moved(from, to, p))
<1> DEFINE q == Moved(from, to, p)
<1>1. IsSeq(q) /\ Len(q) = Len(to) + Len(p) - Len(from) /\ \A i \in 1..Len(to) : q[i] = to[i]
  BY MovedIs
<1>2. /\ Len(to) \in Nat /\ Len(p) \in Nat /\ Len(from) \in Nat
      /\ DOMAIN q = 1..Len(q) /\ DOMAIN to = 1..Len(to) /\ DOMAIN p = 1..Len(p)
  BY <1>1, IsSeqLen
<1>3. ASSUME NEW j \in 1..Len(q) PROVE q[j] \in Range(to) \cup Range(p)
  <2>1. CASE j \in 1..Len(to)
    BY <1>1, <1>2, <2>1 DEF Range
  <2>2. CASE j \notin 1..Len(to)
    <3> DEFINE i == j - Len(to) + Len(from)
    <3>1. /\ i \in Len(from)+1..Len(p) /\ i \in 1..Len(p)
          /\ j \in Nat /\ j + Len(from) = i + Len(to)
      BY <1>1, <1>2, <2>2
    <3> HIDE DEF i
    <3>2. q[j] = p[i]
      BY <3>1, MovedRest
    <3> QED
      BY <1>2, <3>1, <3>2 DEF Range
  <2> QED
    BY <2>1, <2>2
<1> HIDE DEF q
<1>4. Plain(q)
  BY <1>2, <1>3 DEF Plain, Range
<1> QED
  BY <1>4 DEF q

\* On the way to what was moved is what leads to the new path, and what was moved.
LEMMA MovedParents ==
    ASSUME NEW tree, IsVault(tree), NEW from \in Nodes(tree), NEW to, IsSeq(to),
           NEW p \in Branch(tree, from), NEW y \in Parents(Moved(from, to, p))
    PROVE  \/ y \in Parents(to)
           \/ \E s \in tree.dirs \cap Branch(tree, from) : y = Moved(from, to, s)
<1> DEFINE q == Moved(from, to, p)
           m == Len(from)
           k == Len(to)
<1>1. IsTree(tree) /\ Len(from) \in Nat /\ Len(to) \in Nat
  BY IsSeqLen DEF IsVault, IsTree
<1>2. p \in Nodes(tree) /\ IsSeq(from) /\ IsSeq(p) /\ m <= Len(p) /\ SubSeq(p, 1, m) = from
  BY <1>1, OnBranch
<1>3. IsSeq(q) /\ Len(q) = k + Len(p) - m /\ SubSeq(q, 1, k) = to /\ Len(p) \in Nat
  BY <1>2, MovedIs, IsSeqLen
<1>4. y = SubSeq(q, 1, Len(y)) /\ Len(y) < Len(q) /\ IsSeq(y) /\ Len(y) \in Nat
  BY <1>3, ParentsAre, IsSeqLen
<1>5. CASE Len(y) < k
  <2>1. k \in 0..Len(q) /\ Len(y) \in 0..k /\ Len(y) \in 0..Len(to)-1
    BY <1>1, <1>2, <1>3, <1>4, <1>5
  <2>2. SubSeq(SubSeq(q, 1, k), 1, Len(y)) = SubSeq(q, 1, Len(y))
    BY <1>3, <2>1, PrefixOfPrefix
  <2>3. y = SubSeq(to, 1, Len(y))
    BY <1>3, <1>4, <2>2
  <2> QED
    BY <2>1, <2>3 DEF Parents
<1>6. CASE Len(y) >= k
  <2> DEFINE i == Len(y) - k + m
             s == SubSeq(p, 1, i)
  <2>1. i \in m..Len(p) /\ i \in 0..Len(p)-1 /\ k + i - m = Len(y) /\ i \in 0..Len(p) /\ m \in 0..i
    BY <1>1, <1>2, <1>3, <1>4, <1>6
  <2>2. SubSeq(q, 1, k + i - m) = Moved(from, to, s)
    <3>1. i \in Len(from)..Len(p)
      BY <2>1
    <3> HIDE DEF i
    <3> QED
      BY <1>2, <3>1, MovedPrefix
  <2>3. y = Moved(from, to, s)
    BY <1>4, <2>1, <2>2
  <2>4. s \in Parents(p)
    BY <2>1 DEF Parents
  <2>5. s \in tree.dirs
    BY <1>2, <2>4 DEF IsVault
  <2>6. s = from \/ from \in Parents(s)
    <3>1. IsSeq(s) /\ Len(s) = i
      BY <1>2, <2>1, PrefixIs
    <3>2. SubSeq(s, 1, m) = from
      BY <1>2, <2>1, PrefixOfPrefix
    <3> HIDE DEF s
    <3>3. CASE i = m
      BY <3>1, <3>2, <3>3, EndsOfPrefix
    <3>4. CASE i # m
      <4>1. m \in 0..Len(s)-1
        BY <2>1, <3>1, <3>4
      <4> QED
        BY <3>2, <4>1 DEF Parents
    <3> QED
      BY <3>3, <3>4
  <2>7. IsSeq(s)
    BY <1>1, <2>5 DEF IsTree, Nodes
  <2> HIDE DEF s, i
  <2>8. s \in Branch(tree, from)
    <3>1. from \in Parents(s) => IsStrictPrefix(from, s)
      BY <1>2, <2>7, BelowIs
    <3> QED
      BY <2>5, <2>6, <3>1 DEF Branch, Nodes
  <2> QED
    BY <2>3, <2>5, <2>8
<1> QED
  BY <1>1, <1>4, <1>5, <1>6

\* Where there is no directory nothing comes in the way.
LEMMA MovedIsNew ==
    ASSUME NEW tree, IsVault(tree), NEW from \in Nodes(tree), NEW to, IsSeq(to),
           to \notin tree.dirs, NEW p \in Branch(tree, from),
           p = from \/ from \in tree.dirs, from \in tree.dirs => to \notin tree.files
    PROVE  Moved(from, to, p) \notin tree.dirs /\ (p # from => Moved(from, to, p) \notin Nodes(tree))
<1> DEFINE q == Moved(from, to, p)
           k == Len(to)
<1>1. IsTree(tree) /\ Len(from) \in Nat /\ Len(to) \in Nat
  BY IsSeqLen DEF IsVault, IsTree
<1>2. p \in Nodes(tree) /\ IsSeq(from) /\ IsSeq(p) /\ Len(from) <= Len(p) /\ SubSeq(p, 1, Len(from)) = from
  BY <1>1, OnBranch
<1>3. IsSeq(q) /\ Len(q) = k + Len(p) - Len(from) /\ SubSeq(q, 1, k) = to /\ Len(p) \in Nat
  BY <1>2, MovedIs, IsSeqLen
<1>4. CASE p = from
  <2>1. Len(q) = k
    BY <1>1, <1>3, <1>4
  <2>2. q = to
    BY <1>3, <2>1, EndsOfPrefix
  <2> QED
    BY <1>4, <2>2
<1>5. CASE p # from
  <2>1. Len(p) # Len(from)
    BY <1>2, <1>5, EndsOfPrefix
  <2>2. k \in 0..Len(q)-1
    BY <1>1, <1>2, <1>3, <2>1
  <2>3. to \in Parents(q)
    BY <1>3, <2>2 DEF Parents
  <2>4. q \notin Nodes(tree)
    BY <2>3, NothingBelow
  <2> QED
    BY <2>4 DEF Nodes
<1> QED
  BY <1>4, <1>5

\* The rename of fs::move_file, of a file or of a directory with all below it,
\* leaves a vault: what was moved is at the new path and no file at the old one.
THEOREM MoveVault ==
    ASSUME NEW tree, IsVault(tree), <<>> \in tree.dirs, NEW from \in Nodes(tree), from # <<>>,
           NEW to, IsSeq(to), Plain(to), to \notin tree.dirs, to # from,
           from \in tree.dirs => to \notin tree.files, Parents(to) \cap tree.files = {},
           NEW next, next.files = Renamed(tree, from, to, tree.files),
           next.dirs = Renamed(tree, from, to, tree.dirs) \cup Parents(to),
           next.links = Renamed(tree, from, to, tree.links)
    PROVE  IsVault(next) /\ from \notin next.files /\ to \in Nodes(next)
<1> DEFINE B == Branch(tree, from)
           M(p) == Moved(from, to, p)
<1>1. IsTree(tree) /\ IsSeq(from) /\ tree.files \cap tree.dirs = {}
      /\ tree.links \subseteq tree.dirs \ {<<>>}
  BY DEF IsVault, IsTree
<1>2. \A p \in Nodes(tree) : IsSeq(p) /\ Plain(p) /\ Parents(p) \subseteq tree.dirs
  BY <1>1 DEF IsVault, IsTree
<1>3. \A p \in B : /\ p \in Nodes(tree) /\ IsSeq(p) /\ Len(from) <= Len(p)
                   /\ SubSeq(p, 1, Len(from)) = from
  BY <1>1, OnBranch
<1>4. from \in B /\ (from \notin tree.dirs => B = {from})
  <2>1. ASSUME from \notin tree.dirs, NEW p \in Nodes(tree), IsStrictPrefix(from, p) PROVE FALSE
    BY <1>1, <1>2, <2>1, BelowIs, NothingBelow
  <2> QED
    BY <2>1 DEF Branch
<1>5. \A p \in B : IsSeq(M(p)) /\ Plain(M(p)) /\ M(p) \notin tree.dirs
                   /\ (p # from => M(p) \notin Nodes(tree))
  <2> TAKE p \in B
  <2>1. IsSeq(M(p)) /\ Plain(M(p))
    BY <1>1, <1>2, <1>3, MovedIs, MovedPlain
  <2>2. p = from \/ from \in tree.dirs
    BY <1>4
  <2> HIDE DEF M
  <2>3. M(p) \notin tree.dirs /\ (p # from => M(p) \notin Nodes(tree))
    BY <2>2, MovedIsNew DEF M
  <2> QED
    BY <2>1, <2>3
<1>6. M(from) = to
  <2>1. ASSUME NEW p, p = from PROVE Moved(from, to, p) = to
    <3>1. IsSeq(p) /\ Len(from) <= Len(p) /\ Len(p) \in Nat /\ Len(to) \in Nat
      BY <1>3, <1>4, <2>1, IsSeqLen
    <3> DEFINE q == Moved(from, to, p)
    <3>2. IsSeq(q) /\ Len(q) = Len(to) + Len(p) - Len(from) /\ SubSeq(q, 1, Len(to)) = to
      BY <1>1, <3>1, MovedIs
    <3> HIDE DEF q
    <3>3. Len(q) = Len(to)
      BY <2>1, <3>1, <3>2
    <3>4. q = to
      BY <3>2, <3>3, EndsOfPrefix
    <3> QED
      BY <3>4 DEF q
  <2> QED
    BY <2>1
<1>7. \A p, q \in B : M(p) = M(q) => p = q
  BY <1>1, <1>3, MovedOnce
<1>8. \A p \in B : \A y \in Parents(M(p)) :
          y \in Parents(to) \/ \E s \in tree.dirs \cap B : y = M(s)
  BY MovedParents
<1>9. \A p \in Nodes(tree) \ B : Parents(p) \cap B = {}
  BY BranchCloses
<1>10. \A y \in Parents(to) : IsSeq(y) /\ Plain(y) /\ Parents(y) \subseteq Parents(to)
                              /\ y # to /\ \A p \in B : y # M(p)
  <2> TAKE y \in Parents(to)
  <2>1. IsSeq(y) /\ Len(y) < Len(to) /\ Plain(y) /\ Parents(y) \subseteq Parents(to)
    BY ParentsAre
  <2>2. ASSUME NEW p \in B PROVE Len(M(p)) >= Len(to) /\ Len(M(p)) \in Nat /\ Len(to) \in Nat /\ Len(y) \in Nat
    <3>1. Len(M(p)) = Len(to) + Len(p) - Len(from) /\ IsSeq(p) /\ Len(from) <= Len(p)
      BY <1>1, <1>3, MovedIs
    <3>2. Len(p) \in Nat /\ Len(from) \in Nat /\ Len(to) \in Nat /\ Len(y) \in Nat
      BY <1>1, <2>1, <3>1, IsSeqLen
    <3> HIDE DEF M
    <3> QED
      BY <3>1, <3>2
  <2>3. ASSUME NEW p \in B PROVE y # M(p)
    BY <2>1, <2>2
  <2> HIDE DEF M
  <2> QED
    BY <1>4, <1>6, <2>1, <2>3
<1> HIDE DEF M
<1>11. /\ next.files = {M(p) : p \in tree.files \cap B} \cup (tree.files \ B)
       /\ next.dirs = {M(p) : p \in tree.dirs \cap B} \cup (tree.dirs \ B) \cup Parents(to)
       /\ next.links = {M(p) : p \in tree.links \cap B} \cup (tree.links \ B)
  BY DEF Renamed, M
<1>12. <<>> \notin B
  <2>1. ASSUME <<>> \in B PROVE FALSE
    <3>1. IsStrictPrefix(from, <<>>)
      BY <2>1 DEF Branch
    <3> QED
      BY <1>1, <3>1, RootIsBelowNone
  <2> QED
    BY <2>1
<1> HIDE DEF B
<1>13. IsTree(next)
  <2>1. <<>> \in Nodes(next)
    BY <1>11, <1>12 DEF Nodes
  <2>2. ASSUME NEW p \in Nodes(next) PROVE IsSeq(p)
    <3>1. \/ p \in Nodes(tree) \/ p \in Parents(to) \/ \E q \in B : p = M(q)
      BY <1>11 DEF Nodes
    <3> QED
      BY <1>2, <1>5, <1>10, <3>1
  <2> QED
    BY <2>1, <2>2 DEF IsTree
<1>14. next.files \cap next.dirs = {}
  <2> SUFFICES ASSUME NEW x \in next.files, x \in next.dirs PROVE FALSE
    OBVIOUS
  <2>1. CASE x \in {M(p) : p \in tree.files \cap B}
    <3>1. PICK p \in tree.files \cap B : x = M(p)
      BY <2>1
    <3>2. x \notin tree.dirs /\ x \notin Parents(to)
      BY <1>5, <1>10, <3>1
    <3>3. PICK q \in tree.dirs \cap B : x = M(q)
      BY <1>11, <3>2
    <3>4. p = q
      BY <1>7, <3>1, <3>3
    <3> QED
      BY <1>1, <3>1, <3>3, <3>4
  <2>2. CASE x \in tree.files \ B
    <3>1. x \notin tree.dirs /\ x \notin Parents(to)
      BY <1>1, <2>2
    <3>2. PICK q \in tree.dirs \cap B : x = M(q)
      BY <1>11, <3>1
    <3>3. q # from
      BY <1>1, <1>6, <2>2, <3>2
    <3> QED
      BY <1>5, <2>2, <3>2, <3>3 DEF Nodes
  <2> QED
    BY <1>11, <2>1, <2>2
<1>15. next.links \subseteq next.dirs \ {<<>>}
  <2> SUFFICES ASSUME NEW x \in next.links PROVE x \in next.dirs /\ x # <<>>
    OBVIOUS
  <2>1. CASE x \in tree.links \ B
    BY <1>1, <1>11, <2>1
  <2>2. CASE x \in {M(p) : p \in tree.links \cap B}
    <3>1. PICK p \in tree.links \cap B : x = M(p)
      BY <2>2
    <3>2. x \notin tree.dirs
      BY <1>5, <3>1
    <3> QED
      BY <1>1, <1>11, <3>1, <3>2
  <2> QED
    BY <1>11, <2>1, <2>2
<1>16. ASSUME NEW p \in Nodes(next) PROVE Plain(p) /\ Parents(p) \subseteq next.dirs
  <2>1. CASE p \in Nodes(tree) \ B
    BY <1>2, <1>9, <1>11, <2>1
  <2>2. CASE p \in Parents(to)
    BY <1>10, <1>11, <2>2
  <2>3. CASE \E q \in B : p = M(q)
    BY <1>5, <1>8, <1>11, <2>3
  <2> QED
    BY <1>11, <2>1, <2>2, <2>3 DEF Nodes
<1>17. from \notin next.files
  <2> SUFFICES ASSUME from \in next.files PROVE FALSE
    OBVIOUS
  <2>1. PICK p \in tree.files \cap B : from = M(p)
    BY <1>4, <1>11
  <2>2. p = from
    BY <1>5, <2>1
  <2> QED
    BY <1>6, <2>1, <2>2
<1>18. to \in Nodes(next)
  BY <1>4, <1>6, <1>11 DEF Nodes
<1> QED
  BY <1>13, <1>14, <1>15, <1>16, <1>17, <1>18 DEF IsVault

\* A directory may also take the place of an empty one.
THEOREM ReplaceVault ==
    ASSUME NEW tree, IsVault(tree), <<>> \in tree.dirs, NEW from \in tree.dirs, from # <<>>,
           NEW to \in tree.dirs \ tree.links, Plain(to), to # from, ~IsStrictPrefix(from, to),
           \A q \in Nodes(tree) : ~IsStrictPrefix(to, q), Parents(to) \cap tree.files = {},
           NEW next, next.files = Renamed(tree, from, to, tree.files),
           next.dirs = Renamed(tree, from, to, tree.dirs) \cup Parents(to),
           next.links = Renamed(tree, from, to, tree.links)
    PROVE  IsVault(next) /\ from \notin next.files /\ to \in Nodes(next)
<1> DEFINE bare == [files |-> tree.files, dirs |-> tree.dirs \ {to}, links |-> tree.links]
<1>1. /\ \A p \in Nodes(tree) : IsSeq(p)
      /\ from \in Nodes(tree) /\ to \in Nodes(tree) /\ to \notin tree.files
  BY DEF IsVault, IsTree, Nodes
<1>2. to # <<>>
  <2>1. Len(from) \in Nat /\ Len(from) > 0
    BY <1>1, IsSeqLen, EmptySeq
  <2>2. SubSeq(from, 1, 0) = <<>>
    BY <1>1, EndsOfPrefix
  <2>3. 0 \in 0..Len(from)-1
    BY <2>1
  <2>4. <<>> \in Parents(from)
    BY <2>2, <2>3 DEF Parents
  <2> QED
    BY <1>1, <2>4, BelowIs
<1>3. \A p \in Nodes(tree) : to \notin Parents(p)
  BY <1>1, BelowIs
<1>4. IsVault(bare)
  BY <1>1, <1>2, <1>3, WithoutLeaf
<1>5. Nodes(bare) = Nodes(tree) \ {to}
  BY <1>1 DEF Nodes
<1>6. Branch(bare, from) = Branch(tree, from) /\ to \notin Branch(tree, from)
  BY <1>5 DEF Branch
<1>7. Moved(from, to, from) = to /\ from \in Branch(tree, from)
  <2>1. ASSUME NEW p, p = from PROVE Moved(from, to, p) = to
    <3>1. IsSeq(p) /\ Len(from) <= Len(p) /\ Len(p) \in Nat /\ Len(to) \in Nat
      BY <1>1, <2>1, IsSeqLen
    <3> DEFINE q == Moved(from, to, p)
    <3>2. IsSeq(q) /\ Len(q) = Len(to) + Len(p) - Len(from) /\ SubSeq(q, 1, Len(to)) = to
      BY <1>1, <3>1, MovedIs
    <3> HIDE DEF q
    <3>3. Len(q) = Len(to)
      BY <2>1, <3>1, <3>2
    <3>4. q = to
      BY <3>2, <3>3, EndsOfPrefix
    <3> QED
      BY <3>4 DEF q
  <2> QED
    BY <2>1 DEF Branch
<1>8. /\ next.files = Renamed(bare, from, to, bare.files)
      /\ next.dirs = Renamed(bare, from, to, bare.dirs) \cup Parents(to)
      /\ next.links = Renamed(bare, from, to, bare.links)
  <2>1. Renamed(bare, from, to, bare.dirs) = Renamed(tree, from, to, tree.dirs)
    BY <1>6, <1>7 DEF Renamed
  <2> QED
    BY <1>6, <2>1 DEF Renamed
<1>9. <<>> \in bare.dirs /\ from \in Nodes(bare) /\ to \notin bare.dirs /\ to \notin bare.files
  BY <1>1, <1>2, <1>5
<1> HIDE DEF bare
<1> QED
  BY <1>1, <1>4, <1>8, <1>9, MoveVault DEF bare
================================================================================
