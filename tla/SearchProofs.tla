----------------------------- MODULE SearchProofs -----------------------------
(* For any bodies, vaults, requests, callers and limits: the chunks of a body   *)
(* cover it (ChunkNote, Covers); an answer leaves out only what it has no room  *)
(* for (SearchAnswered); and the passages it shows are those the vectors are of *)
(* (PassagesMatch), as long as no restart changes the packing.                  *)
(*                                                                              *)
(* The first third is about the chunker: what its recursions compute, by        *)
(* induction over the positions of a body. Then TextsInv has texts where texts  *)
(* belong, SearchInv what a search has taken on its way and what it skipped,    *)
(* JobInv where the request of a note being embedded is, and PassageInv whose   *)
(* vectors the store has.                                                       *)
EXTENDS Search, SequenceTheorems, FiniteSetTheorems, WellFoundedInduction, TLAPS

--------------------------------------------------------------------------------
(* Numbers, and functions defined by recursion over them.                      *)

\* A set of numbers with zero and the successor of each of its numbers has all.
LEMMA Induction ==
    ASSUME NEW S, 0 \in S, \A n \in Nat : n \in S => n + 1 \in S
    PROVE  Nat \subseteq S
<1>1. SUFFICES ASSUME Nat \ S # {} PROVE FALSE
  OBVIOUS
<1>2. \A y, z \in Nat : y < z => <<y, z>> \in OpToRel(<, Nat)
  BY DEF OpToRel
<1>3. PICK x \in Nat \ S : \A y \in Nat \ S : <<y, x>> \notin OpToRel(<, Nat)
  BY <1>1, WFMin, NatLessThanWellFounded
<1>4. x \in Nat /\ x # 0 /\ x - 1 \in Nat /\ x - 1 < x
  OBVIOUS
<1>5. x - 1 \in S
  BY <1>2, <1>3, <1>4
<1>6. (x - 1) + 1 \in S /\ (x - 1) + 1 = x
  BY <1>4, <1>5
<1> QED
  BY <1>6

\* Induction that may use every smaller number.
LEMMA StrongInduction ==
    ASSUME NEW S, \A n \in Nat : (\A m \in 0..n - 1 : m \in S) => n \in S
    PROVE  Nat \subseteq S
<1> DEFINE T == {n \in Nat : \A m \in 0..n : m \in S}
<1>1. 0 \in T
  <2>1. \A m \in 0..0 - 1 : m \in S
    OBVIOUS
  <2>2. 0 \in S /\ \A m \in 0..0 : m = 0
    BY <2>1
  <2> QED
    BY <2>2
<1>2. ASSUME NEW n \in Nat, n \in T PROVE n + 1 \in T
  <2>1. \A m \in 0..(n + 1) - 1 : m \in S
    BY <1>2
  <2>2. n + 1 \in S
    BY <2>1
  <2>3. \A m \in 0..n + 1 : m \in 0..n \/ m = n + 1
    OBVIOUS
  <2> QED
    BY <1>2, <2>2, <2>3
<1> HIDE DEF T
<1>3. Nat \subseteq T
  BY <1>1, <1>2, Induction
<1> QED
  BY <1>3 DEF T

\* Numbers have a least one, which is what Min is.
LEMMA MinIsLeast ==
    ASSUME NEW S \in SUBSET Nat, S # {}
    PROVE  Min(S) \in S /\ \A y \in S : Min(S) <= y
<1>1. \A y, z \in Nat : y < z => <<y, z>> \in OpToRel(<, Nat)
  BY DEF OpToRel
<1>2. PICK x \in S : \A y \in S : <<y, x>> \notin OpToRel(<, Nat)
  BY WFMin, NatLessThanWellFounded
<1>3. ASSUME NEW y \in S PROVE x <= y
  <2>1. x \in Nat /\ y \in Nat /\ ~(y < x)
    BY <1>1, <1>2
  <2> QED
    BY <2>1
<1> QED
  BY <1>3 DEF Min

\* Numbers that stay below a bound have a greatest one, which is what Max is.
LEMMA MaxIsGreatest ==
    ASSUME NEW n \in Nat, NEW S \in SUBSET (0..n), S # {}
    PROVE  Max(S) \in S /\ \A y \in S : y <= Max(S)
<1> DEFINE T == {n - x : x \in S}
<1>1. T \in SUBSET Nat /\ T # {}
  <2>1. \A x \in S : x \in 0..n /\ n - x \in Nat
    OBVIOUS
  <2> QED
    BY <2>1
<1>2. Min(T) \in T /\ \A y \in T : Min(T) <= y
  BY <1>1, MinIsLeast
<1>3. PICK x \in S : Min(T) = n - x
  BY <1>2
<1>4. \A y \in S : y <= x
  <2>1. ASSUME NEW y \in S PROVE y <= x
    <3>1. n - x <= n - y
      BY <1>2, <1>3
    <3> QED
      BY <3>1
  <2> QED
    BY <2>1
<1>5. \E z \in S : \A y \in S : z >= y
  BY <1>4
<1>6. Max(S) \in S /\ \A y \in S : Max(S) >= y
  BY <1>5, Zenon DEF Max
<1> QED
  BY <1>6

\* The lesser and the greater of two numbers.
LEMMA MinOfTwo ==
    ASSUME NEW x \in Int, NEW y \in Int
    PROVE  Min({x, y}) = IF x <= y THEN x ELSE y
<1>1. \E z \in {x, y} : \A u \in {x, y} : z =< u
  OBVIOUS
<1>2. Min({x, y}) \in {x, y} /\ \A u \in {x, y} : Min({x, y}) =< u
  BY <1>1, Zenon DEF Min
<1> QED
  BY <1>2

\* The greater of two numbers.
LEMMA MaxOfTwo ==
    ASSUME NEW x \in Int, NEW y \in Int
    PROVE  Max({x, y}) = IF x <= y THEN y ELSE x
<1>1. \E z \in {x, y} : \A u \in {x, y} : z >= u
  OBVIOUS
<1>2. Max({x, y}) \in {x, y} /\ \A u \in {x, y} : Max({x, y}) >= u
  BY <1>1, Zenon DEF Max
<1> QED
  BY <1>2

\* Each value of f comes from an earlier one, by steps within V.
Recurs(f, n, base, back, step) ==
    f[0] = base /\ \A k \in 1..n : f[k] = step[k][f[back[k]]]

\* A recursion from a base by steps within V defines a function into V.
LEMMA Recursion ==
    ASSUME NEW V, NEW n \in Nat, NEW base \in V, NEW step \in [1..n -> [V -> V]],
           NEW back \in [1..n -> Nat], \A k \in 1..n : back[k] < k
    PROVE  \E f \in [0..n -> V] : Recurs(f, n, base, back, step)
<1> DEFINE Follows(f, m) == f[0] = base /\ \A k \in 1..m : f[k] = step[k][f[back[k]]]
           S == {m \in Nat : m <= n => \E f \in [0..m -> V] : Follows(f, m)}
<1>1. 0 \in S
  <2>1. Follows([k \in 0..0 |-> base], 0) /\ [k \in 0..0 |-> base] \in [0..0 -> V]
    OBVIOUS
  <2> QED
    BY <2>1
<1>2. ASSUME NEW m \in Nat, m \in S, m + 1 <= n
      PROVE  \E f \in [0..m+1 -> V] : Follows(f, m + 1)
  <2>1. m + 1 <= n
    BY <1>2
  <2>2. PICK f \in [0..m -> V] : Follows(f, m)
    BY <1>2, <2>1
  <2> DEFINE g == [k \in 0..m+1 |-> IF k = m + 1 THEN step[k][f[back[k]]] ELSE f[k]]
  <2>3. m + 1 \in 1..n /\ back[m + 1] \in 0..m
    BY <2>1
  <2>4. step[m + 1][f[back[m + 1]]] \in V
    BY <2>3
  <2>5. g \in [0..m+1 -> V]
    BY <2>4
  <2>6. ASSUME NEW k \in 1..m+1 PROVE g[k] = step[k][g[back[k]]]
    <3>1. k \in 1..n /\ back[k] \in 0..m /\ back[k] # m + 1
      BY <2>1
    <3>2. g[back[k]] = f[back[k]]
      BY <3>1
    <3>3. CASE k = m + 1
      <4>1. g[k] = step[k][f[back[k]]]
        BY <3>3
      <4> QED
        BY <3>2, <4>1
    <3>4. CASE k # m + 1
      <4>1. k \in 1..m /\ k \in 0..m + 1
        BY <3>4
      <4>2. f[k] = step[k][f[back[k]]]
        BY <2>2, <4>1
      <4>3. g[k] = f[k]
        BY <3>4, <4>1
      <4> QED
        BY <3>2, <4>2, <4>3
    <3> QED
      BY <3>3, <3>4
  <2>7. g[0] = base
    BY <2>2
  <2> QED
    BY <2>5, <2>6, <2>7
<1>3. n \in S
  <2>1. ASSUME NEW m \in Nat, m \in S PROVE m + 1 \in S
    <3>1. m + 1 <= n => \E f \in [0..m+1 -> V] : Follows(f, m + 1)
      BY <1>2, <2>1
    <3> HIDE DEF Follows
    <3> QED
      BY <3>1
  <2> HIDE DEF S
  <2> QED
    BY <1>1, <2>1, Induction
<1>4. PICK f \in [0..n -> V] : Follows(f, n)
  BY <1>3
<1> QED
  BY <1>4 DEF Recurs

--------------------------------------------------------------------------------
(* Sequences, of whatever they are.                                            *)

IsSeq(s) == s \in Seq(Range(s))

\* A sequence over any set is one over its own elements.
LEMMA SeqIsSeq == ASSUME NEW S, NEW s \in Seq(S) PROVE IsSeq(s)
<1>1. s \in [1..Len(s) -> S] /\ Len(s) \in Nat
  BY LenProperties
<1>2. s \in [1..Len(s) -> Range(s)]
  BY <1>1 DEF Range
<1> QED
  BY <1>1, <1>2, SeqDef DEF IsSeq

\* Its places are the numbers up to its length.
LEMMA IsSeqLen ==
    ASSUME NEW s, IsSeq(s)
    PROVE  /\ Len(s) \in Nat /\ DOMAIN s = 1..Len(s) /\ (s # <<>> <=> Len(s) > 0)
           /\ \A i \in 1..Len(s) : s[i] \in Range(s)
           /\ \A x \in Range(s) : \E i \in 1..Len(s) : x = s[i]
<1>1. Len(s) \in Nat /\ DOMAIN s = 1..Len(s) /\ (s # <<>> <=> Len(s) > 0)
  BY DEF IsSeq
<1> QED
  BY <1>1 DEF Range

\* A sequence over a set is one whose elements are in it.
LEMMA SeqOver ==
    ASSUME NEW s, IsSeq(s), NEW S, \A i \in 1..Len(s) : s[i] \in S PROVE s \in Seq(S)
<1>1. Range(s) \subseteq S
  BY IsSeqLen
<1> QED
  BY <1>1, SeqMonotonic DEF IsSeq

\* A function on the numbers up to one is a sequence.
LEMMA FunIsSeq ==
    ASSUME NEW n \in Nat, NEW f, f = [i \in 1..n |-> f[i]]
    PROVE  IsSeq(f) /\ Len(f) = n
<1>1. f \in [1..n -> Range(f)]
  BY DEF Range
<1>2. f \in Seq(Range(f))
  BY <1>1, SeqDef
<1>3. Len(f) \in Nat /\ DOMAIN f = 1..Len(f) /\ DOMAIN f = 1..n
  BY <1>1, <1>2, LenProperties
<1> QED
  BY <1>2, <1>3 DEF IsSeq

\* Two sequences with the same elements at the same places are one.
LEMMA SeqEq ==
    ASSUME NEW s, IsSeq(s), NEW t, IsSeq(t), Len(s) = Len(t),
           \A i \in 1..Len(s) : s[i] = t[i]
    PROVE  s = t
<1> DEFINE T == Range(s) \cup Range(t)
<1>1. s \in Seq(T) /\ t \in Seq(T)
  BY SeqMonotonic DEF IsSeq
<1> HIDE DEF T
<1> QED
  BY <1>1, SeqEqual

\* What Append, \o, SubSeq and Tail make of sequences.
LEMMA AppendIs ==
    ASSUME NEW s, IsSeq(s), NEW x
    PROVE  /\ IsSeq(Append(s, x)) /\ Len(Append(s, x)) = Len(s) + 1
           /\ \A i \in 1..Len(s) : Append(s, x)[i] = s[i]
           /\ Append(s, x)[Len(s) + 1] = x
           /\ Range(Append(s, x)) = Range(s) \cup {x}
<1> DEFINE T == Range(s) \cup {x}
<1>1. s \in Seq(T) /\ x \in T
  BY SeqMonotonic DEF IsSeq
<1> HIDE DEF T
<1>2. /\ Append(s, x) \in Seq(T) /\ Len(Append(s, x)) = Len(s) + 1
      /\ \A i \in 1..Len(s) : Append(s, x)[i] = s[i]
      /\ Append(s, x)[Len(s) + 1] = x
  BY <1>1, AppendProperties
<1>3. IsSeq(Append(s, x))
  BY <1>2, SeqIsSeq
<1>4. Len(s) \in Nat
  BY IsSeqLen
<1>5. ASSUME NEW y PROVE y \in Range(Append(s, x)) <=> y \in Range(s) \/ y = x
  <2>1. ASSUME y \in Range(Append(s, x)) PROVE y \in Range(s) \/ y = x
    <3>1. PICK i \in 1..Len(Append(s, x)) : y = Append(s, x)[i]
      BY <1>3, <2>1, IsSeqLen
    <3> i \in 1..Len(s) + 1
      BY <1>2
    <3>2. i \in 1..Len(s) \/ i = Len(s) + 1
      BY <1>4
    <3> QED
      BY <1>2, <3>1, <3>2, IsSeqLen
  <2>2. ASSUME y \in Range(s) PROVE y \in Range(Append(s, x))
    <3>1. PICK i \in 1..Len(s) : y = s[i]
      BY <2>2, IsSeqLen
    <3>2. i \in 1..Len(Append(s, x))
      BY <1>2, <1>4
    <3> QED
      BY <1>2, <1>3, <3>1, <3>2, IsSeqLen
  <2>3. x \in Range(Append(s, x))
    <3>1. Len(s) + 1 \in 1..Len(Append(s, x))
      BY <1>2, <1>4
    <3> QED
      BY <1>2, <1>3, <3>1, IsSeqLen
  <2> QED
    BY <2>1, <2>2, <2>3
<1> QED
  BY <1>2, <1>3, <1>5

\* What a concatenation is.
LEMMA ConcatIs ==
    ASSUME NEW s, IsSeq(s), NEW t, IsSeq(t)
    PROVE  /\ IsSeq(s \o t) /\ Len(s \o t) = Len(s) + Len(t)
           /\ \A i \in 1..Len(s) : (s \o t)[i] = s[i]
           /\ \A i \in 1..Len(t) : (s \o t)[Len(s) + i] = t[i]
           /\ Range(s \o t) = Range(s) \cup Range(t)
<1> DEFINE T == Range(s) \cup Range(t)
<1>1. s \in Seq(T) /\ t \in Seq(T)
  BY SeqMonotonic DEF IsSeq
<1> HIDE DEF T
<1>2. /\ s \o t \in Seq(T) /\ Len(s \o t) = Len(s) + Len(t)
      /\ \A i \in 1..Len(s) + Len(t) : (s \o t)[i] = IF i <= Len(s) THEN s[i] ELSE t[i - Len(s)]
  BY <1>1, ConcatProperties
<1>3. IsSeq(s \o t)
  BY <1>2, SeqIsSeq
<1>4. Len(s) \in Nat /\ Len(t) \in Nat
  BY IsSeqLen
<1>5. \A i \in 1..Len(s) : (s \o t)[i] = s[i]
  BY <1>2, <1>4
<1>6. ASSUME NEW i \in 1..Len(t) PROVE (s \o t)[Len(s) + i] = t[i]
  <2>1. Len(s) + i \in 1..Len(s) + Len(t) /\ ~(Len(s) + i <= Len(s)) /\ (Len(s) + i) - Len(s) = i
    BY <1>4
  <2> QED
    BY <1>2, <2>1
<1>7. ASSUME NEW y PROVE y \in Range(s \o t) <=> y \in Range(s) \/ y \in Range(t)
  <2>1. ASSUME y \in Range(s \o t) PROVE y \in Range(s) \/ y \in Range(t)
    <3>1. PICK i \in 1..Len(s \o t) : y = (s \o t)[i]
      BY <1>3, <2>1, IsSeqLen
    <3> i \in 1..Len(s) + Len(t)
      BY <1>2
    <3>2. i \in 1..Len(s) \/ i - Len(s) \in 1..Len(t)
      BY <1>4
    <3>3. i \in 1..Len(s) => y = s[i]
      BY <1>5, <3>1
    <3>4. i - Len(s) \in 1..Len(t) => y = t[i - Len(s)]
      BY <1>2, <1>4, <3>1
    <3> QED
      BY <3>2, <3>3, <3>4, IsSeqLen
  <2>2. ASSUME y \in Range(s) PROVE y \in Range(s \o t)
    <3>1. PICK i \in 1..Len(s) : y = s[i]
      BY <2>2, IsSeqLen
    <3>2. i \in 1..Len(s \o t)
      BY <1>2, <1>4
    <3> QED
      BY <1>3, <1>5, <3>1, <3>2, IsSeqLen
  <2>3. ASSUME y \in Range(t) PROVE y \in Range(s \o t)
    <3>1. PICK i \in 1..Len(t) : y = t[i]
      BY <2>3, IsSeqLen
    <3>2. Len(s) + i \in 1..Len(s \o t)
      BY <1>2, <1>4
    <3> QED
      BY <1>3, <1>6, <3>1, <3>2, IsSeqLen
  <2> QED
    BY <2>1, <2>2, <2>3
<1> QED
  BY <1>2, <1>3, <1>5, <1>6, <1>7

\* What a part of a sequence is.
LEMMA SubSeqIs ==
    ASSUME NEW s, IsSeq(s), NEW m \in Nat \ {0}, NEW n \in Int, n <= Len(s)
    PROVE  /\ IsSeq(SubSeq(s, m, n)) /\ Len(SubSeq(s, m, n)) = IF m <= n THEN n - m + 1 ELSE 0
           /\ \A i \in 1..Len(SubSeq(s, m, n)) :
                 SubSeq(s, m, n)[i] = s[m + i - 1] /\ m + i - 1 \in 1..Len(s)
<1>1. \A i \in m..n : s[i] \in Range(s)
  BY IsSeqLen
<1>2. /\ SubSeq(s, m, n) \in Seq(Range(s))
      /\ Len(SubSeq(s, m, n)) = IF m <= n THEN n - m + 1 ELSE 0
      /\ \A i \in 1..n-m+1 : SubSeq(s, m, n)[i] = s[m + i - 1]
  BY <1>1, SubSeqProperties
<1>3. Len(s) \in Nat
  BY IsSeqLen
<1>4. \A i \in 1..Len(SubSeq(s, m, n)) : i \in 1..n-m+1 /\ m + i - 1 \in 1..Len(s)
  BY <1>2, <1>3
<1> QED
  BY <1>2, <1>4, SeqIsSeq

\* What is left behind the first element.
LEMMA TailIs ==
    ASSUME NEW s, IsSeq(s), s # <<>>
    PROVE  /\ IsSeq(Tail(s)) /\ Len(Tail(s)) = Len(s) - 1
           /\ \A i \in 1..Len(Tail(s)) : Tail(s)[i] = s[i + 1]
           /\ Head(s) = s[1]
<1>1. /\ Tail(s) \in Seq(Range(s)) /\ Len(Tail(s)) = Len(s) - 1
      /\ \A i \in 1..Len(Tail(s)) : Tail(s)[i] = s[i + 1]
  BY HeadTailProperties DEF IsSeq
<1>2. Head(s) = s[1]
  BY DEF IsSeq
<1> QED
  BY <1>1, <1>2, SeqIsSeq

\* The sequences of no element and of one.
LEMMA TuplesAre ==
    /\ IsSeq(<<>>) /\ Len(<<>>) = 0 /\ Range(<<>>) = {}
    /\ \A x : IsSeq(<<x>>) /\ Len(<<x>>) = 1 /\ <<x>>[1] = x /\ Range(<<x>>) = {x}
<1>1. <<>> \in Seq({}) /\ Len(<<>>) = 0
  OBVIOUS
<1>2. Range(<<>>) = {}
  BY DEF Range
<1>3. ASSUME NEW x PROVE IsSeq(<<x>>) /\ Len(<<x>>) = 1 /\ <<x>>[1] = x /\ Range(<<x>>) = {x}
  <2>1. <<x>> \in Seq({x}) /\ Len(<<x>>) = 1 /\ <<x>>[1] = x
    OBVIOUS
  <2>2. IsSeq(<<x>>)
    BY <2>1, SeqIsSeq
  <2>3. \A y : y \in Range(<<x>>) <=> y = x
    <3>1. DOMAIN <<x>> = 1..1
      BY <2>1, <2>2, IsSeqLen
    <3> QED
      BY <2>1, <3>1 DEF Range
  <2> QED
    BY <2>1, <2>2, <2>3
<1> QED
  BY <1>1, <1>2, <1>3, SeqIsSeq

\* The steps of Within: of ever longer parts of a sequence, what is in the set.
Selects(upto, s, S) ==
    /\ upto[0] = <<>>
    /\ \A k \in 1..Len(s) :
          upto[k] = IF s[k] \in S THEN Append(upto[k - 1], s[k]) ELSE upto[k - 1]

\* The sequence Within builds, element by element.
LEMMA WithinSteps ==
    ASSUME NEW s, IsSeq(s), NEW S
    PROVE  \E upto : Selects(upto, s, S) /\ Within(s, S) = upto[Len(s)]
<1> DEFINE n == Len(s)
           V == Seq(Range(s))
           base == <<>>
           back == [k \in 1..n |-> k - 1]
           step == [k \in 1..n |-> [t \in V |-> IF s[k] \in S THEN Append(t, s[k]) ELSE t]]
           Follows(f) == f = [k \in 0..n |-> IF k = 0 THEN <<>>
                              ELSE IF s[k] \in S THEN Append(f[k - 1], s[k]) ELSE f[k - 1]]
           upto == CHOOSE f : Follows(f)
<1>1. n \in Nat /\ \A k \in 1..n : s[k] \in Range(s)
  BY IsSeqLen
<1> HIDE DEF n
<1>2. base \in V
  OBVIOUS
<1>3. step \in [1..n -> [V -> V]]
  <2>1. \A k \in 1..n : \A t \in V : Append(t, s[k]) \in V
    BY <1>1
  <2> HIDE DEF V
  <2> QED
    BY <2>1
<1>4. back \in [1..n -> Nat] /\ \A k \in 1..n : back[k] < k
  BY <1>1
<1> HIDE DEF base, step, V, back
<1>5. PICK f \in [0..n -> V] : Recurs(f, n, base, back, step)
  BY <1>1, <1>2, <1>3, <1>4, Recursion
<1>6. Follows(f)
  <2>1. ASSUME NEW k \in 0..n
        PROVE  f[k] = IF k = 0 THEN <<>>
                      ELSE IF s[k] \in S THEN Append(f[k - 1], s[k]) ELSE f[k - 1]
    <3>1. CASE k = 0
      BY <3>1, <1>5 DEF Recurs, base
    <3>2. CASE k # 0
      <4>1. k \in 1..n /\ k - 1 \in 0..n /\ back[k] = k - 1
        BY <1>1, <3>2 DEF back
      <4>2. f[k] = step[k][f[k - 1]]
        BY <1>5, <4>1 DEF Recurs
      <4>3. f[k - 1] \in V
        BY <4>1
      <4>4. step[k][f[k - 1]] = IF s[k] \in S THEN Append(f[k - 1], s[k]) ELSE f[k - 1]
        BY <4>1, <4>3 DEF step
      <4> QED
        BY <3>2, <4>2, <4>4
    <3> QED
      BY <3>1, <3>2
  <2> QED
    BY <2>1
<1>7. Follows(upto)
  BY <1>6, Zenon
<1> HIDE DEF upto
<1>8. upto[0] = <<>>
  BY <1>1, <1>7
<1>9. ASSUME NEW k \in 1..n
      PROVE  upto[k] = IF s[k] \in S THEN Append(upto[k - 1], s[k]) ELSE upto[k - 1]
  <2>1. k \in 0..n /\ k # 0
    BY <1>1
  <2> QED
    BY <1>7, <2>1
<1>10. Within(s, S) = upto[n]
  BY Zenon DEF Within, upto, n
<1> QED
  BY <1>8, <1>9, <1>10 DEF Selects, n

\* h places the elements of t, in order, on those of the first k of s that are in S.
Picks(h, t, s, k, S) ==
    /\ h \in [1..Len(t) -> 1..k]
    /\ \A i, j \in 1..Len(t) : i < j => h[i] < h[j]
    /\ \A i \in 1..Len(t) : t[i] = s[h[i]] /\ t[i] \in S
    /\ \A j \in 1..k : s[j] \in S => \E i \in 1..Len(t) : h[i] = j

\* Within keeps the order and exactly the elements that are in the set.
LEMMA WithinIs ==
    ASSUME NEW s, IsSeq(s), NEW S
    PROVE  /\ IsSeq(Within(s, S))
           /\ \E h : Picks(h, Within(s, S), s, Len(s), S)
<1>1. PICK upto : Selects(upto, s, S) /\ Within(s, S) = upto[Len(s)]
  BY WithinSteps
<1> DEFINE T == {k \in Nat : k <= Len(s) =>
                     IsSeq(upto[k]) /\ \E h : Picks(h, upto[k], s, k, S)}
<1>2. Len(s) \in Nat
  BY IsSeqLen
<1>3. 0 \in T
  <2>1. upto[0] = <<>> /\ Len(<<>>) = 0 /\ IsSeq(<<>>)
    BY <1>1, TuplesAre DEF Selects
  <2>2. Picks([i \in 1..0 |-> i], <<>>, s, 0, S)
    BY <2>1 DEF Picks
  <2> QED
    BY <2>1, <2>2
<1>4. ASSUME NEW k \in Nat, k \in T PROVE k + 1 \in T
  <2>1. SUFFICES ASSUME k + 1 <= Len(s)
                 PROVE  IsSeq(upto[k + 1]) /\ \E h : Picks(h, upto[k + 1], s, k + 1, S)
    OBVIOUS
  <2>2. IsSeq(upto[k])
    BY <1>2, <1>4, <2>1
  <2>3. PICK h : Picks(h, upto[k], s, k, S)
    BY <1>2, <1>4, <2>1
  <2> DEFINE m == Len(upto[k])
  <2>4. m \in Nat
    BY <2>2, IsSeqLen
  <2>5. k + 1 \in 1..Len(s) /\ (k + 1) - 1 = k
    BY <2>1
  <2>6. CASE s[k + 1] \in S
    <3>1. upto[k + 1] = Append(upto[k], s[k + 1])
      BY <1>1, <2>5, <2>6 DEF Selects
    <3>2. /\ IsSeq(upto[k + 1]) /\ Len(upto[k + 1]) = m + 1
          /\ \A i \in 1..m : upto[k + 1][i] = upto[k][i]
          /\ upto[k + 1][m + 1] = s[k + 1]
      BY <2>2, <3>1, AppendIs
    <3> DEFINE g == [i \in 1..m + 1 |-> IF i = m + 1 THEN k + 1 ELSE h[i]]
    <3> HIDE DEF m
    <3>3. /\ h \in [1..m -> 1..k] /\ \A i, j \in 1..m : i < j => h[i] < h[j]
          /\ \A i \in 1..m : upto[k][i] = s[h[i]] /\ upto[k][i] \in S
          /\ \A j \in 1..k : s[j] \in S => \E i \in 1..m : h[i] = j
      BY <2>3 DEF Picks, m
    <3>4. g \in [1..m + 1 -> 1..k + 1]
      BY <3>3, <2>4
    <3>5. \A i, j \in 1..m + 1 : i < j => g[i] < g[j]
      BY <3>3, <2>4
    <3>6. ASSUME NEW i \in 1..m + 1 PROVE upto[k + 1][i] = s[g[i]] /\ upto[k + 1][i] \in S
      <4>1. CASE i = m + 1
        BY <3>2, <2>6, <4>1
      <4>2. CASE i # m + 1
        <5>1. i \in 1..m /\ g[i] = h[i]
          BY <2>4, <4>2
        <5> QED
          BY <3>2, <3>3, <5>1
      <4> QED
        BY <4>1, <4>2
    <3>7. ASSUME NEW j \in 1..k + 1, s[j] \in S PROVE \E i \in 1..m + 1 : g[i] = j
      <4>1. CASE j = k + 1
        BY <4>1, <2>4
      <4>2. CASE j # k + 1
        <5>1. j \in 1..k
          BY <4>2
        <5>2. PICK i \in 1..m : h[i] = j
          BY <3>3, <3>7, <5>1
        <5> QED
          BY <5>2, <2>4
      <4> QED
        BY <4>1, <4>2
    <3> HIDE DEF g
    <3>8. Picks(g, upto[k + 1], s, k + 1, S)
      BY <3>2, <3>4, <3>5, <3>6, <3>7 DEF Picks
    <3> QED
      BY <3>2, <3>8
  <2>7. CASE s[k + 1] \notin S
    <3>1. upto[k + 1] = upto[k]
      BY <1>1, <2>5, <2>7 DEF Selects
    <3>2. h \in [1..m -> 1..k + 1]
      BY <2>3 DEF Picks
    <3>3. \A j \in 1..k + 1 : s[j] \in S => j \in 1..k
      BY <2>7
    <3>4. Picks(h, upto[k], s, k + 1, S)
      BY <2>3, <3>2, <3>3 DEF Picks
    <3> QED
      BY <2>2, <3>1, <3>4
  <2> QED
    BY <2>6, <2>7
<1> HIDE DEF T
<1>5. Nat \subseteq T
  BY <1>3, <1>4, Induction
<1>6. IsSeq(upto[Len(s)]) /\ \E h : Picks(h, upto[Len(s)], s, Len(s), S)
  BY <1>2, <1>5 DEF T
<1> QED
  BY <1>1, <1>6

\* What Within keeps is from the sequence and in the set, and nothing else is.
LEMMA WithinRange ==
    ASSUME NEW s, IsSeq(s), NEW S
    PROVE  /\ Range(Within(s, S)) = Range(s) \cap S
           /\ Len(Within(s, S)) <= Len(s)
<1>1. IsSeq(Within(s, S))
  BY WithinIs
<1>2. PICK h : Picks(h, Within(s, S), s, Len(s), S)
  BY WithinIs
<1>3. ASSUME NEW x PROVE x \in Range(Within(s, S)) <=> x \in Range(s) \cap S
  <2>1. ASSUME x \in Range(Within(s, S)) PROVE x \in Range(s) \cap S
    <3>1. PICK i \in 1..Len(Within(s, S)) : x = Within(s, S)[i]
      BY <1>1, <2>1, IsSeqLen
    <3>2. h[i] \in 1..Len(s) /\ x = s[h[i]] /\ x \in S
      BY <1>2, <3>1 DEF Picks
    <3> QED
      BY <3>2, IsSeqLen
  <2>2. ASSUME x \in Range(s) \cap S PROVE x \in Range(Within(s, S))
    <3>1. PICK j \in 1..Len(s) : x = s[j]
      BY <2>2, IsSeqLen
    <3>2. PICK i \in 1..Len(Within(s, S)) : h[i] = j
      BY <1>2, <2>2, <3>1 DEF Picks
    <3>3. x = Within(s, S)[i]
      BY <1>2, <3>1, <3>2 DEF Picks
    <3> QED
      BY <1>1, <3>2, <3>3, IsSeqLen
  <2> QED
    BY <2>1, <2>2
<1>4. Len(Within(s, S)) \in Nat /\ Len(s) \in Nat
  BY <1>1, IsSeqLen
<1> DEFINE m == Len(Within(s, S))
<1>5. \A i \in 1..m : h[i] \in Nat /\ h[i] >= 1 /\ h[i] <= Len(s)
  BY <1>2 DEF Picks
<1>6. \A i, j \in 1..m : i < j => h[i] < h[j]
  BY <1>2 DEF Picks
<1> DEFINE T == {i \in Nat : i + 1 <= m => h[i + 1] >= i + 1}
<1>7. 0 \in T
  <2>1. 0 + 1 <= m => 0 + 1 \in 1..m
    BY <1>4
  <2> QED
    BY <1>5, <2>1
<1>8. ASSUME NEW i \in Nat, i \in T PROVE i + 1 \in T
  <2>1. SUFFICES ASSUME (i + 1) + 1 <= m PROVE h[(i + 1) + 1] >= (i + 1) + 1
    OBVIOUS
  <2>2. i + 1 \in 1..m /\ (i + 1) + 1 \in 1..m /\ i + 1 < (i + 1) + 1
    BY <1>4, <2>1
  <2>3. h[i + 1] < h[(i + 1) + 1] /\ h[i + 1] >= i + 1
    BY <1>4, <1>6, <1>8, <2>1, <2>2
  <2> QED
    BY <1>5, <2>2, <2>3
<1> HIDE DEF T, m
<1>9. Nat \subseteq T
  BY <1>7, <1>8, Induction
<1>10. m <= Len(s)
  <2>1. CASE m = 0
    BY <1>4, <2>1
  <2>2. CASE m # 0
    <3>1. m - 1 \in Nat /\ (m - 1) + 1 = m /\ m \in 1..m
      BY <1>4, <2>2 DEF m
    <3>2. h[m] >= m
      BY <1>9, <3>1 DEF T
    <3> QED
      BY <1>4, <1>5, <3>1, <3>2 DEF m
  <2> QED
    BY <2>1, <2>2
<1> QED
  BY <1>3, <1>10 DEF m

\* The steps of FlattenSeq: ever more of its sequences, one behind the other.
Flattens(f, seqs) ==
    f[0] = <<>> /\ \A k \in 1..Len(seqs) : f[k] = f[k - 1] \o seqs[k]

\* The sequence FlattenSeq builds, part by part.
LEMMA FlattenSteps ==
    ASSUME NEW seqs, IsSeq(seqs), \A k \in 1..Len(seqs) : IsSeq(seqs[k])
    PROVE  \E f : Flattens(f, seqs) /\ FlattenSeq(seqs) = f[Len(seqs)]
<1> DEFINE n == Len(seqs)
           U == UNION {Range(seqs[k]) : k \in 1..n}
           V == Seq(U)
           base == <<>>
           back == [k \in 1..n |-> k - 1]
           step == [k \in 1..n |-> [t \in V |-> t \o seqs[k]]]
           Follows(f) == f = [k \in 1..n |-> IF k = 1 THEN seqs[k] ELSE f[k - 1] \o seqs[k]]
           flatten == CHOOSE f : Follows(f)
<1>1. n \in Nat
  BY IsSeqLen
<1>2. \A k \in 1..n : seqs[k] \in V
  BY SeqMonotonic DEF IsSeq
<1>3. base \in V
  OBVIOUS
<1> HIDE DEF n, V
<1>4. step \in [1..n -> [V -> V]]
  <2>1. \A k \in 1..n : \A t \in V : t \o seqs[k] \in V
    BY <1>2 DEF V
  <2> QED
    BY <2>1
<1>5. back \in [1..n -> Nat] /\ \A k \in 1..n : back[k] < k
  BY <1>1
<1> HIDE DEF base, step, back
<1>6. PICK g \in [0..n -> V] : Recurs(g, n, base, back, step)
  BY <1>1, <1>3, <1>4, <1>5, Recursion
<1>7. ASSUME NEW k \in 1..n PROVE g[k] = g[k - 1] \o seqs[k]
  <2>1. k - 1 \in 0..n /\ back[k] = k - 1
    BY <1>1 DEF back
  <2>2. g[k] = step[k][g[k - 1]] /\ g[k - 1] \in V
    BY <1>6, <2>1 DEF Recurs
  <2> QED
    BY <2>2 DEF step
<1> DEFINE f1 == [k \in 1..n |-> g[k]]
<1>8. ASSUME NEW k \in 1..n
      PROVE  f1[k] = IF k = 1 THEN seqs[k] ELSE f1[k - 1] \o seqs[k]
  <2>1. CASE k = 1
    <3>1. g[0] = <<>> /\ k - 1 = 0
      BY <1>6, <2>1 DEF Recurs, base
    <3>2. <<>> \o seqs[k] = seqs[k]
      BY <1>2, ConcatEmptySeq DEF V
    <3> QED
      BY <1>7, <2>1, <3>1, <3>2
  <2>2. CASE k # 1
    <3>1. k - 1 \in 1..n
      BY <1>1, <2>2
    <3> QED
      BY <1>7, <2>2, <3>1
  <2> QED
    BY <2>1, <2>2
<1>9. Follows(f1)
  BY <1>8
<1> HIDE DEF f1
<1>10. Follows(flatten)
  BY <1>9, Zenon
<1> HIDE DEF flatten
<1> DEFINE f == [k \in 0..n |-> IF k = 0 THEN <<>> ELSE flatten[k]]
<1>11. ASSUME NEW k \in 1..n PROVE f[k] = f[k - 1] \o seqs[k]
  <2>1. k \in 0..n /\ k # 0 /\ f[k] = flatten[k]
    BY <1>1
  <2>2. CASE k = 1
    <3>1. f[k - 1] = <<>> /\ flatten[k] = seqs[k]
      BY <1>1, <1>10, <2>2
    <3>2. <<>> \o seqs[k] = seqs[k]
      BY <1>2, ConcatEmptySeq DEF V
    <3> QED
      BY <2>1, <3>1, <3>2
  <2>3. CASE k # 1
    <3>1. k - 1 \in 0..n /\ k - 1 # 0
      BY <1>1, <2>3
    <3>2. f[k - 1] = flatten[k - 1]
      BY <3>1
    <3>3. flatten[k] = flatten[k - 1] \o seqs[k]
      BY <1>10, <2>3
    <3> QED
      BY <2>1, <3>2, <3>3
  <2> QED
    BY <2>2, <2>3
<1>12. f[0] = <<>>
  BY <1>1
<1>13. FlattenSeq(seqs) = f[n]
  <2>1. CASE n = 0
    <3>1. seqs = <<>>
      BY <2>1, IsSeqLen DEF n
    <3>2. FlattenSeq(seqs) = seqs
      BY <2>1 DEF FlattenSeq, n
    <3> QED
      BY <2>1, <3>1, <3>2, <1>12
  <2>2. CASE n # 0
    <3>1. FlattenSeq(seqs) = flatten[n]
      BY <2>2, Zenon DEF FlattenSeq, flatten, n
    <3>2. n \in 0..n
      BY <1>1
    <3> QED
      BY <2>2, <3>1, <3>2
  <2> QED
    BY <2>1, <2>2
<1> HIDE DEF f
<1>14. Flattens(f, seqs)
  BY <1>11, <1>12 DEF Flattens, n
<1> QED
  BY <1>13, <1>14 DEF n

\* Flattening sequences makes one of their elements.
LEMMA FlattenIs ==
    ASSUME NEW seqs, IsSeq(seqs), \A k \in 1..Len(seqs) : IsSeq(seqs[k])
    PROVE  /\ IsSeq(FlattenSeq(seqs))
           /\ Range(FlattenSeq(seqs)) = UNION {Range(seqs[k]) : k \in 1..Len(seqs)}
<1>1. PICK f : Flattens(f, seqs) /\ FlattenSeq(seqs) = f[Len(seqs)]
  BY FlattenSteps
<1>2. Len(seqs) \in Nat
  BY IsSeqLen
<1> DEFINE T == {k \in Nat : k <= Len(seqs) =>
                    IsSeq(f[k]) /\ Range(f[k]) = UNION {Range(seqs[j]) : j \in 1..k}}
<1>3. 0 \in T
  BY <1>1, TuplesAre DEF Flattens
<1>4. ASSUME NEW k \in Nat, k \in T PROVE k + 1 \in T
  <2>1. SUFFICES ASSUME k + 1 <= Len(seqs)
                 PROVE  /\ IsSeq(f[k + 1])
                        /\ Range(f[k + 1]) = UNION {Range(seqs[j]) : j \in 1..k + 1}
    OBVIOUS
  <2>2. IsSeq(f[k]) /\ Range(f[k]) = UNION {Range(seqs[j]) : j \in 1..k}
    BY <1>2, <1>4, <2>1
  <2>3. k + 1 \in 1..Len(seqs) /\ (k + 1) - 1 = k
    BY <2>1
  <2>4. f[k + 1] = f[k] \o seqs[k + 1] /\ IsSeq(seqs[k + 1])
    BY <1>1, <2>3 DEF Flattens
  <2>5. IsSeq(f[k + 1]) /\ Range(f[k + 1]) = Range(f[k]) \cup Range(seqs[k + 1])
    BY <2>2, <2>4, ConcatIs
  <2>6. 1..k + 1 = 1..k \cup {k + 1}
    OBVIOUS
  <2> DEFINE R(j) == Range(seqs[j])
  <2> HIDE DEF R
  <2>7. UNION {R(j) : j \in 1..k + 1} = (UNION {R(j) : j \in 1..k}) \cup R(k + 1)
    BY <2>6
  <2> USE DEF R
  <2> QED
    BY <2>2, <2>5, <2>7
<1> HIDE DEF T
<1>5. Nat \subseteq T
  BY <1>3, <1>4, Induction
<1> QED
  BY <1>1, <1>2, <1>5 DEF T

--------------------------------------------------------------------------------
(* Cuts: the trail of a position.                                              *)

\* Where headings may be.
Headed(body, headings) ==
    headings \subseteq 1..Len(body) /\ \A i \in headings : Mark(body, i) \in DOMAIN Level

\* The headings of sections are at starts of lines, and have levels.
LEMMA HeadingsAre ==
    ASSUME NEW body, IsSeq(body)
    PROVE  Headed(body, HeadingStarts(body)) /\ HeadingStarts(body) \subseteq Starts(body)
BY IsSeqLen DEF Headed, HeadingStarts, HeadingsAmong, Starts

\* The steps of TrailsOf, a position at a time.
Trails(trail, body, headings) ==
    /\ trail[0] = <<>>
    /\ \A i \in 1..Len(body) :
          trail[i] = IF i \in headings THEN Pushed(trail[i - 1], Mark(body, i)) ELSE trail[i - 1]

\* A heading that is pushed onto a trail makes one of headings.
LEMMA PushedIs ==
    ASSUME NEW t \in Seq(DOMAIN Level), NEW h \in DOMAIN Level
    PROVE  /\ Pushed(t, h) \in Seq(DOMAIN Level)
           /\ Range(Pushed(t, h)) = {g \in Range(t) : Level[g] < Level[h]} \cup {h}
<1> DEFINE S == {g \in DOMAIN Level : Level[g] < Level[h]}
           u == Within(t, S)
<1>1. IsSeq(t) /\ Range(t) \subseteq DOMAIN Level
  BY SeqIsSeq, RangeOfSeq
<1>2. IsSeq(u) /\ Range(u) = Range(t) \cap S
  BY <1>1, WithinIs, WithinRange
<1>3. Pushed(t, h) = Append(u, h)
  BY DEF Pushed
<1> HIDE DEF u
<1>4. IsSeq(Append(u, h)) /\ Range(Append(u, h)) = Range(u) \cup {h}
  BY <1>2, AppendIs
<1>5. Range(Append(u, h)) \subseteq DOMAIN Level
  BY <1>2, <1>4
<1>6. Append(u, h) \in Seq(DOMAIN Level)
  BY <1>4, <1>5, SeqMonotonic DEF IsSeq
<1>7. Range(t) \cap S = {g \in Range(t) : Level[g] < Level[h]}
  BY <1>1
<1> QED
  BY <1>2, <1>3, <1>4, <1>6, <1>7

\* The trails TrailsOf builds, heading by heading (sections).
LEMMA TrailsSteps ==
    ASSUME NEW body, IsSeq(body), NEW headings, Headed(body, headings)
    PROVE  Trails(TrailsOf(body, headings), body, headings)
<1> DEFINE n == Len(body)
           V == Seq(DOMAIN Level)
           base == <<>>
           back == [i \in 1..n |-> i - 1]
           step == [i \in 1..n |-> [t \in V |->
                       IF i \in headings THEN Pushed(t, Mark(body, i)) ELSE t]]
           Follows(f) == f = [i \in 0..n |-> IF i = 0 THEN <<>>
                ELSE IF i \in headings THEN Pushed(f[i - 1], Mark(body, i)) ELSE f[i - 1]]
           trail == CHOOSE f : Follows(f)
<1>1. n \in Nat
  BY IsSeqLen
<1>2. base \in V
  OBVIOUS
<1>3. step \in [1..n -> [V -> V]]
  <2>1. \A i \in headings : \A t \in V : Pushed(t, Mark(body, i)) \in V
    BY PushedIs DEF Headed
  <2> HIDE DEF V
  <2> QED
    BY <2>1
<1>4. back \in [1..n -> Nat] /\ \A k \in 1..n : back[k] < k
  BY <1>1
<1> HIDE DEF base, step, back, V, n
<1>5. PICK f \in [0..n -> V] : Recurs(f, n, base, back, step)
  BY <1>1, <1>2, <1>3, <1>4, Recursion
<1>6. Follows(f)
  <2>1. ASSUME NEW i \in 0..n
        PROVE  f[i] = IF i = 0 THEN <<>>
                      ELSE IF i \in headings THEN Pushed(f[i - 1], Mark(body, i)) ELSE f[i - 1]
    <3>1. CASE i = 0
      BY <3>1, <1>5 DEF Recurs, base
    <3>2. CASE i # 0
      <4>1. i \in 1..n /\ i - 1 \in 0..n /\ back[i] = i - 1
        BY <1>1, <3>2 DEF back
      <4>2. f[i] = step[i][f[i - 1]] /\ f[i - 1] \in V
        BY <1>5, <4>1 DEF Recurs
      <4> QED
        BY <3>2, <4>1, <4>2 DEF step
    <3> QED
      BY <3>1, <3>2
  <2> QED
    BY <2>1
<1>7. Follows(trail)
  BY <1>6, Zenon
<1> HIDE DEF trail
<1>8. trail[0] = <<>>
  BY <1>1, <1>7
<1>9. ASSUME NEW i \in 1..n
      PROVE  trail[i] = IF i \in headings THEN Pushed(trail[i - 1], Mark(body, i)) ELSE trail[i - 1]
  <2>1. i \in 0..n /\ i # 0
    BY <1>1
  <2> QED
    BY <1>7, <2>1
<1>10. TrailsOf(body, headings) = trail
  BY Zenon DEF TrailsOf, trail, n
<1> QED
  BY <1>8, <1>9, <1>10 DEF Trails, n

\* What the trail of a position has is what the reference says.
LEMMA TrailsAre ==
    ASSUME NEW body, IsSeq(body), NEW headings, Headed(body, headings)
    PROVE  \A i \in 0..Len(body) : Range(TrailsOf(body, headings)[i]) = TrailAt(body, headings, i)
<1> DEFINE trail == TrailsOf(body, headings)
           At(i) == TrailAt(body, headings, i)
           T == {i \in Nat : i <= Len(body) =>
                    trail[i] \in Seq(DOMAIN Level) /\ Range(trail[i]) = At(i)}
<1>1. Trails(trail, body, headings)
  BY TrailsSteps
<1>2. Len(body) \in Nat
  BY IsSeqLen
<1> HIDE DEF trail
<1>3. 0 \in T
  <2>1. trail[0] = <<>> /\ <<>> \in Seq(DOMAIN Level)
    BY <1>1 DEF Trails
  <2>2. At(0) = {}
    BY DEF TrailAt, Headed
  <2> QED
    BY <2>1, <2>2, TuplesAre
<1>4. ASSUME NEW k \in Nat, k \in T PROVE k + 1 \in T
  <2> DEFINE i == k + 1
  <2>1. SUFFICES ASSUME i <= Len(body)
                 PROVE  trail[i] \in Seq(DOMAIN Level) /\ Range(trail[i]) = At(i)
    OBVIOUS
  <2>2. trail[k] \in Seq(DOMAIN Level) /\ Range(trail[k]) = At(k)
    BY <1>2, <1>4, <2>1
  <2>3. i \in 1..Len(body) /\ i - 1 = k
    BY <2>1
  <2>4. CASE i \notin headings
    <3>1. trail[i] = trail[k]
      BY <1>1, <2>3, <2>4 DEF Trails
    <3>2. \A j \in headings : j <= i <=> j <= k
      BY <2>4 DEF Headed
    <3>3. At(i) = At(k)
      BY <3>2 DEF TrailAt
    <3> QED
      BY <2>2, <3>1, <3>3
  <2>5. CASE i \in headings
    <3> DEFINE h == Mark(body, i)
    <3>1. trail[i] = Pushed(trail[k], h)
      BY <1>1, <2>3, <2>5 DEF Trails
    <3>2. h \in DOMAIN Level
      BY <2>5 DEF Headed
    <3>3. /\ trail[i] \in Seq(DOMAIN Level)
          /\ Range(trail[i]) = {g \in At(k) : Level[g] < Level[h]} \cup {h}
      BY <2>2, <3>1, <3>2, PushedIs
    <3>4. ASSUME NEW x \in At(i) PROVE x = h \/ (x \in At(k) /\ Level[x] < Level[h])
      <4>1. PICK j \in headings : /\ x = Mark(body, j) /\ j <= i
                                  /\ ~\E l \in headings : j < l /\ l <= i
                                        /\ Level[Mark(body, l)] <= Level[x]
        BY DEF TrailAt
      <4>2. j \in Nat /\ Mark(body, j) \in DOMAIN Level
        BY DEF Headed
      <4>3. CASE j = i
        BY <4>1, <4>3
      <4>4. CASE j # i
        <5>1. j <= k /\ j < i
          BY <4>1, <4>2, <4>4
        <5>2. ~(Level[h] <= Level[x])
          BY <2>5, <4>1, <5>1
        <5>3. Level[x] < Level[h]
          BY <3>2, <4>1, <4>2, <5>2, LevelAssumption
        <5>4. ~\E l \in headings : j < l /\ l <= k /\ Level[Mark(body, l)] <= Level[x]
          <6>1. \A l \in headings : l <= k => l <= i
            BY DEF Headed
          <6> QED
            BY <4>1, <6>1
        <5>5. x \in At(k)
          BY <4>1, <5>1, <5>4 DEF TrailAt
        <5> QED
          BY <5>3, <5>5
      <4> QED
        BY <4>3, <4>4
    <3>5. h \in At(i)
      <4>1. i <= i /\ ~\E l \in headings : i < l /\ l <= i /\ Level[Mark(body, l)] <= Level[h]
        BY DEF Headed
      <4> QED
        BY <2>5, <4>1 DEF TrailAt
    <3>6. ASSUME NEW x \in At(k), Level[x] < Level[h] PROVE x \in At(i)
      <4>1. PICK j \in headings : /\ x = Mark(body, j) /\ j <= k
                                  /\ ~\E l \in headings : j < l /\ l <= k
                                        /\ Level[Mark(body, l)] <= Level[x]
        BY DEF TrailAt
      <4>2. j \in Nat /\ j <= i /\ x \in DOMAIN Level
        BY <4>1 DEF Headed
      <4>3. ~(Level[h] <= Level[x])
        BY <3>2, <3>6, <4>2, LevelAssumption
      <4>4. ~\E l \in headings : j < l /\ l <= i /\ Level[Mark(body, l)] <= Level[x]
        <5>1. \A l \in headings : l <= i => l <= k \/ l = i
          BY DEF Headed
        <5> QED
          BY <4>1, <4>3, <5>1
      <4> QED
        BY <4>1, <4>2, <4>4 DEF TrailAt
    <3> HIDE DEF At, h
    <3> QED
      BY <3>3, <3>4, <3>5, <3>6
  <2> QED
    BY <2>4, <2>5
<1> HIDE DEF T
<1>5. Nat \subseteq T
  BY <1>3, <1>4, Induction
<1> QED
  BY <1>2, <1>5 DEF T, trail

--------------------------------------------------------------------------------
(* Cuts: the sections of a body.                                               *)

\* The places of the cuts rise from zero, and all but the first are headings.
LEMMA CutsAre ==
    ASSUME NEW body, IsSeq(body), NEW headings, Headed(body, headings)
    PROVE  LET cuts == CutsAt(body, headings) IN
           /\ IsSeq(cuts)
           /\ \A k \in 1..Len(cuts) : cuts[k] \in Nat /\ cuts[k] < Len(body)
           /\ \A j, k \in 1..Len(cuts) : j < k => cuts[j] < cuts[k]
           /\ \A k \in 1..Len(cuts) : IF k = 1 THEN cuts[k] = 0 ELSE cuts[k] + 1 \in headings
           /\ \A i \in headings : \E k \in 1..Len(cuts) : cuts[k] = i - 1
           /\ Len(body) > 0 => Len(cuts) > 0
<1> DEFINE n == Len(body)
           f == [i \in 1..n |-> i - 1]
           S == {0} \cup {i - 1 : i \in headings}
           cuts == Within(f, S)
           m == Len(cuts)
<1>1. n \in Nat /\ DOMAIN body = 1..n
  BY IsSeqLen
<1>2. IsSeq(f) /\ Len(f) = n
  BY <1>1, FunIsSeq
<1>3. CutsAt(body, headings) = cuts
  BY <1>1 DEF CutsAt
<1>4. IsSeq(cuts) /\ \E h : Picks(h, cuts, f, n, S)
  BY <1>2, WithinIs
<1>5. PICK h : Picks(h, cuts, f, n, S)
  BY <1>4
<1>6. m \in Nat
  BY <1>4, IsSeqLen
<1> HIDE DEF cuts, m
<1>7. /\ h \in [1..m -> 1..n] /\ \A i, j \in 1..m : i < j => h[i] < h[j]
      /\ \A i \in 1..m : cuts[i] = f[h[i]] /\ cuts[i] \in S
      /\ \A j \in 1..n : f[j] \in S => \E i \in 1..m : h[i] = j
  BY <1>5 DEF Picks, m
<1>8. \A i \in 1..m : cuts[i] = h[i] - 1
  BY <1>7
<1> HIDE DEF f
<1>9. \A k \in 1..m : cuts[k] \in Nat /\ cuts[k] < n
  BY <1>1, <1>7, <1>8
<1>10. \A j, k \in 1..m : j < k => cuts[j] < cuts[k]
  BY <1>7, <1>8
<1>11. n > 0 => m > 0 /\ cuts[1] = 0
  <2>1. SUFFICES ASSUME n > 0 PROVE m > 0 /\ cuts[1] = 0
    OBVIOUS
  <2>2. 1 \in 1..n /\ f[1] = 0
    BY <1>1, <2>1 DEF f
  <2>3. PICK i \in 1..m : h[i] = 1
    BY <1>7, <2>2
  <2>4. m > 0 /\ 1 \in 1..m
    BY <1>6, <2>3
  <2>5. cuts[i] = 0
    BY <1>8, <2>3
  <2>6. i = 1
    <3>1. i # 1 => cuts[1] < cuts[i]
      BY <1>10, <2>4
    <3> QED
      BY <1>9, <2>4, <2>5, <3>1
  <2> QED
    BY <2>4, <2>5, <2>6
<1>12. ASSUME NEW k \in 1..m PROVE IF k = 1 THEN cuts[k] = 0 ELSE cuts[k] + 1 \in headings
  <2>1. n > 0 /\ 1 \in 1..m
    BY <1>1, <1>6, <1>7
  <2>2. CASE k = 1
    BY <1>11, <2>1, <2>2
  <2>3. CASE k # 1
    <3>1. cuts[k] # 0
      BY <1>9, <1>10, <1>11, <2>1, <2>3
    <3>2. PICK i \in headings : cuts[k] = i - 1
      BY <1>7, <3>1
    <3>3. cuts[k] + 1 = i
      BY <3>2 DEF Headed
    <3> QED
      BY <2>3, <3>3
  <2> QED
    BY <2>2, <2>3
<1>13. ASSUME NEW i \in headings PROVE \E k \in 1..m : cuts[k] = i - 1
  <2>1. i \in 1..n
    BY DEF Headed
  <2>2. f[i] = i - 1
    BY <2>1 DEF f
  <2>3. PICK k \in 1..m : h[k] = i
    BY <1>7, <2>1, <2>2
  <2> QED
    BY <1>8, <2>3
<1> QED
  BY <1>3, <1>4, <1>9, <1>10, <1>11, <1>12, <1>13 DEF m

\* The sections cover the body, one after the other. All but the last end in a
\* newline, and a section's path is the trail of all of its positions, because
\* there is no heading but at its start.
Tiled(body, headings, sec) ==
    /\ IsSeq(sec)
    /\ \A k \in 1..Len(sec) :
          /\ sec[k] = [path |-> sec[k].path, start |-> sec[k].start, end |-> sec[k].end]
          /\ sec[k].start \in Nat /\ sec[k].end \in Nat
          /\ sec[k].start < sec[k].end /\ sec[k].end <= Len(body)
          /\ \A h \in headings : h <= sec[k].start + 1 \/ h > sec[k].end
          /\ \A p \in sec[k].start + 1..sec[k].end :
                Range(sec[k].path) = TrailAt(body, headings, p)
    /\ \A j, k \in 1..Len(sec) : j < k =>
          sec[j].end <= sec[k].start /\ body[sec[j].end] = Newline
    /\ \A i \in 1..Len(body) : \E k \in 1..Len(sec) : sec[k].start < i /\ i <= sec[k].end

\* Sections part the body at its headings: each begins where the one before ends,
\* is below the headings that hold there, and none is empty (sections).
LEMMA SectionsAre ==
    ASSUME NEW body, IsSeq(body), NEW headings, Headed(body, headings),
           headings \subseteq Starts(body)
    PROVE  Tiled(body, headings, SectionsFrom(body, headings))
<1> DEFINE n == Len(body)
           cuts == CutsAt(body, headings)
           m == Len(cuts)
           sec == SectionsFrom(body, headings)
           trails == TrailsOf(body, headings)
           End(k) == IF k = m THEN n ELSE cuts[k + 1]
<1>1. n \in Nat
  BY IsSeqLen
<1>2. /\ IsSeq(cuts)
      /\ \A k \in 1..m : cuts[k] \in Nat /\ cuts[k] < n
      /\ \A j, k \in 1..m : j < k => cuts[j] < cuts[k]
      /\ \A k \in 1..m : IF k = 1 THEN cuts[k] = 0 ELSE cuts[k] + 1 \in headings
      /\ \A i \in headings : \E k \in 1..m : cuts[k] = i - 1
      /\ n > 0 => m > 0
  BY CutsAre
<1>3. m \in Nat /\ DOMAIN cuts = 1..m
  BY <1>2, IsSeqLen
<1>4. sec = [k \in 1..m |-> [path |-> trails[cuts[k] + 1], start |-> cuts[k], end |-> End(k)]]
  BY <1>3 DEF SectionsFrom, SectionsAt
<1> HIDE DEF sec, cuts, m, n, trails
<1>5. IsSeq(sec) /\ Len(sec) = m
  BY <1>3, <1>4, FunIsSeq
<1>6. ASSUME NEW k \in 1..m
      PROVE  /\ sec[k].path = trails[cuts[k] + 1] /\ sec[k].start = cuts[k] /\ sec[k].end = End(k)
             /\ sec[k] = [path |-> sec[k].path, start |-> sec[k].start, end |-> sec[k].end]
  BY <1>4
<1>7. ASSUME NEW k \in 1..m PROVE End(k) \in Nat /\ cuts[k] < End(k) /\ End(k) <= n
  <2>1. CASE k = m
    BY <1>1, <1>2, <2>1
  <2>2. CASE k # m
    <3>1. k + 1 \in 1..m /\ k < k + 1
      BY <1>3, <2>2
    <3>2. cuts[k + 1] \in Nat /\ cuts[k + 1] < n /\ cuts[k] < cuts[k + 1]
      BY <1>2, <3>1
    <3> QED
      BY <1>1, <2>2, <3>2
  <2> QED
    BY <2>1, <2>2
<1>8. ASSUME NEW k \in 1..m, NEW h \in headings PROVE h <= cuts[k] + 1 \/ h > End(k)
  <2>1. h \in Nat /\ h <= n
    BY DEF Headed, n
  <2>2. PICK l \in 1..m : cuts[l] = h - 1
    BY <1>2
  <2>3. CASE l <= k
    <3>1. cuts[l] <= cuts[k] /\ cuts[l] \in Nat /\ cuts[k] \in Nat
      BY <1>2, <2>3
    <3> QED
      BY <2>1, <2>2, <3>1
  <2>4. CASE l > k
    <3>1. k # m /\ k + 1 \in 1..m /\ (l = k + 1 \/ k + 1 < l)
      BY <1>3, <2>4
    <3>2. cuts[k + 1] <= cuts[l] /\ cuts[k + 1] \in Nat /\ cuts[l] \in Nat
      BY <1>2, <3>1
    <3> QED
      BY <2>1, <2>2, <3>1, <3>2
  <2> QED
    BY <1>3, <2>3, <2>4
<1>9. ASSUME NEW k \in 1..m, NEW p \in cuts[k] + 1..End(k)
      PROVE  Range(trails[cuts[k] + 1]) = TrailAt(body, headings, p)
  <2>1. cuts[k] \in Nat /\ cuts[k] + 1 \in 0..n
    BY <1>1, <1>2
  <2>2. Range(trails[cuts[k] + 1]) = TrailAt(body, headings, cuts[k] + 1)
    BY <2>1, TrailsAre DEF trails, n
  <2>3. ASSUME NEW h \in headings PROVE h <= p <=> h <= cuts[k] + 1
    <3>1. h \in Nat
      BY DEF Headed
    <3> QED
      BY <1>7, <1>8, <2>1, <3>1
  <2>4. TrailAt(body, headings, p) = TrailAt(body, headings, cuts[k] + 1)
    BY <2>3 DEF TrailAt
  <2> QED
    BY <2>2, <2>4
<1>10. ASSUME NEW j \in 1..m, NEW k \in 1..m, j < k
       PROVE  End(j) <= cuts[k] /\ body[End(j)] = Newline
  <2>1. j # m /\ j + 1 \in 1..m /\ (k = j + 1 \/ j + 1 < k) /\ j + 1 # 1
    BY <1>3, <1>10
  <2>2. End(j) = cuts[j + 1] /\ cuts[j + 1] \in Nat /\ cuts[k] \in Nat
    BY <1>2, <2>1
  <2>3. cuts[j + 1] <= cuts[k]
    BY <1>2, <2>1, <2>2
  <2>4. cuts[j + 1] + 1 \in Starts(body)
    BY <1>2, <2>1
  <2>5. cuts[j] < cuts[j + 1] /\ cuts[j] \in Nat
    BY <1>2, <2>1
  <2>6. cuts[j + 1] + 1 # 1 /\ (cuts[j + 1] + 1) - 1 = cuts[j + 1]
    BY <2>2, <2>5
  <2>7. body[cuts[j + 1]] = Newline
    BY <2>4, <2>6 DEF Starts
  <2> QED
    BY <2>2, <2>3, <2>7
<1>11. ASSUME NEW i \in 1..n PROVE \E k \in 1..m : cuts[k] < i /\ i <= End(k)
  <2> DEFINE K == {k \in 1..m : cuts[k] < i}
  <2>1. n > 0
    BY <1>1
  <2>2. 1 \in K
    BY <1>2, <1>3, <2>1
  <2>3. K \in SUBSET (0..m) /\ K # {}
    BY <2>2
  <2> HIDE DEF K
  <2>4. Max(K) \in K /\ \A k \in K : k <= Max(K)
    BY <1>3, <2>3, MaxIsGreatest
  <2> DEFINE k == Max(K)
  <2>5. k \in 1..m /\ cuts[k] < i
    BY <2>4 DEF K
  <2>6. CASE k = m
    BY <1>1, <2>5, <2>6
  <2>7. CASE k # m
    <3>1. k + 1 \in 1..m /\ ~(k + 1 <= k)
      BY <1>3, <2>5, <2>7
    <3>2. ~(cuts[k + 1] < i)
      BY <2>4, <3>1 DEF K
    <3>3. i <= cuts[k + 1]
      BY <1>1, <1>2, <3>1, <3>2
    <3> QED
      BY <2>5, <2>7, <3>3
  <2> QED
    BY <2>6, <2>7
<1> HIDE DEF End
<1>12. ASSUME NEW k \in 1..m
       PROVE  /\ sec[k] = [path |-> sec[k].path, start |-> sec[k].start, end |-> sec[k].end]
              /\ sec[k].start \in Nat /\ sec[k].end \in Nat
              /\ sec[k].start < sec[k].end /\ sec[k].end <= n
              /\ \A h \in headings : h <= sec[k].start + 1 \/ h > sec[k].end
              /\ \A p \in sec[k].start + 1..sec[k].end :
                    Range(sec[k].path) = TrailAt(body, headings, p)
  <2>1. /\ sec[k].path = trails[cuts[k] + 1] /\ sec[k].start = cuts[k] /\ sec[k].end = End(k)
        /\ sec[k] = [path |-> sec[k].path, start |-> sec[k].start, end |-> sec[k].end]
    BY <1>6
  <2>2. cuts[k] \in Nat /\ End(k) \in Nat /\ cuts[k] < End(k) /\ End(k) <= n
    BY <1>2, <1>7
  <2>3. \A h \in headings : h <= cuts[k] + 1 \/ h > End(k)
    BY <1>8
  <2>4. \A p \in cuts[k] + 1..End(k) : Range(sec[k].path) = TrailAt(body, headings, p)
    BY <1>9, <2>1
  <2> QED
    BY <2>1, <2>2, <2>3, <2>4
<1>13. \A j, k \in 1..m : j < k => sec[j].end <= sec[k].start /\ body[sec[j].end] = Newline
  BY <1>6, <1>10
<1>14. \A i \in 1..n : \E k \in 1..m : sec[k].start < i /\ i <= sec[k].end
  BY <1>6, <1>11
<1> QED
  BY <1>5, <1>12, <1>13, <1>14 DEF Tiled, sec, n

--------------------------------------------------------------------------------
(* Cuts: the sections that are packed together.                                *)

\* Sections one after the other, over all that is not blank. The path of one is
\* the trail of all of its positions.
Placed(body, headings, sec) ==
    /\ IsSeq(sec)
    /\ \A k \in 1..Len(sec) :
          /\ sec[k] = [path |-> sec[k].path, start |-> sec[k].start, end |-> sec[k].end]
          /\ sec[k].start \in Nat /\ sec[k].end \in Nat
          /\ sec[k].start < sec[k].end /\ sec[k].end <= Len(body)
          /\ \A p \in sec[k].start + 1..sec[k].end :
                Range(sec[k].path) = TrailAt(body, headings, p)
    /\ \A j, k \in 1..Len(sec) : j < k =>
          sec[j].end <= sec[k].start /\ body[sec[j].end] = Newline
    /\ \A i \in 1..Len(body) : body[i] \notin Blanks =>
          \E k \in 1..Len(sec) : sec[k].start < i /\ i <= sec[k].end

\* A section that is not blank.
HasText(body, section) ==
    \E i \in section.start + 1..section.end : body[i] \notin Blanks

\* The raw text of a section, and when it is blank.
LEMMA RawIs ==
    ASSUME NEW body, IsSeq(body), NEW section, section.start \in Nat, section.end \in Nat,
           section.start <= section.end, section.end <= Len(body)
    PROVE  /\ IsSeq(Raw(body, section)) /\ Len(Raw(body, section)) = section.end - section.start
           /\ \A i \in 1..Len(Raw(body, section)) :
                 Raw(body, section)[i] = body[section.start + i]
           /\ ~IsBlank(Raw(body, section)) => HasText(body, section)
           /\ HasText(body, section) => ~IsBlank(Raw(body, section))
<1> DEFINE raw == SubSeq(body, section.start + 1, section.end)
<1>1. Len(body) \in Nat
  BY IsSeqLen
<1>2. section.start + 1 \in Nat \ {0} /\ section.end \in Int
  OBVIOUS
<1>3. /\ IsSeq(raw)
      /\ Len(raw) = IF section.start + 1 <= section.end
                    THEN section.end - (section.start + 1) + 1 ELSE 0
      /\ \A i \in 1..Len(raw) : raw[i] = body[section.start + 1 + i - 1]
  <2>1. \A m \in Nat \ {0}, n \in Int : n <= Len(body) =>
          /\ IsSeq(SubSeq(body, m, n)) /\ Len(SubSeq(body, m, n)) = IF m <= n THEN n - m + 1 ELSE 0
          /\ \A i \in 1..Len(SubSeq(body, m, n)) : SubSeq(body, m, n)[i] = body[m + i - 1]
    BY SubSeqIs
  <2> QED
    BY <1>2, <2>1
<1>4. Len(raw) = section.end - section.start
  BY <1>3
<1>5. ASSUME NEW i \in 1..Len(raw) PROVE raw[i] = body[section.start + i]
  <2>1. section.start + 1 + i - 1 = section.start + i
    OBVIOUS
  <2> QED
    BY <1>3, <2>1
<1>6. raw = Raw(body, section)
  BY DEF Raw
<1> HIDE DEF raw
<1>7. ASSUME ~IsBlank(raw) PROVE HasText(body, section)
  <2>1. PICK x \in Range(raw) : x \notin Blanks
    BY <1>7 DEF IsBlank
  <2>2. PICK i \in 1..Len(raw) : x = raw[i]
    BY <1>3, <2>1, IsSeqLen
  <2>3. section.start + i \in section.start + 1..section.end
    BY <1>4
  <2> QED
    BY <1>5, <2>1, <2>2, <2>3 DEF HasText
<1>8. ASSUME HasText(body, section) PROVE ~IsBlank(raw)
  <2>1. PICK p \in section.start + 1..section.end : body[p] \notin Blanks
    BY <1>8 DEF HasText
  <2>2. p - section.start \in 1..Len(raw) /\ section.start + (p - section.start) = p
    BY <1>4
  <2>3. raw[p - section.start] = body[p]
    BY <1>5, <2>2
  <2>4. raw[p - section.start] \in Range(raw)
    BY <1>3, <2>2, IsSeqLen
  <2> QED
    BY <2>1, <2>3, <2>4 DEF IsBlank
<1> QED
  BY <1>3, <1>4, <1>5, <1>6, <1>7, <1>8

\* The sections that are packed are those of chunk_note that are not blank.
LEMMA PrintedAre ==
    ASSUME NEW body, IsSeq(body), NEW headings, NEW sec, Tiled(body, headings, sec)
    PROVE  /\ Placed(body, headings, Printed(body, sec))
           /\ \A k \in 1..Len(Printed(body, sec)) : HasText(body, Printed(body, sec)[k])
<1> DEFINE S == {s \in Range(sec) : ~IsBlank(Raw(body, s))}
           raw == Within(sec, S)
<1>1. IsSeq(sec)
  BY DEF Tiled
<1>2. IsSeq(raw)
  BY <1>1, WithinIs
<1>3. PICK h : Picks(h, raw, sec, Len(sec), S)
  BY <1>1, WithinIs
<1>4. Printed(body, sec) = raw
  BY DEF Printed
<1>5. \A i \in 1..Len(raw) : raw[i] \in S
  BY <1>3 DEF Picks
<1> HIDE DEF raw
<1>6. /\ h \in [1..Len(raw) -> 1..Len(sec)]
      /\ \A i, j \in 1..Len(raw) : i < j => h[i] < h[j]
      /\ \A i \in 1..Len(raw) : raw[i] = sec[h[i]]
      /\ \A j \in 1..Len(sec) : sec[j] \in S => \E i \in 1..Len(raw) : h[i] = j
  BY <1>3 DEF Picks
<1> HIDE DEF S
<1>7. ASSUME NEW k \in 1..Len(raw)
      PROVE  /\ raw[k] = [path |-> raw[k].path, start |-> raw[k].start, end |-> raw[k].end]
             /\ raw[k].start \in Nat /\ raw[k].end \in Nat
             /\ raw[k].start < raw[k].end /\ raw[k].end <= Len(body)
             /\ \A p \in raw[k].start + 1..raw[k].end :
                   Range(raw[k].path) = TrailAt(body, headings, p)
  <2>1. h[k] \in 1..Len(sec) /\ raw[k] = sec[h[k]]
    BY <1>6
  <2> QED
    BY <2>1 DEF Tiled
<1>8. \A j, k \in 1..Len(raw) : j < k => raw[j].end <= raw[k].start /\ body[raw[j].end] = Newline
  <2>1. \A k \in 1..Len(raw) : h[k] \in 1..Len(sec)
    BY <1>6
  <2> QED
    BY <1>6, <2>1 DEF Tiled
<1>9. Len(body) \in Nat
  BY IsSeqLen
<1>10. ASSUME NEW i \in 1..Len(body), body[i] \notin Blanks
       PROVE  \E k \in 1..Len(raw) : raw[k].start < i /\ i <= raw[k].end
  <2>1. PICK j \in 1..Len(sec) : sec[j].start < i /\ i <= sec[j].end
    BY DEF Tiled
  <2>2. sec[j].start \in Nat /\ sec[j].end \in Nat /\ sec[j].start < sec[j].end
        /\ sec[j].end <= Len(body)
    BY DEF Tiled
  <2>3. HasText(body, sec[j])
    <3>1. i \in sec[j].start + 1..sec[j].end
      BY <2>1, <2>2
    <3> QED
      BY <1>10, <3>1 DEF HasText
  <2>4. sec[j].start <= sec[j].end
    BY <2>2
  <2>5. ~IsBlank(Raw(body, sec[j]))
    BY <2>2, <2>3, <2>4, RawIs
  <2>6. sec[j] \in S
    BY <1>1, <2>5, IsSeqLen DEF S
  <2>7. PICK k \in 1..Len(raw) : h[k] = j
    BY <1>6, <2>6
  <2> QED
    BY <1>6, <2>1, <2>7
<1>11. ASSUME NEW k \in 1..Len(raw) PROVE HasText(body, raw[k])
  <2>1. ~IsBlank(Raw(body, raw[k]))
    BY <1>5 DEF S
  <2>2. raw[k].start \in Nat /\ raw[k].end \in Nat /\ raw[k].start < raw[k].end
        /\ raw[k].end <= Len(body)
    BY <1>7
  <2>3. raw[k].start <= raw[k].end
    BY <2>2
  <2> QED
    BY <2>1, <2>2, <2>3, RawIs
<1> QED
  BY <1>2, <1>4, <1>7, <1>8, <1>10, <1>11 DEF Placed

\* The first of some sections that takes those up to another one with it.
Joined(raw, i, j) == [raw[i] EXCEPT !.end = raw[j].end]

\* Where the sections that join one end: at itself, or within the target.
LEMMA ReachIs ==
    ASSUME NEW body, NEW headings, NEW raw, Placed(body, headings, raw),
           NEW target, NEW i \in 1..Len(raw)
    PROVE  /\ Reach(raw, i, target) \in i..Len(raw)
           /\ Reach(raw, i, target) # i =>
                 raw[Reach(raw, i, target)].end - raw[i].start <= target
<1> DEFINE R == {i} \cup {j \in i..Len(raw) : raw[j].end - raw[i].start <= target}
<1>1. Len(raw) \in Nat
  BY IsSeqLen DEF Placed
<1>2. R \in SUBSET (0..Len(raw)) /\ R # {} /\ i \in R
  BY <1>1
<1>3. Reach(raw, i, target) = Max(R)
  BY DEF Reach
<1>4. Max(R) \in R /\ i <= Max(R)
  <2> HIDE DEF R
  <2> QED
    BY <1>1, <1>2, MaxIsGreatest
<1> QED
  BY <1>1, <1>2, <1>3, <1>4

\* The steps of Packed, from the last section to the first.
Packs(from, raw, target) ==
    /\ from[Len(raw) + 1] = <<>>
    /\ \A i \in 1..Len(raw) :
          from[i] = <<Joined(raw, i, Reach(raw, i, target))>> \o from[Reach(raw, i, target) + 1]

\* The sections Packed builds, section by section (packed_sections).
LEMMA PackedSteps ==
    ASSUME NEW body, NEW headings, NEW raw, Placed(body, headings, raw), NEW target
    PROVE  \E from : Packs(from, raw, target) /\ Packed(raw, target) = from[1]
<1> DEFINE n == Len(raw)
           R(i) == Reach(raw, i, target)
           U == {Joined(raw, i, j) : i \in 1..n, j \in 1..n}
           V == Seq(U)
           base == <<>>
           back == [k \in 1..n |-> n - R(n + 1 - k)]
           step == [k \in 1..n |-> [t \in V |-> <<Joined(raw, n + 1 - k, R(n + 1 - k))>> \o t]]
           Follows(f) == f = [i \in 1..n + 1 |->
                IF i > n THEN <<>>
                ELSE <<[raw[i] EXCEPT !.end = raw[Reach(raw, i, target)].end]>>
                     \o f[Reach(raw, i, target) + 1]]
           from == CHOOSE f : Follows(f)
<1>1. n \in Nat
  BY IsSeqLen DEF Placed
<1>2. \A i \in 1..n : R(i) \in i..n
  BY ReachIs
<1> HIDE DEF n, R
<1>3. base \in V
  OBVIOUS
<1>4. \A k \in 1..n : n + 1 - k \in 1..n
  BY <1>1
<1>5. back \in [1..n -> Nat] /\ \A k \in 1..n : back[k] < k
  <2>1. ASSUME NEW k \in 1..n PROVE n - R(n + 1 - k) \in Nat /\ n - R(n + 1 - k) < k
    BY <1>1, <1>2, <1>4
  <2> QED
    BY <2>1
<1>6. step \in [1..n -> [V -> V]]
  <2>1. ASSUME NEW k \in 1..n, NEW t \in V
        PROVE  <<Joined(raw, n + 1 - k, R(n + 1 - k))>> \o t \in V
    <3>1. Joined(raw, n + 1 - k, R(n + 1 - k)) \in U
      BY <1>1, <1>2, <1>4
    <3> DEFINE e == Joined(raw, n + 1 - k, R(n + 1 - k))
    <3> HIDE DEF e, U
    <3>2. <<e>> \in Seq(U)
      BY <3>1 DEF e
    <3>3. <<e>> \o t \in Seq(U)
      BY <3>2, ConcatProperties
    <3> QED
      BY <3>3 DEF e
  <2> HIDE DEF V
  <2> QED
    BY <2>1
<1> HIDE DEF V, base, back, step
<1>7. PICK g \in [0..n -> V] : Recurs(g, n, base, back, step)
  BY <1>1, <1>3, <1>5, <1>6, Recursion
<1> DEFINE f0 == [i \in 1..n + 1 |-> g[n + 1 - i]]
<1>8. Follows(f0)
  <2>1. ASSUME NEW i \in 1..n + 1
        PROVE  f0[i] = IF i > n THEN <<>> ELSE <<Joined(raw, i, R(i))>> \o f0[R(i) + 1]
    <3>1. CASE i > n
      <4>1. n + 1 - i = 0
        BY <1>1, <3>1
      <4> QED
        BY <1>7, <3>1, <4>1 DEF Recurs, base
    <3>2. CASE ~(i > n)
      <4> DEFINE k == n + 1 - i
      <4>1. k \in 1..n /\ n + 1 - k = i /\ i \in 1..n
        BY <1>1, <3>2
      <4>2. R(i) \in i..n /\ R(i) + 1 \in 1..n + 1 /\ n + 1 - (R(i) + 1) = n - R(i)
        BY <1>1, <1>2, <4>1
      <4>3. g[k] = step[k][g[back[k]]]
        BY <1>7, <4>1 DEF Recurs
      <4>4. back[k] = n - R(i)
        BY <4>1 DEF back
      <4>5. n - R(i) \in 0..n
        BY <1>1, <4>2
      <4>6. g[n - R(i)] \in V
        BY <1>7, <4>5
      <4>7. step[k][g[n - R(i)]] = <<Joined(raw, i, R(i))>> \o g[n - R(i)]
        BY <4>1, <4>6 DEF step
      <4>8. f0[R(i) + 1] = g[n - R(i)]
        BY <4>2
      <4>9. f0[i] = g[k]
        OBVIOUS
      <4> QED
        BY <3>2, <4>3, <4>4, <4>7, <4>8, <4>9
    <3> QED
      BY <3>1, <3>2
  <2> QED
    BY <2>1 DEF R, Joined
<1> HIDE DEF f0
<1>9. Follows(from)
  BY <1>8, Zenon
<1>10. Packed(raw, target) = from[1]
  BY DEF Packed, n
<1> HIDE DEF from
<1>11. Packs(from, raw, target)
  <2>1. from[n + 1] = <<>>
    BY <1>1, <1>9
  <2>2. ASSUME NEW i \in 1..n PROVE from[i] = <<Joined(raw, i, R(i))>> \o from[R(i) + 1]
    <3>1. i \in 1..n + 1 /\ ~(i > n)
      BY <1>1
    <3> QED
      BY <1>9, <3>1 DEF Joined, R
  <2> QED
    BY <2>1, <2>2 DEF Packs, n, R
<1> QED
  BY <1>10, <1>11

\* What chunk_note walks: sections one after the other over all that is not
\* blank. One that holds several fits into a piece, and its path is that of its
\* first text.
Walk(body, headings, target, w) ==
    /\ IsSeq(w)
    /\ \A k \in 1..Len(w) :
          /\ w[k] = [path |-> w[k].path, start |-> w[k].start, end |-> w[k].end]
          /\ w[k].start \in Nat /\ w[k].end \in Nat
          /\ w[k].start < w[k].end /\ w[k].end <= Len(body)
          /\ \A p \in w[k].start + 1..w[k].end :
                \/ Range(w[k].path) = TrailAt(body, headings, p)
                \/ /\ w[k].end - w[k].start <= target
                   /\ \E q \in w[k].start + 1..p - 1 : body[q] \notin Blanks
    /\ \A j, k \in 1..Len(w) : j < k =>
          w[j].end <= w[k].start /\ body[w[j].end] = Newline
    /\ \A i \in 1..Len(body) : body[i] \notin Blanks =>
          \E k \in 1..Len(w) : w[k].start < i /\ i <= w[k].end

\* What the sections from the i-th on are packed into.
PackedFrom(body, raw, target, t, i) ==
    /\ IsSeq(t)
    /\ \A k \in 1..Len(t) : \E f \in i..Len(raw) : \E l \in f..Len(raw) :
          t[k] = Joined(raw, f, l) /\ (l # f => raw[l].end - raw[f].start <= target)
    /\ \A j, k \in 1..Len(t) : j < k => t[j].end <= t[k].start /\ body[t[j].end] = Newline
    /\ \A f \in i..Len(raw) : \E k \in 1..Len(t) :
          t[k].start <= raw[f].start /\ raw[f].end <= t[k].end

\* A joined section is a record with the ends of its first and its last one.
LEMMA JoinedIs ==
    ASSUME NEW body, NEW headings, NEW raw, Placed(body, headings, raw),
           NEW i \in 1..Len(raw), NEW j \in 1..Len(raw)
    PROVE  Joined(raw, i, j) = [path |-> raw[i].path, start |-> raw[i].start, end |-> raw[j].end]
<1>1. raw[i] = [path |-> raw[i].path, start |-> raw[i].start, end |-> raw[i].end]
  BY DEF Placed
<1> DEFINE p == raw[i].path
           s == raw[i].start
           e == raw[i].end
<1>2. raw[i] = [path |-> p, start |-> s, end |-> e]
  BY <1>1
<1> HIDE DEF p, s, e
<1>3. Joined(raw, i, j) = [path |-> p, start |-> s, end |-> raw[j].end]
  BY <1>2 DEF Joined
<1> QED
  BY <1>3 DEF p, s

\* One more section before those that are packed already.
LEMMA PackedStep ==
    ASSUME NEW body, NEW headings, NEW raw, Placed(body, headings, raw), NEW target,
           NEW i \in 1..Len(raw), NEW t,
           PackedFrom(body, raw, target, t, Reach(raw, i, target) + 1)
    PROVE  PackedFrom(body, raw, target, <<Joined(raw, i, Reach(raw, i, target))>> \o t, i)
<1> DEFINE n == Len(raw)
           r == Reach(raw, i, target)
           x == Joined(raw, i, r)
           u == <<x>> \o t
<1>1. n \in Nat /\ i \in 1..n
  BY IsSeqLen DEF Placed
<1>2. r \in i..n /\ (r # i => raw[r].end - raw[i].start <= target)
  BY ReachIs
<1>3. r \in 1..n
  BY <1>1, <1>2
<1>4. x = [path |-> raw[i].path, start |-> raw[i].start, end |-> raw[r].end]
  BY <1>3, JoinedIs
<1>5. \A k \in 1..n : /\ raw[k].start \in Nat /\ raw[k].end \in Nat
                      /\ raw[k].start < raw[k].end
  BY DEF Placed
<1>6. \A j, k \in 1..n : j < k => raw[j].end <= raw[k].start /\ body[raw[j].end] = Newline
  BY DEF Placed
<1>7. /\ IsSeq(t)
      /\ \A k \in 1..Len(t) : \E f \in r + 1..n : \E l \in f..n :
            t[k] = Joined(raw, f, l) /\ (l # f => raw[l].end - raw[f].start <= target)
      /\ \A j, k \in 1..Len(t) : j < k => t[j].end <= t[k].start /\ body[t[j].end] = Newline
      /\ \A f \in r + 1..n : \E k \in 1..Len(t) :
            t[k].start <= raw[f].start /\ raw[f].end <= t[k].end
  BY DEF PackedFrom
<1> HIDE DEF x, r, n
<1>8. IsSeq(<<x>>) /\ Len(<<x>>) = 1 /\ <<x>>[1] = x
  BY TuplesAre
<1>9. /\ IsSeq(u) /\ Len(u) = 1 + Len(t)
      /\ u[1] = x /\ \A k \in 1..Len(t) : u[1 + k] = t[k]
  <2>1. /\ IsSeq(<<x>> \o t) /\ Len(<<x>> \o t) = Len(<<x>>) + Len(t)
        /\ \A k \in 1..Len(<<x>>) : (<<x>> \o t)[k] = <<x>>[k]
        /\ \A k \in 1..Len(t) : (<<x>> \o t)[Len(<<x>>) + k] = t[k]
    BY <1>7, <1>8, ConcatIs
  <2> QED
    BY <1>8, <2>1
<1>10. Len(t) \in Nat
  BY <1>7, IsSeqLen
<1> HIDE DEF u
<1>11. ASSUME NEW k \in 1..Len(u)
       PROVE  \E f \in i..n : \E l \in f..n :
                 u[k] = Joined(raw, f, l) /\ (l # f => raw[l].end - raw[f].start <= target)
  <2>1. CASE k = 1
    <3>1. i \in i..n /\ u[k] = Joined(raw, i, r)
      BY <1>1, <1>9, <2>1 DEF x
    <3> QED
      BY <1>2, <3>1
  <2>2. CASE k # 1
    <3>1. k - 1 \in 1..Len(t) /\ 1 + (k - 1) = k
      BY <1>9, <1>10, <2>2
    <3>2. PICK f \in r + 1..n : \E l \in f..n :
             t[k - 1] = Joined(raw, f, l) /\ (l # f => raw[l].end - raw[f].start <= target)
      BY <1>7, <3>1
    <3>3. f \in i..n
      BY <1>1, <1>2, <3>2
    <3>4. u[k] = t[k - 1]
      BY <1>9, <3>1
    <3> QED
      BY <3>2, <3>3, <3>4
  <2> QED
    BY <2>1, <2>2
<1>12. ASSUME NEW j \in 1..Len(u), NEW k \in 1..Len(u), j < k
       PROVE  u[j].end <= u[k].start /\ body[u[j].end] = Newline
  <2>1. k - 1 \in 1..Len(t) /\ 1 + (k - 1) = k
    BY <1>9, <1>10, <1>12
  <2>2. u[k] = t[k - 1]
    BY <1>9, <2>1
  <2>3. CASE j = 1
    <3>1. PICK f \in r + 1..n : \E l \in f..n : t[k - 1] = Joined(raw, f, l)
      BY <1>7, <2>1
    <3>2. PICK l \in f..n : t[k - 1] = Joined(raw, f, l)
      BY <3>1
    <3>3. f \in 1..n /\ l \in 1..n /\ r < f
      BY <1>1, <1>3, <3>1, <3>2
    <3>4. t[k - 1].start = raw[f].start
      <4>1. Joined(raw, f, l) =
              [path |-> raw[f].path, start |-> raw[f].start, end |-> raw[l].end]
        BY <3>3, JoinedIs DEF n
      <4> QED
        BY <3>2, <4>1
    <3>5. raw[r].end <= raw[f].start /\ body[raw[r].end] = Newline
      BY <1>3, <1>6, <3>3
    <3>6. u[j].end = raw[r].end
      BY <1>4, <1>9, <2>3
    <3> QED
      BY <2>2, <3>4, <3>5, <3>6
  <2>4. CASE j # 1
    <3>1. j - 1 \in 1..Len(t) /\ 1 + (j - 1) = j /\ j - 1 < k - 1
      BY <1>9, <1>10, <1>12, <2>4
    <3>2. u[j] = t[j - 1]
      BY <1>9, <3>1
    <3> QED
      BY <1>7, <2>1, <2>2, <3>1, <3>2
  <2> QED
    BY <2>3, <2>4
<1>13. ASSUME NEW f \in i..n
       PROVE  \E k \in 1..Len(u) : u[k].start <= raw[f].start /\ raw[f].end <= u[k].end
  <2>1. f \in 1..n
    BY <1>1
  <2>2. CASE f <= r
    <3>1. raw[i].start <= raw[f].start
      <4>1. CASE f = i
        BY <1>5, <2>1, <4>1
      <4>2. CASE i < f
        <5>1. raw[i].end <= raw[f].start
          BY <1>1, <1>6, <2>1, <4>2
        <5> QED
          BY <1>1, <1>5, <2>1, <5>1
      <4> QED
        BY <1>1, <2>1, <4>1, <4>2
    <3>2. raw[f].end <= raw[r].end
      <4>1. CASE f = r
        BY <1>3, <1>5, <4>1
      <4>2. CASE f < r
        <5>1. raw[f].end <= raw[r].start
          BY <1>3, <1>6, <2>1, <4>2
        <5> QED
          BY <1>3, <1>5, <2>1, <5>1
      <4> QED
        BY <1>3, <2>1, <2>2, <4>1, <4>2
    <3>3. 1 \in 1..Len(u) /\ u[1].start = raw[i].start /\ u[1].end = raw[r].end
      BY <1>4, <1>9, <1>10
    <3> QED
      BY <3>1, <3>2, <3>3
  <2>3. CASE ~(f <= r)
    <3>1. f \in r + 1..n
      BY <1>1, <1>3, <2>1, <2>3
    <3>2. PICK k \in 1..Len(t) : t[k].start <= raw[f].start /\ raw[f].end <= t[k].end
      BY <1>7, <3>1
    <3>3. 1 + k \in 1..Len(u) /\ u[1 + k] = t[k]
      BY <1>9, <1>10
    <3> QED
      BY <3>2, <3>3
  <2> QED
    BY <2>2, <2>3
<1>14. PackedFrom(body, raw, target, u, i)
  BY <1>9, <1>11, <1>12, <1>13 DEF PackedFrom, n
<1> QED
  BY <1>14 DEF u, x, r

\* Packing keeps all that is not blank, in order, and joins only what fits.
LEMMA PackedAre ==
    ASSUME NEW body, IsSeq(body), NEW headings, NEW raw, Placed(body, headings, raw), NEW target,
           \A k \in 1..Len(raw) : HasText(body, raw[k])
    PROVE  Walk(body, headings, target, Packed(raw, target))
<1> DEFINE n == Len(raw)
           P(t, i) == PackedFrom(body, raw, target, t, i)
           R(i) == Reach(raw, i, target)
<1>1. n \in Nat /\ Len(body) \in Nat
  BY IsSeqLen DEF Placed
<1>2. PICK from : Packs(from, raw, target) /\ Packed(raw, target) = from[1]
  BY PackedSteps
<1> DEFINE T == {j \in Nat : j <= n => P(from[n + 1 - j], n + 1 - j)}
<1>3. \A i \in 1..n : R(i) \in i..n
  BY ReachIs
<1>4. ASSUME NEW j \in Nat, \A m \in 0..j - 1 : m \in T PROVE j \in T
  <2>1. SUFFICES ASSUME j <= n PROVE P(from[n + 1 - j], n + 1 - j)
    OBVIOUS
  <2>2. CASE j = 0
    <3>1. from[n + 1] = <<>> /\ n + 1 - j = n + 1
      BY <1>1, <1>2, <2>2 DEF Packs
    <3>2. IsSeq(<<>>) /\ Len(<<>>) = 0
      BY TuplesAre
    <3>3. \A f \in n + 1..n : FALSE
      BY <1>1
    <3>4. P(<<>>, n + 1)
      BY <3>2, <3>3 DEF PackedFrom
    <3> QED
      BY <3>1, <3>4
  <2>3. CASE j # 0
    <3> DEFINE i == n + 1 - j
               m == n - R(i)
    <3>1. i \in 1..n
      BY <1>1, <2>1, <2>3
    <3>2. R(i) \in i..n
      BY <1>3, <3>1
    <3> HIDE DEF R
    <3>3. m \in 0..j - 1 /\ m <= n /\ n + 1 - m = R(i) + 1
      BY <1>1, <2>1, <3>2
    <3>4. m \in T
      BY <1>4, <3>3
    <3> HIDE DEF P
    <3>5. P(from[R(i) + 1], R(i) + 1)
      BY <3>3, <3>4
    <3> HIDE DEF m, i
    <3>6. P(<<Joined(raw, i, R(i))>> \o from[R(i) + 1], i)
      BY <3>1, <3>5, PackedStep DEF P, R
    <3>7. from[i] = <<Joined(raw, i, R(i))>> \o from[R(i) + 1]
      BY <1>2, <3>1 DEF Packs, R
    <3>8. P(from[i], i)
      BY <3>6, <3>7
    <3> QED
      BY <3>8 DEF i
  <2> QED
    BY <2>2, <2>3
<1> HIDE DEF T
<1>5. Nat \subseteq T
  BY <1>4, StrongInduction
<1> DEFINE w == Packed(raw, target)
<1>6. PackedFrom(body, raw, target, w, 1)
  <2>1. n \in T /\ n <= n /\ n + 1 - n = 1
    BY <1>1, <1>5
  <2> QED
    BY <1>2, <2>1 DEF T
<1> HIDE DEF w
<1>7. ASSUME NEW k \in 1..Len(w)
      PROVE  /\ w[k] = [path |-> w[k].path, start |-> w[k].start, end |-> w[k].end]
             /\ w[k].start \in Nat /\ w[k].end \in Nat
             /\ w[k].start < w[k].end /\ w[k].end <= Len(body)
             /\ \A p \in w[k].start + 1..w[k].end :
                   \/ Range(w[k].path) = TrailAt(body, headings, p)
                   \/ /\ w[k].end - w[k].start <= target
                      /\ \E q \in w[k].start + 1..p - 1 : body[q] \notin Blanks
  <2>1. PICK f \in 1..n : \E l \in f..n :
           w[k] = Joined(raw, f, l) /\ (l # f => raw[l].end - raw[f].start <= target)
    BY <1>6 DEF PackedFrom
  <2>2. PICK l \in f..n :
           w[k] = Joined(raw, f, l) /\ (l # f => raw[l].end - raw[f].start <= target)
    BY <2>1
  <2>3. l \in 1..n /\ f <= l
    BY <2>1, <2>2
  <2>4. w[k] = [path |-> raw[f].path, start |-> raw[f].start, end |-> raw[l].end]
    <3>1. Joined(raw, f, l) = [path |-> raw[f].path, start |-> raw[f].start, end |-> raw[l].end]
      BY <2>3, JoinedIs
    <3> QED
      BY <2>2, <3>1
  <2>5. w[k].path = raw[f].path /\ w[k].start = raw[f].start /\ w[k].end = raw[l].end
    BY <2>4
  <2>6. /\ raw[f].start \in Nat /\ raw[f].end \in Nat /\ raw[f].start < raw[f].end
        /\ raw[l].start \in Nat /\ raw[l].end \in Nat /\ raw[l].start < raw[l].end
        /\ raw[f].end <= Len(body) /\ raw[l].end <= Len(body)
    BY <2>1, <2>3 DEF Placed
  <2>7. f < l => raw[f].end <= raw[l].start
    BY <2>1, <2>3 DEF Placed
  <2>8. raw[f].start < raw[l].end
    BY <2>3, <2>6, <2>7
  <2>9. ASSUME NEW p \in raw[f].start + 1..raw[l].end
        PROVE  \/ Range(raw[f].path) = TrailAt(body, headings, p)
               \/ /\ raw[l].end - raw[f].start <= target
                  /\ \E q \in raw[f].start + 1..p - 1 : body[q] \notin Blanks
    <3>1. CASE p <= raw[f].end
      <4>1. p \in raw[f].start + 1..raw[f].end
        BY <2>6, <3>1
      <4> QED
        BY <4>1, <2>1 DEF Placed
    <3>2. CASE ~(p <= raw[f].end)
      <4>1. l # f
        BY <2>6, <3>2
      <4>2. PICK q \in raw[f].start + 1..raw[f].end : body[q] \notin Blanks
        BY <2>1 DEF HasText
      <4>3. q \in raw[f].start + 1..p - 1
        BY <2>6, <3>2
      <4> QED
        BY <2>2, <4>1, <4>2, <4>3
    <3> QED
      BY <3>1, <3>2
  <2> QED
    BY <2>4, <2>5, <2>6, <2>8, <2>9
<1>8. ASSUME NEW i \in 1..Len(body), body[i] \notin Blanks
      PROVE  \E k \in 1..Len(w) : w[k].start < i /\ i <= w[k].end
  <2>1. PICK f \in 1..n : raw[f].start < i /\ i <= raw[f].end
    BY <1>8 DEF Placed
  <2>2. PICK k \in 1..Len(w) : w[k].start <= raw[f].start /\ raw[f].end <= w[k].end
    BY <1>6 DEF PackedFrom
  <2>3. /\ raw[f].start \in Nat /\ raw[f].end \in Nat
        /\ w[k].start \in Nat /\ w[k].end \in Nat
    BY <1>7 DEF Placed
  <2> QED
    BY <2>1, <2>2, <2>3
<1> QED
  BY <1>6, <1>7, <1>8 DEF Walk, PackedFrom, w

\* chunk_note walks all that is not blank, packed or not.
LEMMA WalkedAre ==
    ASSUME NEW body, IsSeq(body), NEW c
    PROVE  Walk(body, HeadingStarts(body), c.target, Walked(body, c))
<1> DEFINE H == HeadingStarts(body)
           sec == SectionsFrom(body, H)
<1>1. Tiled(body, H, sec)
  BY HeadingsAre, SectionsAre
<1>2. CASE c.packing
  <2>1. /\ Placed(body, H, Printed(body, sec))
        /\ \A k \in 1..Len(Printed(body, sec)) : HasText(body, Printed(body, sec)[k])
    BY <1>1, PrintedAre
  <2>2. Walk(body, H, c.target, Packed(Printed(body, sec), c.target))
    BY <2>1, PackedAre
  <2> QED
    BY <1>2, <2>2 DEF Walked, PackedSections, Sections
<1>3. CASE ~c.packing
  <2> HIDE DEF sec, H
  <2>1. Walk(body, H, c.target, sec)
    BY <1>1 DEF Tiled, Walk
  <2> QED
    BY <1>3, <2>1 DEF Walked, Sections, sec, H
<1> QED
  BY <1>2, <1>3

--------------------------------------------------------------------------------
(* Cuts: the pieces of a section.                                              *)

\* A section that is longer than the limit is cut in its second half.
LEMMA SplitPointIs ==
    ASSUME NEW s, IsSeq(s), NEW limit \in Nat \ {0, 1}
    PROVE  IF Len(s) <= limit THEN SplitPoint(s, limit) = Len(s)
           ELSE /\ SplitPoint(s, limit) \in Nat /\ SplitPoint(s, limit) <= limit
                /\ (limit - 1) \div 2 + 2 <= SplitPoint(s, limit)
<1> DEFINE window == SubSeq(s, 1, limit)
           usable == {k \in DOMAIN Breaks : Late(window, Breaks[k]) # {}}
<1>1. CASE Len(s) <= limit
  BY <1>1 DEF SplitPoint
<1>2. CASE ~(Len(s) <= limit)
  <2>1. Len(s) \in Nat /\ limit <= Len(s)
    BY <1>2, IsSeqLen
  <2>2. Len(window) = limit
    <3>1. \A m \in Nat \ {0}, n \in Int : n <= Len(s) =>
            Len(SubSeq(s, m, n)) = IF m <= n THEN n - m + 1 ELSE 0
      BY SubSeqIs
    <3> QED
      BY <2>1, <3>1
  <2>3. SplitPoint(s, limit) = CutAt(window, usable)
    BY <1>2 DEF SplitPoint, InWindow
  <2>4. DOMAIN Breaks = 1..5 /\ \A k \in 1..5 : Len(Breaks[k]) \in 1..2
    BY DEF Breaks
  <2>5. usable \in SUBSET Nat
    BY <2>4
  <2> HIDE DEF window
  <2>6. CASE usable = {}
    <3>1. SplitPoint(s, limit) = limit
      BY <2>2, <2>3, <2>6 DEF CutAt
    <3> QED
      BY <1>2, <3>1
  <2>7. CASE usable # {}
    <3> DEFINE b == Min(usable)
               L == Late(window, Breaks[b])
               e == Len(Breaks[b])
    <3>1. b \in usable
      BY <2>5, <2>7, MinIsLeast
    <3>2. b \in 1..5 /\ L # {} /\ e \in 1..2
      BY <2>4, <3>1
    <3>3. SplitPoint(s, limit) = Max(L) + e
      BY <2>3, <2>7 DEF CutAt
    <3>4. \A p \in L : p \in 0..limit - e /\ p > limit \div 2
      BY <2>2 DEF Late, Occurs
    <3> HIDE DEF L, e, b, usable
    <3>5. limit - e \in Nat
      BY <3>2
    <3>6. L \in SUBSET (0..limit - e)
      BY <3>4
    <3>7. Max(L) \in L
      BY <3>2, <3>5, <3>6, MaxIsGreatest
    <3>8. Max(L) \in 0..limit - e /\ Max(L) > limit \div 2
      BY <3>4, <3>7
    <3>9. limit \div 2 >= (limit - 1) \div 2 /\ limit \div 2 \in Int /\ (limit - 1) \div 2 \in Int
      OBVIOUS
    <3>10. Max(L) + e >= limit \div 2 + 2 /\ Max(L) + e <= limit /\ Max(L) + e \in Nat
      BY <3>2, <3>8, <3>9
    <3> QED
      BY <1>2, <3>3, <3>9, <3>10
  <2> QED
    BY <2>6, <2>7
<1> QED
  BY <1>1, <1>2

\* A configuration as Config makes them.
IsConfig(c) ==
    /\ c.target \in Nat \ {0, 1} /\ c.overlap \in Nat
    /\ c.overlap <= (c.target - 1) \div 2

\* The first text behind a place, seen from a later part of the body.
LEMMA LeadIs ==
    ASSUME NEW body, IsSeq(body), NEW o \in Nat, NEW p \in 1..Len(body),
           o < p, body[p] \notin Blanks
    PROVE  /\ Lead(body, o) \in 1..Len(body) /\ o < Lead(body, o) /\ Lead(body, o) <= p
           /\ body[Lead(body, o)] \notin Blanks
           /\ \A q \in 1..Len(body) : o < q /\ body[q] \notin Blanks => Lead(body, o) <= q
<1> DEFINE S == {i \in DOMAIN body : i > o /\ body[i] \notin Blanks}
<1>1. DOMAIN body = 1..Len(body) /\ Len(body) \in Nat
  BY IsSeqLen
<1>2. S \in SUBSET Nat /\ p \in S
  BY <1>1
<1>3. Lead(body, o) = Min(S)
  BY DEF Lead
<1>4. Min(S) \in S /\ \A y \in S : Min(S) <= y
  <2> HIDE DEF S
  <2> QED
    BY <1>2, MinIsLeast
<1> QED
  BY <1>1, <1>2, <1>3, <1>4

\* A piece is where its section and its offset say, with the path of the section.
Cut(body, section, target, x) ==
    /\ x.offset \in Nat /\ section.start <= x.offset /\ x.offset < section.end
    /\ x.path = section.path
    /\ IsSeq(x.text) /\ Len(x.text) <= target
    /\ Lead(body, x.offset) \in x.offset + 1..section.end
    /\ body[Lead(body, x.offset)] \notin Blanks
    /\ x.text = [i \in 1..Len(x.text) |-> body[Lead(body, x.offset) + i - 1]]

\* A window of a section becomes a piece with all of its text, or none if blank.
LEMMA PieceIs ==
    ASSUME NEW body, IsSeq(body), NEW section, section.start \in Nat, section.end \in Nat,
           section.start < section.end, section.end <= Len(body), NEW target \in Nat,
           NEW c \in Nat, NEW n \in Nat, 0 < n, n <= target,
           section.start + c + n <= section.end
    PROVE  LET o == section.start + c
               ps == Piece(section, Raw(body, section), c, n) IN
           \/ /\ ps = <<>>
              /\ \A p \in o + 1..o + n : body[p] \in Blanks
           \/ \E x : /\ ps = <<x>> /\ x.offset = o
                     /\ Cut(body, section, target, x)
                     /\ \A p \in o + 1..o + n : body[p] \notin Blanks => p \in Span(body, x)
<1> DEFINE raw == Raw(body, section)
           o == section.start + c
           ps == Piece(section, raw, c, n)
           win == SubSeq(raw, c + 1, c + n)
           N == {i \in DOMAIN win : win[i] \notin Blanks}
           x == [offset |-> o, path |-> section.path, text |-> Trimmed(win)]
<1>1. /\ IsSeq(raw) /\ Len(raw) = section.end - section.start
      /\ \A i \in 1..Len(raw) : raw[i] = body[section.start + i]
  <2>1. section.start <= section.end
    OBVIOUS
  <2> QED
    BY <2>1, RawIs
<1> HIDE DEF raw
<1>2. IsSeq(win) /\ Len(win) = n /\ \A i \in 1..n : win[i] = body[o + i]
  <2>1. \A m \in Nat \ {0}, k \in Int : k <= Len(raw) =>
          /\ IsSeq(SubSeq(raw, m, k)) /\ Len(SubSeq(raw, m, k)) = IF m <= k THEN k - m + 1 ELSE 0
          /\ \A i \in 1..Len(SubSeq(raw, m, k)) : SubSeq(raw, m, k)[i] = raw[m + i - 1]
    BY <1>1, SubSeqIs
  <2>2. c + 1 \in Nat \ {0} /\ c + n \in Int /\ c + n <= Len(raw) /\ c + 1 <= c + n
        /\ (c + n) - (c + 1) + 1 = n
    BY <1>1
  <2>3. /\ IsSeq(win) /\ Len(win) = n
        /\ \A i \in 1..Len(win) : win[i] = raw[c + 1 + i - 1]
    BY <2>1, <2>2
  <2>4. ASSUME NEW i \in 1..n PROVE win[i] = body[o + i]
    <3>1. c + 1 + i - 1 = c + i /\ c + i \in 1..Len(raw) /\ section.start + (c + i) = o + i
      BY <2>2
    <3>2. win[i] = raw[c + i]
      BY <2>3, <3>1
    <3> QED
      BY <1>1, <3>1, <3>2
  <2> QED
    BY <2>3, <2>4
<1>3. ps = IF IsBlank(win) THEN <<>> ELSE <<x>>
  BY DEF Piece
<1> HIDE DEF win
<1>4. o \in Nat /\ o + n <= section.end /\ o + n <= Len(body) /\ Len(body) \in Nat
  BY IsSeqLen
<1>5. DOMAIN win = 1..n
  BY <1>2, IsSeqLen
<1>6. N = {i \in 1..n : body[o + i] \notin Blanks}
  BY <1>2, <1>5
<1>7. N = {} <=> IsBlank(win)
  <2>1. \A y \in Range(win) : \E i \in 1..n : y = win[i]
    BY <1>2, IsSeqLen
  <2>2. \A i \in 1..n : win[i] \in Range(win)
    BY <1>2, IsSeqLen
  <2> QED
    BY <1>5, <2>1, <2>2 DEF IsBlank
<1> HIDE DEF o
<1>8. CASE IsBlank(win)
  <2>1. ASSUME NEW p \in o + 1..o + n PROVE body[p] \in Blanks
    <3>1. p - o \in 1..n /\ o + (p - o) = p
      BY <1>4
    <3> QED
      BY <1>6, <1>7, <1>8, <3>1
  <2> QED
    BY <1>3, <1>8, <2>1 DEF o, raw
<1>9. CASE ~IsBlank(win)
  <2> DEFINE a == Min(N)
             b == Max(N)
             text == SubSeq(win, a, b)
  <2>1. N \in SUBSET (0..n) /\ N \in SUBSET Nat /\ N # {}
    BY <1>6, <1>7, <1>9
  <2>2. Trimmed(win) = text
    BY <1>9 DEF Trimmed
  <2>3. a \in N /\ \A i \in N : a <= i
    <3> HIDE DEF N
    <3> QED
      BY <2>1, MinIsLeast
  <2>4. b \in N /\ \A i \in N : i <= b
    <3> HIDE DEF N
    <3> QED
      BY <2>1, MaxIsGreatest
  <2>5. a \in 1..n /\ b \in 1..n /\ a <= b
    BY <1>6, <2>3, <2>4
  <2> HIDE DEF a, b
  <2>6. /\ IsSeq(text) /\ Len(text) = b - a + 1
        /\ \A i \in 1..Len(text) : text[i] = win[a + i - 1]
    <3>1. \A m \in Nat \ {0}, k \in Int : k <= Len(win) =>
            /\ IsSeq(SubSeq(win, m, k)) /\ Len(SubSeq(win, m, k)) = IF m <= k THEN k - m + 1 ELSE 0
            /\ \A i \in 1..Len(SubSeq(win, m, k)) : SubSeq(win, m, k)[i] = win[m + i - 1]
      BY <1>2, SubSeqIs
    <3>2. a \in Nat \ {0} /\ b \in Int /\ b <= Len(win)
      BY <1>2, <2>5
    <3> QED
      BY <2>5, <3>1, <3>2
  <2>7. o + a \in 1..Len(body) /\ o < o + a /\ body[o + a] \notin Blanks
    BY <1>4, <1>6, <2>3, <2>5
  <2>8. Lead(body, o) = o + a
    <3>1. /\ Lead(body, o) \in 1..Len(body) /\ o < Lead(body, o) /\ Lead(body, o) <= o + a
          /\ body[Lead(body, o)] \notin Blanks
      BY <1>4, <2>7, LeadIs
    <3>2. Lead(body, o) - o \in 1..n /\ o + (Lead(body, o) - o) = Lead(body, o)
      BY <1>4, <2>5, <3>1
    <3>3. Lead(body, o) - o \in N
      BY <1>6, <3>1, <3>2
    <3>4. a <= Lead(body, o) - o
      BY <2>3, <3>3
    <3>5. Lead(body, o) \in Int /\ o \in Int /\ a \in Int
      BY <1>4, <2>5, <3>1
    <3> HIDE DEF N
    <3> QED
      BY <3>1, <3>4, <3>5
  <2> HIDE DEF text, N
  <2>9. ASSUME NEW i \in 1..Len(text) PROVE text[i] = body[Lead(body, o) + i - 1]
    <3>1. i \in Nat /\ 1 <= i /\ i <= b - a + 1 /\ a \in Nat /\ b \in Nat /\ 1 <= a /\ b <= n
      BY <2>5, <2>6
    <3>2. a + i - 1 \in 1..n /\ o + (a + i - 1) = (o + a) + i - 1
      BY <1>4, <3>1
    <3> QED
      BY <1>2, <2>6, <2>8, <3>2
  <2>10. text = [i \in 1..Len(text) |-> body[Lead(body, o) + i - 1]]
    <3>1. \A i \in DOMAIN text : text[i] = body[Lead(body, o) + i - 1]
      BY <2>6, <2>9, IsSeqLen
    <3>2. text = [i \in DOMAIN text |-> text[i]] /\ DOMAIN text = 1..Len(text)
      BY <2>6, IsSeqLen DEF IsSeq
    <3> QED
      BY <3>1, <3>2
  <2>11. x.offset = o /\ x.path = section.path /\ x.text = text
    BY <2>2
  <2> HIDE DEF x
  <2>12. Cut(body, section, target, x)
    <3>1. o + a \in o + 1..section.end /\ section.start <= o /\ o < section.end
      BY <1>4, <2>5, SMTT(60) DEF o
    <3>2. Len(text) <= target
      BY <2>5, <2>6
    <3> QED
      BY <1>4, <2>6, <2>7, <2>8, <2>10, <2>11, <3>1, <3>2 DEF Cut
  <2>13. ASSUME NEW p \in o + 1..o + n, body[p] \notin Blanks PROVE p \in Span(body, x)
    <3>1. p - o \in 1..n /\ o + (p - o) = p
      BY <1>4
    <3>2. p - o \in N
      BY <1>6, <2>13, <3>1
    <3>3. a <= p - o /\ p - o <= b
      BY <2>3, <2>4, <3>2
    <3>4. p \in o + a..o + a + Len(text) - 1
      BY <1>4, <2>5, <2>6, <3>1, <3>3
    <3> QED
      BY <2>8, <2>11, <3>4 DEF Span
  <2>14. ps = <<x>>
    BY <1>3, <1>9
  <2> QED
    BY <2>11, <2>12, <2>13, <2>14 DEF o, raw
<1> QED
  BY <1>8, <1>9

\* What PiecesOf takes at a cursor.
TakeAt(raw, c, at) ==
    Min({SplitPoint(SubSeq(raw, at + 1, Len(raw)), c.target), HardMax(c)})

\* All that is left, if it fits; or more than the overlap, by two at least.
LEMMA TakeIs ==
    ASSUME NEW raw, IsSeq(raw), NEW c, IsConfig(c), NEW i \in 1..Len(raw)
    PROVE  /\ TakeAt(raw, c, Len(raw) - i) \in 1..i
           /\ TakeAt(raw, c, Len(raw) - i) <= c.target
           /\ i <= c.target => TakeAt(raw, c, Len(raw) - i) = i
           /\ i > c.target => /\ TakeAt(raw, c, Len(raw) - i) < i
                              /\ c.overlap + 2 <= TakeAt(raw, c, Len(raw) - i)
<1> DEFINE s == SubSeq(raw, Len(raw) - i + 1, Len(raw))
           p == SplitPoint(s, c.target)
           t == c.target
<1>1. Len(raw) \in Nat
  BY IsSeqLen
<1>2. IsSeq(s) /\ Len(s) = i
  <2>1. \A m \in Nat \ {0}, n \in Int : n <= Len(raw) =>
          /\ IsSeq(SubSeq(raw, m, n)) /\ Len(SubSeq(raw, m, n)) = IF m <= n THEN n - m + 1 ELSE 0
    BY <1>1, SubSeqIs
  <2>2. Len(raw) - i + 1 \in Nat \ {0} /\ Len(raw) \in Int /\ Len(raw) <= Len(raw)
        /\ Len(raw) - i + 1 <= Len(raw) /\ Len(raw) - (Len(raw) - i + 1) + 1 = i
    BY <1>1
  <2> QED
    BY <2>1, <2>2
<1>3. t \in Nat \ {0, 1} /\ c.overlap \in Nat /\ c.overlap <= (t - 1) \div 2
  BY DEF IsConfig
<1> HIDE DEF s, t
<1>4. IF i <= t THEN p = i
      ELSE p \in Nat /\ p <= t /\ (t - 1) \div 2 + 2 <= p
  BY <1>2, <1>3, SplitPointIs DEF t
<1>5. t <= HardMax(c) /\ HardMax(c) \in Nat
  <2>1. HardMaxFactor \in Nat /\ 1 <= HardMaxFactor /\ t \in Nat
    BY <1>3, FactorAssumption
  <2>2. \A x, y \in Nat : 1 <= x => y <= x * y /\ x * y \in Nat
    OBVIOUS
  <2> QED
    BY <2>1, <2>2 DEF HardMax, t
<1> HIDE DEF p
<1>6. (t - 1) \div 2 \in Int
  BY <1>3
<1>7. p \in Nat /\ p <= t
  BY <1>3, <1>4
<1>8. TakeAt(raw, c, Len(raw) - i) = p
  <2>1. Min({p, HardMax(c)}) = p
    BY <1>5, <1>7, <1>3, MinOfTwo
  <2> QED
    BY <2>1 DEF TakeAt, p, s, t
<1>9. p \in 1..i /\ (i <= t => p = i) /\ (i > t => p < i /\ c.overlap + 2 <= p)
  <2>1. CASE i <= t
    BY <1>1, <1>3, <1>4, <2>1
  <2>2. CASE ~(i <= t)
    BY <1>3, <1>4, <1>6, <2>2
  <2> QED
    BY <2>1, <2>2
<1> QED
  BY <1>7, <1>8, <1>9 DEF t

\* The next cursor of a section that does not fit: on by two at least, within
\* what was taken.
LEMMA NextIs ==
    ASSUME NEW at \in Nat, NEW take \in Nat, NEW overlap \in Nat, overlap + 2 <= take
    PROVE  /\ NextCursor(at, take, overlap) \in Nat
           /\ at + 2 <= NextCursor(at, take, overlap)
           /\ NextCursor(at, take, overlap) <= at + take
<1>1. NextCursor(at, take, overlap) = Max({at + take - overlap, at + 1})
  BY DEF NextCursor
<1>2. at + take - overlap \in Int /\ at + 1 \in Int /\ ~(at + take - overlap <= at + 1)
  OBVIOUS
<1>3. Max({at + take - overlap, at + 1}) = at + take - overlap
  BY <1>2, MaxOfTwo
<1> QED
  BY <1>1, <1>3

\* The steps of PiecesOf, from the end of a section backwards.
Rests(rest, section, raw, c) ==
    /\ rest[0] = <<>>
    /\ \A i \in 1..Len(raw) :
          rest[i] = Piece(section, raw, Len(raw) - i, TakeAt(raw, c, Len(raw) - i))
                    \o (IF TakeAt(raw, c, Len(raw) - i) >= i THEN <<>>
                        ELSE rest[Len(raw) - NextCursor(Len(raw) - i,
                                     TakeAt(raw, c, Len(raw) - i), c.overlap)])

\* What PiecesOf has left to cut, piece by piece (chunk_note).
LEMMA RestsSteps ==
    ASSUME NEW section, NEW raw, IsSeq(raw), NEW c, IsConfig(c)
    PROVE  \E rest : Rests(rest, section, raw, c) /\ PiecesOf(section, raw, c) = rest[Len(raw)]
<1> DEFINE n == Len(raw)
           At(i) == TakeAt(raw, c, n - i)
           P(i) == Piece(section, raw, n - i, At(i))
           B(i) == n - NextCursor(n - i, At(i), c.overlap)
           U == UNION {Range(P(i)) : i \in 1..n}
           V == Seq(U)
           base == <<>>
           back == [i \in 1..n |-> IF At(i) >= i THEN 0 ELSE B(i)]
           step == [i \in 1..n |-> [t \in V |-> P(i) \o (IF At(i) >= i THEN <<>> ELSE t)]]
           take == [x \in 0..Len(raw) |->
                    Min({SplitPoint(SubSeq(raw, x + 1, Len(raw)), c.target), HardMax(c)})]
           Follows(f) == f = [i \in 0..Len(raw) |-> LET at == Len(raw) - i IN
                IF i = 0 THEN <<>>
                ELSE Piece(section, raw, at, take[at])
                     \o (IF take[at] >= i THEN <<>>
                         ELSE f[Len(raw) - NextCursor(at, take[at], c.overlap)])]
           rest == CHOOSE f : Follows(f)
<1>1. n \in Nat
  BY IsSeqLen
<1>2. \A i \in 1..n : /\ At(i) \in 1..i
                      /\ i <= c.target => At(i) = i
                      /\ i > c.target => c.overlap + 2 <= At(i)
  BY TakeIs
<1>3. c.target \in Nat /\ c.overlap \in Nat
  BY DEF IsConfig
<1>4. \A i \in 0..n : take[n - i] = At(i)
  BY <1>1 DEF TakeAt
<1>5. ASSUME NEW i \in 1..n, ~(At(i) >= i) PROVE B(i) \in Nat /\ B(i) < i
  <2>1. c.overlap + 2 <= At(i) /\ At(i) \in Nat /\ At(i) < i
    BY <1>2, <1>3, <1>5
  <2> HIDE DEF At
  <2>2. n - i \in Nat
    BY <1>1
  <2>3. /\ NextCursor(n - i, At(i), c.overlap) \in Nat
        /\ (n - i) + 2 <= NextCursor(n - i, At(i), c.overlap)
        /\ NextCursor(n - i, At(i), c.overlap) <= (n - i) + At(i)
    BY <1>3, <2>1, <2>2, NextIs
  <2> QED
    BY <1>1, <2>1, <2>3
<1>6. ASSUME NEW i \in 1..n PROVE P(i) \in V
  <2>1. IsSeq(P(i))
    <3> HIDE DEF At, n
    <3>1. CASE P(i) = <<>>
      BY <3>1, TuplesAre
    <3>2. CASE P(i) # <<>>
      <4> DEFINE x == [offset |-> section.start + (n - i), path |-> section.path,
                       text |-> Trimmed(SubSeq(raw, (n - i) + 1, (n - i) + At(i)))]
      <4>1. P(i) = <<x>>
        BY <3>2 DEF Piece
      <4> HIDE DEF x
      <4> QED
        BY <4>1, TuplesAre
    <3> QED
      BY <3>1, <3>2
  <2> HIDE DEF P
  <2>2. \A k \in 1..Len(P(i)) : P(i)[k] \in U
    BY <2>1, IsSeqLen
  <2> HIDE DEF U
  <2> QED
    BY <2>1, <2>2, SeqOver
<1>7. base \in V
  OBVIOUS
<1> HIDE DEF P, At, U, B, n
<1>8. back \in [1..n -> Nat] /\ \A k \in 1..n : back[k] < k
  BY <1>5
<1>9. step \in [1..n -> [V -> V]]
  <2>1. ASSUME NEW i \in 1..n, NEW t \in V PROVE P(i) \o (IF At(i) >= i THEN <<>> ELSE t) \in V
    <3>1. (IF At(i) >= i THEN <<>> ELSE t) \in V
      OBVIOUS
    <3> QED
      BY <1>6, <3>1, ConcatProperties
  <2> HIDE DEF V
  <2> QED
    BY <2>1
<1> HIDE DEF V, base, back, step
<1>10. PICK g \in [0..n -> V] : Recurs(g, n, base, back, step)
  BY <1>1, <1>7, <1>8, <1>9, Recursion
<1> HIDE DEF take
<1>11. Follows(g)
  <2>1. g = [i \in 0..n |-> g[i]]
    BY <1>10
  <2>2. ASSUME NEW i \in 0..n
        PROVE  g[i] = IF i = 0 THEN <<>>
                      ELSE P(i) \o (IF At(i) >= i THEN <<>> ELSE g[B(i)])
    <3>1. CASE i = 0
      BY <1>10, <3>1 DEF Recurs, base
    <3>2. CASE i # 0
      <4>1. i \in 1..n
        BY <1>1, <3>2
      <4>2. g[i] = step[i][g[back[i]]]
        BY <1>10, <4>1 DEF Recurs
      <4>3. back[i] \in 0..n
        BY <1>1, <1>8, <4>1
      <4>4. g[back[i]] \in V
        BY <1>10, <4>3
      <4>5. g[i] = P(i) \o (IF At(i) >= i THEN <<>> ELSE g[back[i]])
        BY <4>1, <4>2, <4>4 DEF step
      <4> QED
        BY <3>2, <4>1, <4>5 DEF back
    <3> QED
      BY <3>1, <3>2
  <2>3. \A i \in 0..n :
          g[i] = LET at == Len(raw) - i IN
                IF i = 0 THEN <<>>
                ELSE Piece(section, raw, at, take[at])
                     \o (IF take[at] >= i THEN <<>>
                         ELSE g[Len(raw) - NextCursor(at, take[at], c.overlap)])
    BY <1>4, <2>2 DEF P, B, n
  <2> QED
    BY <2>1, <2>3 DEF n
<1>12. Follows(rest)
  BY <1>11, Zenon
<1>13. PiecesOf(section, raw, c) = rest[n]
  BY DEF PiecesOf, take, n
<1> HIDE DEF rest
<1>14. rest[0] = <<>>
  BY <1>1, <1>12 DEF n
<1>15. ASSUME NEW i \in 1..n
       PROVE  rest[i] = P(i) \o (IF At(i) >= i THEN <<>> ELSE rest[B(i)])
  <2>1. i \in 0..n /\ i # 0 /\ take[n - i] = At(i)
    BY <1>1, <1>4
  <2> QED
    BY <1>12, <2>1 DEF P, B, n
<1>16. Rests(rest, section, raw, c)
  BY <1>14, <1>15 DEF Rests, P, B, At, n
<1> QED
  BY <1>13, <1>16 DEF n

\* What the last i places of a section are cut into.
PiecesFrom(body, section, target, t, i) ==
    /\ IsSeq(t)
    /\ \A k \in 1..Len(t) :
          /\ Cut(body, section, target, t[k])
          /\ section.end - i <= t[k].offset
          /\ section.end - i < t[k].offset => i > target
    /\ \A j, k \in 1..Len(t) : j < k => t[j].offset + 1 < t[k].offset
    /\ \A p \in section.end - i + 1..section.end : body[p] \notin Blanks =>
          \E k \in 1..Len(t) : p \in Span(body, t[k])

\* A window before the pieces that follow it.
LEMMA PiecesStep ==
    ASSUME NEW body, IsSeq(body), NEW section, section.start \in Nat, section.end \in Nat,
           section.start < section.end, section.end <= Len(body), NEW target \in Nat,
           NEW i \in 1..section.end - section.start, NEW take \in 1..i, take <= target,
           NEW m \in Nat, NEW t, PiecesFrom(body, section, target, t, m),
           IF take = i THEN m = 0 ELSE i > target /\ i - take <= m /\ m + 2 <= i
    PROVE  PiecesFrom(body, section, target,
               Piece(section, Raw(body, section), section.end - section.start - i, take) \o t, i)
<1> DEFINE at == section.end - section.start - i
           o == section.start + at
           ps == Piece(section, Raw(body, section), at, take)
           e == section.end
           u == ps \o t
<1>1. at \in Nat /\ o \in Nat /\ o = e - i /\ section.start <= o /\ at + take + section.start <= e
      /\ section.start + at + take <= e /\ take \in Nat /\ 0 < take
  OBVIOUS
<1>2. \/ ps = <<>> /\ \A p \in o + 1..o + take : body[p] \in Blanks
      \/ \E x : /\ ps = <<x>> /\ x.offset = o /\ Cut(body, section, target, x)
                /\ \A p \in o + 1..o + take : body[p] \notin Blanks => p \in Span(body, x)
  <2> HIDE DEF at, e
  <2> QED
    BY <1>1, PieceIs DEF e
<1>3. /\ IsSeq(t)
      /\ \A k \in 1..Len(t) : /\ Cut(body, section, target, t[k])
                              /\ e - m <= t[k].offset
      /\ \A j, k \in 1..Len(t) : j < k => t[j].offset + 1 < t[k].offset
      /\ \A p \in e - m + 1..e : body[p] \notin Blanks =>
            \E k \in 1..Len(t) : p \in Span(body, t[k])
  BY DEF PiecesFrom
<1>4. Len(t) \in Nat
  BY <1>3, IsSeqLen
<1>5. take < i => i > target
  OBVIOUS
<1>6. e \in Nat /\ i \in Nat /\ o \in Int
  OBVIOUS
<1>7. take = i => Len(t) = 0
  <2>1. SUFFICES ASSUME take = i, Len(t) # 0 PROVE FALSE
    OBVIOUS
  <2>2. 1 \in 1..Len(t) /\ m = 0
    BY <1>4, <2>1
  <2>3. Cut(body, section, target, t[1]) /\ e - m <= t[1].offset
    BY <1>3, <2>2
  <2> QED
    BY <2>2, <2>3 DEF Cut
<1> HIDE DEF at, o, ps
<1>8. ASSUME NEW k \in 1..Len(t)
      PROVE  Cut(body, section, target, t[k]) /\ o + 1 < t[k].offset /\ t[k].offset \in Nat
             /\ i > target
  <2>1. Cut(body, section, target, t[k]) /\ e - m <= t[k].offset /\ t[k].offset \in Nat
    BY <1>3 DEF Cut
  <2>2. take # i
    BY <1>4, <1>7
  <2>3. i > target /\ m + 2 <= i
    BY <2>2
  <2>4. o = e - i
    BY <1>1
  <2> HIDE DEF e
  <2>5. o + 1 < t[k].offset
    BY <1>6, <2>1, <2>3, <2>4
  <2> QED
    BY <2>1, <2>3, <2>5
<1>9. ASSUME NEW p \in o + 1..e, body[p] \notin Blanks, ~(p <= o + take)
      PROVE  \E k \in 1..Len(t) : p \in Span(body, t[k])
  <2>1. take # i /\ i - take <= m
    <3>1. take # i => i - take <= m
      OBVIOUS
    <3>2. p \in Int /\ p <= e /\ ~(p <= o + take) /\ o = e - i /\ e \in Nat /\ o \in Int
      BY <1>1, <1>6, <1>9
    <3> HIDE DEF e, u
    <3>3. take # i
      BY <1>6, <3>2
    <3> QED
      BY <3>1, <3>3
  <2>2. p \in e - m + 1..e
    <3>1. p \in o + 1..e /\ ~(p <= o + take) /\ o = e - i /\ o \in Nat
      BY <1>1, <1>9
    <3> HIDE DEF e, u
    <3> QED
      BY <1>6, <2>1, <3>1, SMTT(60)
  <2> QED
    BY <1>3, <1>9, <2>2
<1>10. CASE ps = <<>> /\ \A p \in o + 1..o + take : body[p] \in Blanks
  <2>1. u = t
    <3>1. /\ IsSeq(<<>> \o t) /\ Len(<<>> \o t) = Len(<<>>) + Len(t)
          /\ \A k \in 1..Len(t) : (<<>> \o t)[Len(<<>>) + k] = t[k]
      BY <1>3, ConcatIs, TuplesAre
    <3>2. Len(<<>>) = 0
      BY TuplesAre
    <3>3. Len(<<>> \o t) = Len(t) /\ \A k \in 1..Len(t) : (<<>> \o t)[k] = t[k]
      BY <1>4, <3>1, <3>2
    <3>4. <<>> \o t = t
      BY <1>3, <3>1, <3>3, SeqEq
    <3> QED
      BY <1>10, <3>4
  <2>2. ASSUME NEW k \in 1..Len(t)
        PROVE  e - i <= t[k].offset /\ (e - i < t[k].offset => i > target)
    <3>1. o + 1 < t[k].offset /\ t[k].offset \in Nat /\ i > target /\ o = e - i
      BY <1>1, <1>8
    <3> DEFINE x == t[k].offset
    <3> HIDE DEF e, u, x
    <3>2. x \in Nat /\ o + 1 < x /\ i > target /\ o = e - i
      BY <3>1, Zenon DEF x
    <3>3. e - i <= x /\ (e - i < x => i > target)
      BY <1>6, <3>2, SMTT(60)
    <3> QED
      BY <3>3, Zenon DEF x
  <2>3. ASSUME NEW p \in e - i + 1..e, body[p] \notin Blanks
        PROVE  \E k \in 1..Len(t) : p \in Span(body, t[k])
    <3>1. p \in o + 1..e
      BY <1>1
    <3>2. ~(p <= o + take)
      <4>1. p \in Int /\ o + 1 <= p
        BY <1>1, <3>1
      <4>2. p <= o + take => p \in o + 1..o + take
        BY <1>1, <4>1
      <4> QED
        BY <1>10, <2>3, <4>2
    <3> QED
      BY <1>9, <2>3, <3>1, <3>2
  <2>4. PiecesFrom(body, section, target, t, i)
    BY <1>3, <2>2, <2>3 DEF PiecesFrom
  <2> QED
    BY <2>1, <2>4 DEF ps, at
<1>11. ASSUME NEW x, ps = <<x>>, x.offset = o, Cut(body, section, target, x),
              \A p \in o + 1..o + take : body[p] \notin Blanks => p \in Span(body, x)
       PROVE  PiecesFrom(body, section, target, u, i)
  <2>1. /\ IsSeq(u) /\ Len(u) = 1 + Len(t)
        /\ u[1] = x /\ \A k \in 1..Len(t) : u[1 + k] = t[k]
    <3>1. IsSeq(<<x>>) /\ Len(<<x>>) = 1 /\ <<x>>[1] = x
      BY TuplesAre
    <3>2. /\ IsSeq(<<x>> \o t) /\ Len(<<x>> \o t) = Len(<<x>>) + Len(t)
          /\ \A k \in 1..Len(<<x>>) : (<<x>> \o t)[k] = <<x>>[k]
          /\ \A k \in 1..Len(t) : (<<x>> \o t)[Len(<<x>>) + k] = t[k]
      BY <1>3, <3>1, ConcatIs
    <3>3. u = <<x>> \o t
      BY <1>11
    <3> HIDE DEF u
    <3> QED
      BY <3>1, <3>2, <3>3
  <2> HIDE DEF u
  <2>2. \A k \in 2..Len(u) : k - 1 \in 1..Len(t) /\ u[k] = t[k - 1]
    <3>1. ASSUME NEW k \in 2..Len(u) PROVE k - 1 \in 1..Len(t) /\ u[k] = t[k - 1]
      <4>1. k - 1 \in 1..Len(t) /\ 1 + (k - 1) = k
        BY <1>4, <2>1
      <4> QED
        BY <2>1, <4>1
    <3> QED
      BY <3>1
  <2>3. ASSUME NEW k \in 1..Len(u)
        PROVE  /\ Cut(body, section, target, u[k]) /\ e - i <= u[k].offset
               /\ e - i < u[k].offset => i > target
    <3>1. CASE k = 1
      BY <1>1, <1>11, <2>1, <3>1
    <3>2. CASE k # 1
      <4>1. k \in 2..Len(u)
        BY <1>4, <2>1, <3>2
      <4>2. k - 1 \in 1..Len(t) /\ u[k] = t[k - 1]
        BY <2>2, <4>1
      <4>3. Cut(body, section, target, t[k - 1]) /\ o + 1 < t[k - 1].offset
            /\ t[k - 1].offset \in Nat /\ i > target
        BY <1>8, <4>2
      <4>4. o = e - i
        BY <1>1
      <4> HIDE DEF e
      <4> DEFINE z == t[k - 1].offset
      <4>6. z \in Nat /\ o + 1 < z /\ o = e - i /\ o \in Int
        BY <1>6, <4>3, <4>4
      <4> HIDE DEF z, u
      <4>7. e - i <= z
        BY <4>6
      <4>5. e - i <= t[k - 1].offset
        BY <4>7 DEF z
      <4> QED
        BY <4>2, <4>3, <4>5
    <3> QED
      BY <3>1, <3>2
  <2>4. ASSUME NEW j \in 1..Len(u), NEW k \in 1..Len(u), j < k
        PROVE  u[j].offset + 1 < u[k].offset
    <3>1. k \in 2..Len(u)
      BY <1>4, <2>1, <2>4
    <3>2. k - 1 \in 1..Len(t) /\ u[k] = t[k - 1]
      BY <2>2, <3>1
    <3>3. CASE j = 1
      <4>1. o + 1 < t[k - 1].offset
        BY <1>8, <3>2
      <4> QED
        BY <1>11, <2>1, <3>2, <3>3, <4>1
    <3>4. CASE j # 1
      <4>1. j \in 2..Len(u)
        BY <1>4, <2>1, <3>4
      <4>2. j - 1 \in 1..Len(t) /\ u[j] = t[j - 1]
        BY <2>2, <4>1
      <4>3. j - 1 < k - 1
        BY <2>4, <1>4, <2>1
      <4> QED
        BY <1>3, <3>2, <4>2, <4>3
    <3> QED
      BY <3>3, <3>4
  <2>5. ASSUME NEW p \in e - i + 1..e, body[p] \notin Blanks
        PROVE  \E k \in 1..Len(u) : p \in Span(body, u[k])
    <3>1. p \in o + 1..e
      BY <1>1
    <3>2. CASE p <= o + take
      <4>1. p \in o + 1..o + take
        BY <1>1, <3>1, <3>2
      <4>2. p \in Span(body, u[1])
        BY <1>11, <2>1, <2>5, <4>1
      <4>3. 1 \in 1..Len(u)
        BY <1>4, <2>1
      <4> QED
        BY <4>2, <4>3
    <3>3. CASE ~(p <= o + take)
      <4>1. PICK k \in 1..Len(t) : p \in Span(body, t[k])
        BY <1>9, <2>5, <3>1, <3>3
      <4>2. 1 + k \in 1..Len(u) /\ u[1 + k] = t[k]
        BY <1>4, <2>1
      <4> QED
        BY <4>1, <4>2
    <3> QED
      BY <3>2, <3>3
  <2> QED
    BY <2>1, <2>3, <2>4, <2>5 DEF PiecesFrom
<1>12. PiecesFrom(body, section, target, u, i)
  BY <1>2, <1>10, <1>11 DEF ps, at
<1> QED
  BY <1>12 DEF ps, at

\* The pieces of a section: all of its text, none too long, each further on.
LEMMA PiecesAre ==
    ASSUME NEW body, IsSeq(body), NEW section, section.start \in Nat, section.end \in Nat,
           section.start < section.end, section.end <= Len(body), NEW c, IsConfig(c)
    PROVE  PiecesFrom(body, section, c.target, PiecesOf(section, Raw(body, section), c),
                      section.end - section.start)
<1> DEFINE raw == Raw(body, section)
           n == section.end - section.start
           take(i) == TakeAt(raw, c, n - i)
           next(i) == NextCursor(n - i, take(i), c.overlap)
           P(t, i) == PiecesFrom(body, section, c.target, t, i)
<1>1. IsSeq(raw) /\ Len(raw) = n /\ n \in Nat
  <2>1. section.start <= section.end
    OBVIOUS
  <2> QED
    BY <2>1, RawIs
<1>2. c.target \in Nat /\ c.overlap \in Nat
  BY DEF IsConfig
<1> HIDE DEF raw
<1>3. PICK rest : Rests(rest, section, raw, c) /\ PiecesOf(section, raw, c) = rest[n]
  BY <1>1, RestsSteps
<1>4. \A i \in 1..n : /\ take(i) \in 1..i /\ take(i) <= c.target
                      /\ i <= c.target => take(i) = i
                      /\ i > c.target => take(i) < i /\ c.overlap + 2 <= take(i)
  BY <1>1, TakeIs
<1>5. P(<<>>, 0)
  <2>1. IsSeq(<<>>) /\ Len(<<>>) = 0
    BY TuplesAre
  <2>2. section.end - 0 + 1..section.end = {}
    OBVIOUS
  <2> QED
    BY <2>1, <2>2 DEF PiecesFrom
<1> DEFINE T == {i \in Nat : i <= n => P(rest[i], i)}
<1> HIDE DEF n, P
<1>6. ASSUME NEW i \in Nat, \A m \in 0..i - 1 : m \in T PROVE i \in T
  <2>1. SUFFICES ASSUME i <= n PROVE P(rest[i], i)
    OBVIOUS
  <2>2. CASE i = 0
    BY <1>3, <1>5, <2>2 DEF Rests
  <2>3. CASE i # 0
    <3>1. i \in 1..n
      BY <1>1, <2>1, <2>3
    <3> DEFINE t == IF take(i) >= i THEN <<>> ELSE rest[n - next(i)]
               m == IF take(i) >= i THEN 0 ELSE n - next(i)
    <3>2. rest[i] = Piece(section, raw, n - i, take(i)) \o t
      BY <1>1, <1>3, <3>1 DEF Rests
    <3>3. /\ take(i) \in 1..i /\ take(i) <= c.target
          /\ i <= c.target => take(i) = i
          /\ i > c.target => take(i) < i /\ c.overlap + 2 <= take(i)
      BY <1>4, <3>1
    <3> HIDE DEF take
    <3>4. m \in Nat /\ P(t, m)
          /\ IF take(i) = i THEN m = 0 ELSE i > c.target /\ i - take(i) <= m /\ m + 2 <= i
      <4>1. CASE take(i) = i
        BY <1>5, <3>1, <4>1
      <4>2. CASE take(i) # i
        <5>1. i > c.target /\ take(i) < i /\ c.overlap + 2 <= take(i) /\ take(i) \in Nat
          BY <1>2, <3>1, <3>3, <4>2
        <5>2. n - i \in Nat
          BY <1>1, <3>1
        <5>3. next(i) \in Nat /\ (n - i) + 2 <= next(i) /\ next(i) <= (n - i) + take(i)
          BY <1>2, <5>1, <5>2, NextIs
        <5> HIDE DEF next
        <5>4. ~(take(i) >= i)
          BY <3>1, <5>1
        <5>5. m = n - next(i) /\ t = rest[m]
          BY <5>4
        <5>6. m \in 0..i - 1 /\ m <= n /\ i - take(i) <= m /\ m + 2 <= i
          <6> DEFINE x == next(i)
                     y == take(i)
          <6>1. /\ x \in Nat /\ y \in Nat /\ n \in Nat /\ i \in 1..n
                /\ (n - i) + 2 <= x /\ x <= (n - i) + y /\ y < i /\ m = n - x
            BY <1>1, <3>1, <5>1, <5>3, <5>5
          <6> HIDE DEF x, y, m
          <6>2. m \in 0..i - 1 /\ m <= n /\ i - y <= m /\ m + 2 <= i
            BY <6>1
          <6> QED
            BY <6>2 DEF y
        <5>7. m \in T
          BY <1>6, <5>6
        <5> HIDE DEF m, t
        <5>8. P(t, m)
          BY <5>5, <5>6, <5>7
        <5> QED
          BY <4>2, <5>1, <5>6, <5>8
      <4> QED
        BY <4>1, <4>2
    <3> HIDE DEF m, t
    <3>5. P(Piece(section, raw, n - i, take(i)) \o t, i)
      <4>1. i \in 1..section.end - section.start
        BY <3>1 DEF n
      <4> DEFINE k == take(i)
      <4>2. /\ k \in 1..i /\ k <= c.target /\ m \in Nat
            /\ PiecesFrom(body, section, c.target, t, m)
            /\ IF k = i THEN m = 0 ELSE i > c.target /\ i - k <= m /\ m + 2 <= i
        BY <3>3, <3>4 DEF P
      <4> HIDE DEF k
      <4>3. PiecesFrom(body, section, c.target,
               Piece(section, Raw(body, section), section.end - section.start - i, k) \o t, i)
        BY <1>2, <4>1, <4>2, PiecesStep
      <4> QED
        BY <4>3 DEF P, k, raw, n
    <3> QED
      BY <3>2, <3>5
  <2> QED
    BY <2>2, <2>3
<1> HIDE DEF T
<1>7. Nat \subseteq T
  BY <1>6, StrongInduction
<1>8. n \in T /\ n <= n
  BY <1>1, <1>7
<1>9. P(rest[n], n)
  BY <1>8 DEF T
<1> QED
  BY <1>3, <1>9 DEF P, n, raw

--------------------------------------------------------------------------------
(* Cuts: the chunks of a note.                                                 *)

\* Elements that are in order within each of some sequences and from each to
\* the later ones are in order in all of them, one behind the other.
LEMMA FlattenOrder ==
    ASSUME NEW seqs, IsSeq(seqs), \A k \in 1..Len(seqs) : IsSeq(seqs[k]), NEW Before,
           \A k \in 1..Len(seqs) : \A a, b \in 1..Len(seqs[k]) :
               a < b => <<seqs[k][a], seqs[k][b]>> \in Before,
           \A j, k \in 1..Len(seqs) : j < k =>
               \A x \in Range(seqs[j]), y \in Range(seqs[k]) : <<x, y>> \in Before
    PROVE  \A a, b \in 1..Len(FlattenSeq(seqs)) :
               a < b => <<FlattenSeq(seqs)[a], FlattenSeq(seqs)[b]>> \in Before
<1>1. PICK f : Flattens(f, seqs) /\ FlattenSeq(seqs) = f[Len(seqs)]
  BY FlattenSteps
<1>2. Len(seqs) \in Nat
  BY IsSeqLen
<1> DEFINE Ordered(s) == \A a, b \in 1..Len(s) : a < b => <<s[a], s[b]>> \in Before
           T == {k \in Nat : k <= Len(seqs) =>
                    /\ IsSeq(f[k]) /\ Ordered(f[k])
                    /\ \A x \in Range(f[k]) : \E j \in 1..k : x \in Range(seqs[j])}
<1>3. 0 \in T
  BY <1>1, TuplesAre DEF Flattens
<1>4. ASSUME NEW k \in Nat, k \in T PROVE k + 1 \in T
  <2>1. SUFFICES ASSUME k + 1 <= Len(seqs)
                 PROVE  /\ IsSeq(f[k + 1]) /\ Ordered(f[k + 1])
                        /\ \A x \in Range(f[k + 1]) : \E j \in 1..k + 1 : x \in Range(seqs[j])
    OBVIOUS
  <2> DEFINE s == f[k]
             t == seqs[k + 1]
  <2>2. /\ IsSeq(s) /\ Ordered(s)
        /\ \A x \in Range(s) : \E j \in 1..k : x \in Range(seqs[j])
    BY <1>2, <1>4, <2>1
  <2>3. k + 1 \in 1..Len(seqs) /\ (k + 1) - 1 = k
    BY <1>2, <2>1
  <2>4. f[k + 1] = s \o t
    BY <1>1, <2>3 DEF Flattens
  <2>5. IsSeq(t) /\ Ordered(t)
    BY <2>3
  <2>6. ASSUME NEW x \in Range(s), NEW y \in Range(t) PROVE <<x, y>> \in Before
    <3>1. PICK j \in 1..k : x \in Range(seqs[j])
      BY <2>2
    <3>2. j \in 1..Len(seqs) /\ j < k + 1
      BY <1>2, <2>3, <3>1
    <3> QED
      BY <2>3, <3>1, <3>2
  <2> HIDE DEF s, t
  <2>7. /\ IsSeq(s \o t) /\ Len(s \o t) = Len(s) + Len(t)
        /\ \A i \in 1..Len(s) : (s \o t)[i] = s[i]
        /\ \A i \in 1..Len(t) : (s \o t)[Len(s) + i] = t[i]
        /\ Range(s \o t) = Range(s) \cup Range(t)
    BY <2>2, <2>5, ConcatIs
  <2>8. Len(s) \in Nat /\ Len(t) \in Nat
    BY <2>2, <2>5, IsSeqLen
  <2> DEFINE u == s \o t
  <2> HIDE DEF u
  <2>9. ASSUME NEW a \in 1..Len(u), NEW b \in 1..Len(u), a < b
        PROVE  <<u[a], u[b]>> \in Before
    <3>1. CASE b <= Len(s)
      <4>1. a \in 1..Len(s) /\ b \in 1..Len(s)
        BY <2>7, <2>8, <2>9, <3>1 DEF u
      <4> QED
        BY <2>2, <2>7, <2>9, <4>1 DEF u
    <3>2. CASE a > Len(s)
      <4>1. a - Len(s) \in 1..Len(t) /\ b - Len(s) \in 1..Len(t) /\ a - Len(s) < b - Len(s)
            /\ Len(s) + (a - Len(s)) = a /\ Len(s) + (b - Len(s)) = b
        BY <2>7, <2>8, <2>9, <3>2 DEF u
      <4>2. u[a] = t[a - Len(s)] /\ u[b] = t[b - Len(s)]
        BY <2>7, <4>1 DEF u
      <4> QED
        BY <2>5, <4>1, <4>2
    <3>3. CASE a <= Len(s) /\ b > Len(s)
      <4>1. a \in 1..Len(s) /\ b - Len(s) \in 1..Len(t) /\ Len(s) + (b - Len(s)) = b
        BY <2>7, <2>8, <2>9, <3>3 DEF u
      <4>2. u[a] = s[a] /\ u[b] = t[b - Len(s)]
        BY <2>7, <4>1 DEF u
      <4>3. u[a] \in Range(s) /\ u[b] \in Range(t)
        BY <2>2, <2>5, <4>1, <4>2, IsSeqLen
      <4> QED
        BY <2>6, <4>3
    <3>4. a \in Int /\ b \in Int /\ Len(s) \in Int
      BY <2>8
    <3> QED
      BY <2>9, <3>1, <3>2, <3>3, <3>4
  <2>10. ASSUME NEW x \in Range(u) PROVE \E j \in 1..k + 1 : x \in Range(seqs[j])
    <3>1. CASE x \in Range(s)
      <4>1. PICK j \in 1..k : x \in Range(seqs[j])
        BY <2>2, <3>1
      <4>2. j \in 1..k + 1
        BY <4>1
      <4> QED
        BY <4>1, <4>2
    <3>2. CASE x \in Range(t)
      <4>1. k + 1 \in 1..k + 1 /\ x \in Range(seqs[k + 1])
        BY <3>2 DEF t
      <4> QED
        BY <4>1
    <3> QED
      BY <2>7, <3>1, <3>2 DEF u
  <2> QED
    BY <2>4, <2>7, <2>9, <2>10 DEF u
<1> HIDE DEF T
<1>5. Nat \subseteq T
  BY <1>3, <1>4, Induction
<1>6. Len(seqs) \in T /\ Len(seqs) <= Len(seqs)
  BY <1>2, <1>5
<1> QED
  BY <1>1, <1>6 DEF T

\* chunk_note cuts every body, with any configuration, so that no text is lost,
\* no chunk is too long, each says where it is and which headings it is below,
\* and the offsets grow.
THEOREM ChunkNote ==
    ASSUME NEW body, IsSeq(body), NEW c, IsConfig(c)
    PROVE  IsSeq(chunk_note(body, c)) /\ IsWellCut(body, c)
<1> DEFINE H == HeadingStarts(body)
           w == Walked(body, c)
           seqs == [k \in DOMAIN w |-> PiecesOf(w[k], Raw(body, w[k]), c)]
           chunks == chunk_note(body, c)
           m == Len(w)
           t == c.target
<1>1. Walk(body, H, t, w)
  BY WalkedAre
<1>2. IsSeq(w) /\ DOMAIN w = 1..m /\ m \in Nat
  BY <1>1, IsSeqLen DEF Walk
<1>3. chunks = FlattenSeq(seqs)
  BY DEF chunk_note
<1> HIDE DEF H, w, m, t, chunks
<1>4. \A k \in 1..m : /\ w[k].start \in Nat /\ w[k].end \in Nat
                      /\ w[k].start < w[k].end /\ w[k].end <= Len(body)
  BY <1>1 DEF Walk, m
<1>5. \A j, k \in 1..m : j < k => w[j].end <= w[k].start /\ body[w[j].end] = Newline
  BY <1>1 DEF Walk, m
<1>6. IsSeq(seqs) /\ Len(seqs) = m /\ \A k \in 1..m : seqs[k] = PiecesOf(w[k], Raw(body, w[k]), c)
  BY <1>2, FunIsSeq
<1> HIDE DEF seqs
<1>7. \A k \in 1..m : PiecesFrom(body, w[k], t, seqs[k], w[k].end - w[k].start)
  BY <1>4, <1>6, PiecesAre DEF t
<1>8. ASSUME NEW k \in 1..m
      PROVE  /\ IsSeq(seqs[k])
             /\ \A a \in 1..Len(seqs[k]) :
                   /\ Cut(body, w[k], t, seqs[k][a])
                   /\ w[k].start < seqs[k][a].offset => w[k].end - w[k].start > t
             /\ \A a, b \in 1..Len(seqs[k]) : a < b => seqs[k][a].offset + 1 < seqs[k][b].offset
             /\ \A p \in w[k].start + 1..w[k].end : body[p] \notin Blanks =>
                   \E a \in 1..Len(seqs[k]) : p \in Span(body, seqs[k][a])
  <2>1. w[k].end - (w[k].end - w[k].start) = w[k].start
    BY <1>4
  <2>2. PiecesFrom(body, w[k], t, seqs[k], w[k].end - w[k].start)
    BY <1>7
  <2> QED
    BY <2>1, <2>2 DEF PiecesFrom
<1>9. /\ IsSeq(chunks)
      /\ Range(chunks) = UNION {Range(seqs[k]) : k \in 1..m}
  BY <1>3, <1>6, <1>8, FlattenIs
<1>10. ASSUME NEW x \in Range(chunks)
       PROVE  \E k \in 1..m : /\ x \in Range(seqs[k]) /\ Cut(body, w[k], t, x)
                              /\ w[k].start < x.offset => w[k].end - w[k].start > t
  <2>1. PICK k \in 1..m : x \in Range(seqs[k])
    BY <1>9
  <2>2. PICK a \in 1..Len(seqs[k]) : x = seqs[k][a]
    BY <1>8, <2>1, IsSeqLen
  <2> QED
    BY <1>8, <2>1, <2>2
<1>11. ASSUME NEW i \in DOMAIN body, body[i] \notin Blanks
       PROVE  i \in UNION {Span(body, x) : x \in Range(chunks)}
  <2>1. i \in 1..Len(body)
    BY IsSeqLen
  <2>2. PICK k \in 1..m : w[k].start < i /\ i <= w[k].end
    BY <1>1, <1>11, <2>1 DEF Walk, m
  <2>3. i \in w[k].start + 1..w[k].end
    BY <1>4, <2>1, <2>2
  <2>4. PICK a \in 1..Len(seqs[k]) : i \in Span(body, seqs[k][a])
    BY <1>8, <1>11, <2>3
  <2>5. seqs[k][a] \in Range(seqs[k])
    BY <1>8, IsSeqLen
  <2>6. seqs[k][a] \in Range(chunks)
    BY <1>9, <2>5
  <2> QED
    BY <2>4, <2>6
<1>12. ASSUME NEW x \in Range(chunks) PROVE Len(x.text) <= t /\ Located(body, H, x)
  <2>1. PICK k \in 1..m : /\ x \in Range(seqs[k]) /\ Cut(body, w[k], t, x)
                          /\ w[k].start < x.offset => w[k].end - w[k].start > t
    BY <1>10
  <2> DEFINE p == Lead(body, x.offset)
  <2>2. /\ Len(x.text) <= t /\ x.text = [i \in 1..Len(x.text) |-> body[p + i - 1]]
        /\ x.path = w[k].path /\ x.offset \in Nat /\ w[k].start <= x.offset
        /\ p \in x.offset + 1..w[k].end /\ body[p] \notin Blanks
    BY <2>1 DEF Cut
  <2> HIDE DEF p
  <2>3. p \in w[k].start + 1..w[k].end /\ p \in 1..Len(body) /\ x.offset < p
    BY <1>4, <2>2
  <2>4. \/ Range(w[k].path) = TrailAt(body, H, p)
        \/ /\ w[k].end - w[k].start <= t
           /\ \E q \in w[k].start + 1..p - 1 : body[q] \notin Blanks
    BY <1>1, <2>3 DEF Walk, m
  <2>5. Range(w[k].path) = TrailAt(body, H, p)
    <3>1. SUFFICES ASSUME w[k].end - w[k].start <= t,
                          NEW q \in w[k].start + 1..p - 1, body[q] \notin Blanks
                   PROVE  FALSE
      BY <2>4
    <3>2. t \in Nat
      BY DEF IsConfig, t
    <3>3. x.offset = w[k].start
      BY <1>4, <2>1, <2>2, <3>1, <3>2
    <3>4. q \in 1..Len(body) /\ x.offset < q /\ q < p /\ Len(body) \in Nat
      BY <1>4, <2>3, <3>3, IsSeqLen
    <3>5. p <= q
      BY <2>2, <2>3, <3>1, <3>4, LeadIs DEF p
    <3> QED
      BY <2>3, <3>4, <3>5
  <2> QED
    BY <2>2, <2>5 DEF Located, p
<1> DEFINE Before == {z \in Range(chunks) \X Range(chunks) : z[1].offset + 1 < z[2].offset}
<1>13. \A k \in 1..m : Range(seqs[k]) \subseteq Range(chunks)
  BY <1>9
<1>14. ASSUME NEW k \in 1..m, NEW a \in 1..Len(seqs[k]), NEW b \in 1..Len(seqs[k]), a < b
       PROVE  <<seqs[k][a], seqs[k][b]>> \in Before
  <2>1. seqs[k][a].offset + 1 < seqs[k][b].offset
    BY <1>8, <1>14
  <2>2. seqs[k][a] \in Range(chunks) /\ seqs[k][b] \in Range(chunks)
    BY <1>8, <1>13, IsSeqLen
  <2> QED
    BY <2>1, <2>2
<1>15. ASSUME NEW j \in 1..m, NEW k \in 1..m, j < k,
              NEW x \in Range(seqs[j]), NEW y \in Range(seqs[k])
       PROVE  <<x, y>> \in Before
  <2>1. Cut(body, w[j], t, x) /\ Cut(body, w[k], t, y)
    <3>1. PICK a \in 1..Len(seqs[j]) : x = seqs[j][a]
      BY <1>8, IsSeqLen
    <3>2. PICK b \in 1..Len(seqs[k]) : y = seqs[k][b]
      BY <1>8, IsSeqLen
    <3> QED
      BY <1>8, <3>1, <3>2
  <2> DEFINE p == Lead(body, x.offset)
  <2>2. /\ x.offset \in Nat /\ p \in x.offset + 1..w[j].end /\ body[p] \notin Blanks
        /\ y.offset \in Nat /\ w[k].start <= y.offset
    BY <2>1 DEF Cut
  <2>3. w[j].end <= w[k].start /\ body[w[j].end] = Newline
    BY <1>5, <1>15
  <2>4. p # w[j].end
    BY <2>2, <2>3 DEF Blanks
  <2> HIDE DEF p
  <2>5. x.offset + 1 < y.offset
    <3>1. w[j].end \in Nat /\ w[k].start \in Nat
      BY <1>4
    <3> QED
      BY <2>2, <2>3, <2>4, <3>1
  <2>6. x \in Range(chunks) /\ y \in Range(chunks)
    BY <1>13
  <2> QED
    BY <2>5, <2>6
<1>16. \A a, b \in 1..Len(chunks) : a < b => <<chunks[a], chunks[b]>> \in Before
  <2> HIDE DEF Before
  <2>1. \A k \in 1..Len(seqs) : \A a, b \in 1..Len(seqs[k]) :
            a < b => <<seqs[k][a], seqs[k][b]>> \in Before
    BY <1>6, <1>14
  <2>2. \A j, k \in 1..Len(seqs) : j < k =>
            \A x \in Range(seqs[j]), y \in Range(seqs[k]) : <<x, y>> \in Before
    BY <1>6, <1>15
  <2>3. \A k \in 1..Len(seqs) : IsSeq(seqs[k])
    BY <1>6, <1>8
  <2> QED
    BY <1>3, <1>6, <2>1, <2>2, <2>3, FlattenOrder
<1>17. ASSUME NEW k \in 2..Len(chunks) PROVE chunks[k - 1].offset + 1 < chunks[k].offset
  <2>1. Len(chunks) \in Nat
    BY <1>9, IsSeqLen
  <2>2. k - 1 \in 1..Len(chunks) /\ k \in 1..Len(chunks) /\ k - 1 < k
    BY <2>1
  <2>3. <<chunks[k - 1], chunks[k]>> \in Before
    BY <1>16, <2>2
  <2> QED
    BY <2>3
<1>18. WellCut(body, H, chunks, c)
  BY <1>11, <1>12, <1>17 DEF WellCut, t
<1> QED
  BY <1>9, <1>18 DEF IsWellCut, H, chunks

--------------------------------------------------------------------------------
(* The vault while a search goes on.                                           *)

\* Each note has a text or none.
AreTexts(d) == DOMAIN d = Notes /\ \A n \in Notes : IsText(d[n])

\* The configurations of the processes of a setup.
Configs == {FromEnv(e) : e \in Setups[setup].envs}

TextsInv ==
    /\ setup \in DOMAIN Setups
    /\ config \in Configs
    /\ AreTexts(disk) /\ AreTexts(known) /\ AreTexts(index) /\ AreTexts(lexical)
    /\ Local => known = index

\* A setup's environment gives a configuration that cuts: a missing or too small
\* target is replaced, and the overlap is bounded (ChunkConfig::from_env).
LEMMA ConfigsAre == ASSUME setup \in DOMAIN Setups, NEW c \in Configs PROVE IsConfig(c)
<1>1. PICK e \in Setups[setup].envs : c = FromEnv(e)
  BY DEF Configs
<1>2. {e.target, e.overlap} \subseteq Nat \cup {Missing}
  BY EnvsAssumption
<1> DEFINE t == IF e.target = Missing \/ e.target < MinTarget THEN DefaultTarget ELSE e.target
           o == IF e.overlap = Missing THEN DefaultOverlap ELSE e.overlap
<1>3. t \in Nat \ {0, 1}
  BY <1>2, TargetAssumption
<1>4. o \in Nat
  BY <1>2, OverlapAssumption
<1> HIDE DEF t, o
<1>5. (t - 1) \div 2 \in Nat
  BY <1>3
<1>6. Bounded(t, o) \in Nat /\ Bounded(t, o) <= (t - 1) \div 2
  BY <1>4, <1>5, MinOfTwo DEF Bounded
<1>7. c = [target |-> t, overlap |-> Bounded(t, o), packing |-> e.packing]
  BY <1>1 DEF FromEnv, Config, t, o
<1> QED
  BY <1>3, <1>6, <1>7 DEF IsConfig

\* What every step but four leaves alone.
Untouched == UNCHANGED <<setup, config, disk, known, index, lexical>>

\* At the start every index is from the files.
LEMMA TextsInit == Init => TextsInv
<1> SUFFICES ASSUME Init PROVE TextsInv
  OBVIOUS
<1>1. setup \in DOMAIN Setups /\ config \in Configs
  BY DEF Init, Configs
<1>2. AreTexts(disk)
  BY <1>1, TextsAssumption DEF Init, AreTexts
<1> QED
  BY <1>1, <1>2 DEF Init, TextsInv

\* Every step keeps texts texts and the configuration one of its processes'.
LEMMA TextsNext == TextsInv /\ [Next]_vars => TextsInv'
<1> SUFFICES ASSUME TextsInv, [Next]_vars PROVE TextsInv'
  OBVIOUS
<1>1. ASSUME Untouched PROVE TextsInv'
  BY <1>1 DEF Untouched, TextsInv, AreTexts, Configs, IsText, Local
<1>2. ASSUME NEW n \in Notes, NEW text \in Setups[setup].texts, Edit(n, text) PROVE TextsInv'
  <2>1. IsText(text)
    BY TextsAssumption DEF TextsInv
  <2>2. AreTexts(disk')
    BY <1>2, <2>1 DEF Edit, TextsInv, AreTexts
  <2> QED
    BY <1>2, <2>2 DEF Edit, TextsInv, AreTexts, Configs, Local
<1>3. ASSUME NEW n \in Notes, Follow(n) PROVE TextsInv'
  <2>1. AreTexts(index') /\ AreTexts(lexical')
    BY <1>3 DEF Follow, TextsInv, AreTexts
  <2>2. AreTexts(known')
    BY <1>3, <2>1 DEF Follow, TextsInv
  <2> QED
    BY <1>3, <2>1, <2>2 DEF Follow, TextsInv, Configs, Local
<1>4. ASSUME NEW n \in Notes, Hear(n) PROVE TextsInv'
  <2>1. AreTexts(known')
    BY <1>4 DEF Hear, TextsInv, AreTexts
  <2> QED
    BY <1>4, <2>1 DEF Hear, TextsInv, Configs, Local
<1>5. ASSUME NEW env \in Setups[setup].envs, Restart(env) PROVE TextsInv'
  BY <1>5 DEF Restart, TextsInv, Configs, Local
<1>6. ASSUME NEW req \in Setups[setup].requests, Ask(req) PROVE Untouched
  BY <1>6 DEF Ask, vault, Untouched
<1>7. CASE SearchStep
  BY <1>1, <1>7 DEF SearchStep, Quiet, vault, Untouched
<1>8. ASSUME NEW n \in Notes, Drop(n) \/ Prepare(n) PROVE Untouched
  BY <1>8 DEF Drop, Prepare, vault, Untouched
<1>9. ASSUME Submit \/ Commit \/ (\E c \in Callers : Others(c)) \/ Serving PROVE Untouched
  BY <1>9 DEF Submit, Commit, Others, Serving, Outside, vault, Untouched
<1>10. CASE UNCHANGED vars
  BY <1>1, <1>10 DEF vars, vault, Untouched
<1> QED
  BY <1>1, <1>2, <1>3, <1>4, <1>5, <1>6, <1>7, <1>8, <1>9, <1>10 DEF Next

\* The texts and the configuration, always.
LEMMA Texts == Spec => []TextsInv
BY TextsInit, TextsNext, PTL DEF Spec

\* The chunks of every note that is on the disk, whatever is edited, cover it
\* (chunk_note).
THEOREM Covers == Spec => []ChunksCoverTheNote
<1>1. TextsInv => ChunksCoverTheNote
  <2> SUFFICES ASSUME TextsInv, NEW n \in In(disk) PROVE IsWellCut(disk[n], config)
    BY DEF ChunksCoverTheNote
  <2>1. IsSeq(disk[n])
    BY DEF TextsInv, AreTexts, IsText, IsSeq, In
  <2>2. IsConfig(config)
    BY ConfigsAre DEF TextsInv
  <2> QED
    BY <2>1, <2>2, ChunkNote
<1> QED
  BY <1>1, Texts, PTL

--------------------------------------------------------------------------------
(* A search: what it ranks and visits.                                         *)

\* A sequence without repetition has as many elements as places.
LEMMA CountIs ==
    ASSUME NEW s, IsSeq(s), \A i, j \in 1..Len(s) : s[i] = s[j] => i = j
    PROVE  IsFiniteSet(Range(s)) /\ Cardinality(Range(s)) = Len(s)
<1> DEFINE n == Len(s)
           T == Range(s)
<1>1. /\ n \in Nat /\ DOMAIN s = 1..n
      /\ \A i \in 1..n : s[i] \in T
      /\ \A x \in T : \E i \in 1..n : x = s[i]
  BY IsSeqLen
<1>2. s = [i \in DOMAIN s |-> s[i]]
  BY DEF IsSeq
<1> HIDE DEF T, n
<1>3. s \in [1..n -> T]
  BY <1>1, <1>2
<1>4. s \in Bijection(1..n, T)
  BY <1>1, <1>3 DEF Bijection, Injection, Surjection, IsInjective, n
<1>5. ExistsBijection(1..n, T)
  BY <1>4 DEF ExistsBijection
<1>6. IsFiniteSet(1..n) /\ Cardinality(1..n) = n
  BY <1>1, FS_Interval
<1> QED
  BY <1>5, <1>6, FS_Bijection DEF T, n

\* The candidates of a search for k notes are as many as the spare ones and k,
\* but no more than the maximum.
LEMMA CandidatesAre ==
    ASSUME NEW k \in Nat
    PROVE  /\ CandidateLimit(k) \in Nat
           /\ k > 0 => Min({OverfetchExtra, MaxResultsCap - k}) \in Int
           /\ k > 0 => CandidateLimit(k) >= k + Min({OverfetchExtra, MaxResultsCap - k})
<1>1. OverfetchFactor \in Nat /\ OverfetchExtra \in Nat /\ MaxResultsCap \in Nat
  BY LimitsAssumption
<1> DEFINE x == k * OverfetchFactor
           y == k + OverfetchExtra
           z == MaxResultsCap - k
<1>2. x \in Nat /\ y \in Nat /\ z \in Int
  BY <1>1
<1> HIDE DEF x, y, z
<1>3. Max({x, y}) = IF x <= y THEN y ELSE x
  BY <1>2, MaxOfTwo
<1>4. Max({x, y}) \in Nat /\ Max({x, y}) >= y
  BY <1>2, <1>3
<1> DEFINE u == Max({x, y})
<1> HIDE DEF u
<1>5. Min({u, MaxResultsCap}) = IF u <= MaxResultsCap THEN u ELSE MaxResultsCap
  BY <1>1, <1>4, MinOfTwo DEF u
<1>6. Min({OverfetchExtra, z}) = IF OverfetchExtra <= z THEN OverfetchExtra ELSE z
  BY <1>1, <1>2, MinOfTwo
<1>7. CandidateLimit(k) = IF k = 0 THEN 0 ELSE Min({u, MaxResultsCap})
  BY DEF CandidateLimit, u, x, y
<1>8. u \in Nat /\ u >= k + OverfetchExtra
  BY <1>4 DEF u, y
<1> QED
  BY <1>1, <1>2, <1>5, <1>6, <1>7, <1>8 DEF z

\* How many of each arm blend_lexical takes is a number.
LEMMA DepthIs == ASSUME NEW k \in Nat PROVE Depth(k) \in Nat
<1> DEFINE l == CandidateLimit(k)
           x == CandidateDepth
<1>1. l \in Nat /\ x \in Nat
  BY CandidatesAre, LimitsAssumption
<1> HIDE DEF l, x
<1>2. Max({l, x}) \in Nat
  BY <1>1, MaxOfTwo
<1> QED
  BY <1>2 DEF Depth, l, x

\* How many hits a hybrid search fetches first is a number.
LEMMA PrefetchIs == ASSUME NEW scope, NEW k \in Nat PROVE Prefetch(scope, k) \in Nat
<1>1. CandidateLimit(k) \in Nat
  BY CandidatesAre
<1>2. DefaultPrefetch \in Nat /\ ScopedFactor \in Nat /\ MaxScopedPrefetch \in Nat
  BY LimitsAssumption
<1> DEFINE m == Max({DefaultPrefetch, CandidateLimit(k)})
<1>3. m \in Nat
  BY <1>1, <1>2, MaxOfTwo
<1> HIDE DEF m
<1>4. ScopedFactor * m \in Nat
  BY <1>2, <1>3
<1>5. Min({ScopedFactor * m, MaxScopedPrefetch}) \in Nat
  BY <1>2, <1>4, MinOfTwo
<1> QED
  BY <1>3, <1>5 DEF Prefetch, m

\* The order of a ranking: the best ones, each once, and all of them if there are
\* no more than the limit.
LEMMA RankedIs ==
    ASSUME NEW score, IsFiniteSet(DOMAIN score), NEW limit \in Nat,
           NEW order \in Ranked(score, limit)
    PROVE  /\ IsSeq(order) /\ Len(order) <= limit
           /\ \A i \in 1..Len(order) : order[i] \in DOMAIN score
           /\ \A i, j \in 1..Len(order) : order[i] = order[j] => i = j
           /\ \A i, j \in 1..Len(order) : i < j => score[order[j]] <= score[order[i]]
           /\ \A n \in DOMAIN score : (\A i \in 1..Len(order) : order[i] # n) =>
                 /\ Len(order) = limit
                 /\ \A i \in 1..Len(order) : score[n] <= score[order[i]]
<1> DEFINE D == DOMAIN score
           m == Min({limit, Cardinality(D)})
<1>1. Cardinality(D) \in Nat
  BY FS_CardinalityType
<1>2. m = IF limit <= Cardinality(D) THEN limit ELSE Cardinality(D)
  BY <1>1, MinOfTwo
<1>3. m \in Nat /\ m <= limit /\ m <= Cardinality(D) /\ (m = limit \/ m = Cardinality(D))
  BY <1>1, <1>2
<1>4. /\ order \in [1..m -> D] /\ IsInjective(order)
      /\ \A i \in DOMAIN order : \A n \in D \ {order[j] : j \in 1..i} : score[n] <= score[order[i]]
  BY DEF Ranked
<1> HIDE DEF m
<1>5. order = [i \in 1..m |-> order[i]]
  BY <1>4
<1>6. IsSeq(order) /\ Len(order) = m
  BY <1>3, <1>5, FunIsSeq
<1>7. \A i, j \in 1..m : order[i] = order[j] => i = j
  BY <1>4 DEF IsInjective
<1>8. \A i \in 1..m : \A n \in D \ {order[j] : j \in 1..i} : score[n] <= score[order[i]]
  BY <1>4
<1>9. ASSUME NEW i \in 1..m, NEW j \in 1..m, i < j PROVE score[order[j]] <= score[order[i]]
  <2>1. \A l \in 1..i : l \in 1..m /\ l # j
    BY <1>3, <1>9
  <2>2. order[j] \in D \ {order[l] : l \in 1..i}
    BY <1>4, <1>7, <2>1
  <2> QED
    BY <1>8, <2>2
<1>10. Cardinality(Range(order)) = Len(order)
  BY <1>6, <1>7, CountIs
<1>11. ASSUME NEW n \in D, \A i \in 1..m : order[i] # n
       PROVE  m = limit /\ \A i \in 1..m : score[n] <= score[order[i]]
  <2>1. m # Cardinality(D)
    <3>1. Cardinality(Range(order)) = m
      BY <1>6, <1>10
    <3>2. \A x \in Range(order) : x \in D /\ x # n
      BY <1>4, <1>6, <1>11, IsSeqLen
    <3>3. Range(order) \in SUBSET D /\ n \notin Range(order)
      BY <3>2
    <3> QED
      BY <3>1, <3>3, FS_Subset
  <2>2. ASSUME NEW i \in 1..m PROVE score[n] <= score[order[i]]
    <3>1. \A l \in 1..i : l \in 1..m
      BY <1>3
    <3>2. n \in D \ {order[l] : l \in 1..i}
      BY <1>11, <3>1
    <3> QED
      BY <1>8, <3>2
  <2> QED
    BY <1>3, <2>1, <2>2
<1> QED
  BY <1>3, <1>4, <1>6, <1>7, <1>9, <1>11

\* If all of them are within the limit, all are in the order.
LEMMA RankedAll ==
    ASSUME NEW score, IsFiniteSet(DOMAIN score), NEW limit \in Nat,
           NEW order \in Ranked(score, limit), Cardinality(DOMAIN score) <= limit
    PROVE  Range(order) = DOMAIN score
<1> DEFINE D == DOMAIN score
<1>1. /\ IsSeq(order)
      /\ \A i \in 1..Len(order) : order[i] \in D
      /\ \A i, j \in 1..Len(order) : order[i] = order[j] => i = j
  BY RankedIs
<1>2. Cardinality(D) \in Nat
  BY FS_CardinalityType
<1>3. Min({limit, Cardinality(D)}) = Cardinality(D)
  BY <1>2, MinOfTwo
<1>4. order \in [1..Cardinality(D) -> D]
  BY <1>3 DEF Ranked
<1>5. Len(order) = Cardinality(D)
  <2>1. order = [i \in 1..Cardinality(D) |-> order[i]]
    BY <1>4
  <2> QED
    BY <1>2, <2>1, FunIsSeq
<1>6. Cardinality(Range(order)) = Cardinality(D)
  BY <1>1, <1>5, CountIs
<1>7. Range(order) \in SUBSET D
  BY <1>1, IsSeqLen
<1> QED
  BY <1>6, <1>7, FS_Subset

--------------------------------------------------------------------------------
(* A search: what it may answer.                                               *)

Tools == {"semantic", "fused", "hybrid", "related", "text"}
Limit == IF call.req.tool \in {"text", "related"} THEN call.req.k ELSE CandidateLimit(call.req.k)
IsCall == DOMAIN call = {"at", "req", "notes", "hits", "score", "was", "rest", "results",
                         "skipped", "touched", "err"}
\* It has a scope: only a search for related notes looks for it later.
Began    == call.at \notin {"idle", "related", "linking", "relating", "answered"} \/ Ended
Asked    == {"embedding", "waiting", "scoring", "blending"}
Visiting == call.at \in {"visiting", "reading"}

\* Every step leaves alone what it does not touch.
Touches ==
    /\ setup' = setup /\ call'.req = call.req /\ call.touched \subseteq call'.touched
    /\ \A n \in Notes \ call'.touched :
          /\ disk'[n] = disk[n] /\ index'[n] = index[n] /\ known'[n] = known[n]
          /\ lexical'[n] = lexical[n] /\ store'[n] = store[n]

\* What must be found becomes less as the vault changes.
LEMMA WantedShrinks ==
    ASSUME Touches, call.req.scope \in DOMAIN Scope, call.req.k \in Nat
    PROVE  Wanted' \subseteq Wanted
<1> DEFINE D == {n \in Scope[call.req.scope] : n \in call.touched \/ store[n] # NoVectors}
           E == {n \in Scope[call.req.scope] : n \in call'.touched \/ store'[n] # NoVectors}
<1>0. Deep' => Deep
  <2>1. D \in SUBSET E
    BY ScopeAssumption DEF Touches
  <2>2. IsFiniteSet(E)
    <3>1. E \in SUBSET Notes
      BY ScopeAssumption
    <3> QED
      BY <3>1, FS_Subset, NotesAssumption
  <2>3. (Deep' <=> Cardinality(E) <= Depth(call.req.k)) /\ (Deep <=> Cardinality(D) <= Depth(call.req.k))
    BY DEF Deep, Touches
  <2>4. Depth(call.req.k) \in Nat
    BY DepthIs
  <2> HIDE DEF D, E
  <2>5. Cardinality(D) <= Cardinality(E) /\ Cardinality(D) \in Nat /\ Cardinality(E) \in Nat
    BY <2>1, <2>2, FS_Subset, FS_CardinalityType
  <2> QED
    BY <2>3, <2>4, <2>5
<1> HIDE DEF D, E
<1> DEFINE F == {n \in Notes : n \in call.touched \/ Found(lexical[n], call.req.q) > 0}
           G == {n \in Notes : n \in call'.touched \/ Found(lexical'[n], call'.req.q) > 0}
           p == Prefetch(call.req.scope, call.req.k)
<1>1. Prefetchable' => Prefetchable
  <2>1. F \in SUBSET G
    BY DEF Touches
  <2>2. IsFiniteSet(G)
    BY FS_Subset, NotesAssumption
  <2>3. (Prefetchable' <=> Cardinality(G) <= p) /\ (Prefetchable <=> Cardinality(F) <= p)
    BY DEF Prefetchable, Touches, Prefetch, Local
  <2>4. p \in Nat
    BY PrefetchIs
  <2> HIDE DEF F, G, p
  <2>5. Cardinality(F) <= Cardinality(G) /\ Cardinality(F) \in Nat /\ Cardinality(G) \in Nat
    BY <2>1, <2>2, FS_Subset, FS_CardinalityType
  <2> QED
    BY <2>3, <2>4, <2>5
<1>2. ASSUME NEW n \in Wanted' PROVE n \in Wanted
  <2>1. n \in Scope[call.req.scope] /\ n \in Notes
    BY <1>2, ScopeAssumption DEF Wanted, Touches
  <2>2. n \notin call'.touched /\ \A texts \in {disk', index', known'} : texts[n] # Gone
    BY <1>2 DEF Wanted, Steady
  <2>3. n \in Notes \ call'.touched
    BY <2>1, <2>2
  <2>4. Steady(n)
    BY <2>2, <2>3 DEF Steady, Touches
  <2>5. About(n)
    <3>1. About(n)'
      BY <1>2 DEF Wanted
    <3>2. store'[n] = store[n] /\ lexical'[n] = lexical[n] /\ call'.req = call.req
      BY <2>3 DEF Touches
    <3> QED
      BY <1>0, <1>1, <3>1, <3>2 DEF About
  <2> QED
    BY <2>1, <2>4, <2>5 DEF Wanted
<1> QED
  BY <1>2

\* After j of the candidates: h places the results, in order, on those of them
\* that were read; the others were skipped.
VisitedTo(order, j, h) ==
    /\ order \in Ranked(call.score, Limit) /\ j \in 0..Len(order)
    /\ IsSeq(call.rest) /\ Len(call.rest) = Len(order) - j
    /\ \A i \in 1..Len(call.rest) : call.rest[i] = order[j + i]
    /\ IsSeq(call.results) /\ h \in [1..Len(call.results) -> 1..j]
    /\ \A a, b \in 1..Len(call.results) : a < b => h[a] < h[b]
    /\ \A i \in 1..Len(call.results) : call.results[i].note = order[h[i]]
    /\ call.skipped = {order[i] : i \in {x \in 1..j : \A l \in 1..Len(call.results) : h[l] # x}}

\* Nothing that is wanted is missing from what was ranked, or skipped.
Visit ==
    /\ DOMAIN call.score \subseteq Scope[call.req.scope]
    /\ call.req.tool = "related" => call.req.q \notin DOMAIN call.score
    /\ Wanted \subseteq DOMAIN call.score
    /\ Wanted \cap call.skipped = {}
    /\ \E order, j, h : VisitedTo(order, j, h)

\* Nothing that is wanted is missing from what the search has collected.
Collected(notes) == notes \subseteq Scope[call.req.scope] /\ Wanted \subseteq notes

SearchInv ==
    /\ IsCall
    /\ call.at \in Tools \cup Asked
                    \cup {"idle", "linking", "relating", "visiting", "reading", "answered"}
    /\ call.at # "answered" => call.err = "none"
    /\ call.at # "idle" => call.req \in Setups[setup].requests
    /\ Began => call.req.scope \in DOMAIN Scope
    /\ call.at \in Tools => call.at = call.req.tool
    /\ call.at \in {"linking", "relating"} => call.req.tool = "related"
    /\ ~Visiting /\ call.at # "answered" => call.results = <<>> /\ call.skipped = {}
    /\ call.at \in {"embedding", "waiting"} =>
          /\ call.req.tool \in {"semantic", "fused", "hybrid"}
          /\ IF call.req.tool = "hybrid" THEN Collected(DOMAIN call.hits) ELSE Collected(call.notes)
    /\ call.at = "scoring" =>
          call.req.tool = "hybrid" /\ Collected(call.notes \cup DOMAIN call.score)
    /\ call.at = "blending" =>
          /\ call.req.tool = "fused" /\ call.notes \subseteq Scope[call.req.scope]
          /\ Collected(DOMAIN call.score)
    /\ Visiting => Visit
    /\ call.at = "reading" => call.rest # <<>>
    /\ SearchAnswers

\* The other actors change nothing of a search but what it knows to be touched.
Elsewhere ==
    /\ setup' = setup
    /\ call' = call \/ \E t : call' = [call EXCEPT !.touched = t]
    /\ call.at # "idle" => Touches

\* What is asked for: one of the tools, with a number of results.
LEMMA RequestsAre ==
    ASSUME TextsInv, SearchInv, call.at # "idle"
    PROVE  /\ call.req.tool \in Tools /\ call.req.k \in Nat
           /\ call.req.tool = "text" => call.req.scope = All
           /\ Limit \in Nat
<1>1. /\ call.req.tool \in Tools /\ call.req.k \in Nat
      /\ call.req.tool = "text" => call.req.scope = All
  BY RequestsAssumption DEF TextsInv, SearchInv, Tools
<1> QED
  BY <1>1, CandidatesAre DEF Limit

\* What the other actors do leaves a search as it was, but for what it must find.
LEMMA ElsewhereKeeps ==
    ASSUME TextsInv, SearchInv, Elsewhere
    PROVE  SearchInv'
<1>1. CASE call.at = "idle"
  <2>1. call'.at = "idle" /\ setup' = setup
    BY <1>1 DEF Elsewhere, SearchInv, IsCall
  <2>2. /\ DOMAIN call' = DOMAIN call /\ call'.err = call.err
        /\ call'.results = call.results /\ call'.skipped = call.skipped
    BY DEF Elsewhere, SearchInv, IsCall
  <2>3. ~Began' /\ ~Visiting' /\ SearchAnswers'
    BY <2>1 DEF Began, Ended, Visiting, SearchAnswers
  <2>4. ~Visiting /\ call.at # "answered"
    BY <1>1 DEF Visiting
  <2> QED
    BY <1>1, <2>1, <2>2, <2>3, <2>4 DEF SearchInv, IsCall, Tools, Asked
<1>2. CASE call.at # "idle"
  <2>1. Touches /\ setup' = setup
    BY <1>2 DEF Elsewhere
  <2>2. call' = call \/ \E t : call' = [call EXCEPT !.touched = t]
    BY DEF Elsewhere
  <2>3. /\ IsCall' /\ call'.at = call.at /\ call'.req = call.req /\ call'.notes = call.notes
        /\ call'.hits = call.hits /\ call'.score = call.score /\ call'.rest = call.rest
        /\ call'.results = call.results /\ call'.skipped = call.skipped /\ call'.err = call.err
    BY <2>2 DEF SearchInv, IsCall
  <2>4. call.req.k \in Nat
    BY <1>2, RequestsAre
  <2>5. (Began' <=> Began) /\ (Visiting' <=> Visiting) /\ (Ended' <=> Ended) /\ Limit' = Limit
    BY <2>3 DEF Began, Ended, Visiting, Limit
  <2>6. Began => Wanted' \subseteq Wanted
    BY <2>1, <2>4, WantedShrinks DEF SearchInv
  <2>7. Visiting => Began
    BY DEF Visiting, Began
  <2>8. ASSUME Visiting PROVE Visit'
    <3>1. Visit
      BY <2>8 DEF SearchInv
    <3>2. Wanted' \subseteq Wanted
      BY <2>6, <2>7, <2>8
    <3>3. PICK order, j, h : VisitedTo(order, j, h)
      BY <3>1 DEF Visit
    <3>4. VisitedTo(order, j, h)'
      BY <2>3, <2>5, <3>3 DEF VisitedTo
    <3> QED
      BY <2>3, <3>1, <3>2, <3>4 DEF Visit
  <2>9. ASSUME call.at \in {"embedding", "waiting"}
        PROVE  IF call'.req.tool = "hybrid" THEN Collected(DOMAIN call.hits)'
               ELSE Collected(call.notes)'
    <3>1. Began
      BY <2>9 DEF Began
    <3>2. Wanted' \subseteq Wanted
      BY <2>6, <3>1
    <3> QED
      BY <2>3, <2>9, <3>2 DEF SearchInv, Collected
  <2>10. ASSUME call.at \in {"scoring", "blending"}
         PROVE  /\ Collected(call.notes \cup DOMAIN call.score) =>
                       Collected(call.notes \cup DOMAIN call.score)'
                /\ Collected(DOMAIN call.score) => Collected(DOMAIN call.score)'
    <3>1. Began
      BY <2>10 DEF Began
    <3>2. Wanted' \subseteq Wanted
      BY <2>6, <3>1
    <3> QED
      BY <2>3, <3>2 DEF Collected
  <2>11. SearchAnswers'
    <3>1. SUFFICES ASSUME Ended PROVE SearchAnswers'
      BY <2>5 DEF SearchAnswers
    <3>2. Began
      BY <3>1 DEF Began
    <3>3. Wanted' \subseteq Wanted
      BY <2>6, <3>2
    <3>4. Answers' = Answers /\ Spare' = Spare
      BY <2>3 DEF Answers, Spare
    <3>5. \A n : Earned(n) => Earned(n)'
      BY <2>3, <3>4 DEF Earned
    <3>6. SearchAnswers
      BY DEF SearchInv
    <3> QED
      BY <2>3, <3>1, <3>3, <3>4, <3>5, <3>6 DEF SearchAnswers
  <2> QED
    BY <2>1, <2>3, <2>5, <2>8, <2>9, <2>11, <2>10 DEF SearchInv
<1> QED
  BY <1>1, <1>2 DEF Elsewhere

\* Edits, indexes that follow and notes that are embedded go on elsewhere.
LEMMA OthersElsewhere ==
    ASSUME TextsInv, SearchInv,
           \/ \E n \in Notes : \/ \E text \in Setups[setup].texts : Edit(n, text)
                               \/ Follow(n) \/ Hear(n) \/ Drop(n) \/ Prepare(n)
           \/ Submit \/ Commit \/ (\E c \in Callers : Others(c)) \/ Serving
           \/ UNCHANGED vars
    PROVE  Elsewhere
<1>1. ASSUME setup' = setup, NEW n, call' = Touch(n),
             \A m \in Notes : m # n =>
                 /\ disk'[m] = disk[m] /\ index'[m] = index[m] /\ known'[m] = known[m]
                 /\ lexical'[m] = lexical[m] /\ store'[m] = store[m]
      PROVE  Elsewhere
  <2>1. DOMAIN call = {"at", "req", "notes", "hits", "score", "was", "rest", "results",
                       "skipped", "touched", "err"}
    BY DEF SearchInv, IsCall
  <2> DEFINE t == IF call.at = "idle" THEN call.touched ELSE call.touched \cup {n}
  <2>2. call' = [call EXCEPT !.touched = t]
    BY <1>1 DEF Touch
  <2>3. ASSUME call.at # "idle" PROVE Touches
    <3>1. call'.req = call.req /\ call'.touched = call.touched \cup {n}
      BY <2>1, <2>2, <2>3
    <3> QED
      BY <1>1, <3>1 DEF Touches
  <2> HIDE DEF t
  <2> QED
    BY <1>1, <2>2, <2>3 DEF Elsewhere
<1>2. ASSUME UNCHANGED <<setup, call, disk, index, known, lexical, store>> PROVE Elsewhere
  <2>1. Touches
    BY <1>2 DEF Touches
  <2> QED
    BY <1>2, <2>1 DEF Elsewhere
<1>3. ASSUME NEW n \in Notes, NEW text \in Setups[setup].texts, Edit(n, text) PROVE Elsewhere
  BY <1>1, <1>3 DEF Edit, TextsInv, AreTexts
<1>4. ASSUME NEW n \in Notes, Follow(n) PROVE Elsewhere
  <2>1. \A m \in Notes : m # n => index'[m] = index[m] /\ lexical'[m] = lexical[m]
    BY <1>4 DEF Follow, TextsInv, AreTexts
  <2>2. ASSUME NEW m \in Notes, m # n PROVE known'[m] = known[m]
    <3>1. CASE Local
      <4>1. known' = [index EXCEPT ![n] = disk[n]]
        BY <1>4, <3>1 DEF Follow
      <4>2. known = index
        BY <3>1 DEF TextsInv
      <4> QED
        BY <2>1, <2>2, <4>1, <4>2
    <3>2. CASE ~Local
      BY <1>4, <3>2 DEF Follow
    <3> QED
      BY <3>1, <3>2
  <2> QED
    BY <1>1, <1>4, <2>1, <2>2 DEF Follow
<1>5. ASSUME NEW n \in Notes, Hear(n) PROVE Elsewhere
  BY <1>1, <1>5 DEF Hear, TextsInv, AreTexts
<1>6. ASSUME NEW n \in Notes, Drop(n) PROVE Elsewhere
  BY <1>1, <1>6 DEF Drop, Stored
<1>7. ASSUME NEW n \in Notes, Prepare(n) PROVE Elsewhere
  BY <1>2, <1>7 DEF Prepare, vault
<1>8. CASE Commit
  <2>1. CASE UNCHANGED <<store, call>>
    BY <1>2, <1>8, <2>1 DEF Commit
  <2>2. CASE Stored(job.note, Entry(job.hash, reply[Job].vectors))
    BY <1>1, <1>8, <2>2 DEF Commit, Stored
  <2> QED
    BY <1>8, <2>1, <2>2 DEF Commit
<1>9. ASSUME Submit \/ (\E c \in Callers : Others(c)) \/ Serving \/ UNCHANGED vars
      PROVE  Elsewhere
  BY <1>2, <1>9 DEF Submit, Others, Serving, Outside, vault, vars
<1> QED
  BY <1>3, <1>4, <1>5, <1>6, <1>7, <1>8, <1>9

\* A step of the search itself changes neither the vault nor its request.
SearchOnly ==
    /\ UNCHANGED <<setup, vault>>
    /\ call'.req = call.req /\ call'.touched = call.touched

\* A step of the search itself does not change what it must find.
LEMMA SameWanted ==
    ASSUME TextsInv, SearchInv, SearchOnly, call.at # "idle", call.req.scope \in DOMAIN Scope
    PROVE  Wanted' \subseteq Wanted
<1>1. Touches
  BY DEF SearchOnly, Touches, vault
<1> QED
  BY <1>1, RequestsAre, WantedShrinks

\* A ranking of some of the scope's notes, with all that are wanted, is visited.
LEMMA RankingKeeps ==
    ASSUME TextsInv, SearchInv, UNCHANGED <<setup, vault>>,
           call.at \notin {"idle", "answered"}, call.req.scope \in DOMAIN Scope, ~Visiting,
           NEW score, DOMAIN score \subseteq Scope[call.req.scope],
           call.req.tool = "related" => call.req.q \notin DOMAIN score,
           Wanted \subseteq DOMAIN score, Ranking(score, Limit)
    PROVE  SearchInv'
<1>1. PICK order \in Ranked(score, Limit) :
         call' = [call EXCEPT !.at = "visiting", !.score = score, !.was = store, !.rest = order]
  BY DEF Ranking
<1>2. /\ IsCall' /\ call'.at = "visiting" /\ call'.req = call.req /\ call'.score = score
      /\ call'.rest = order /\ call'.results = call.results /\ call'.skipped = call.skipped
      /\ call'.err = call.err /\ call'.touched = call.touched
  BY <1>1 DEF SearchInv, IsCall
<1>3. /\ call.at # "idle" /\ call.err = "none" /\ call.req.scope \in DOMAIN Scope
      /\ call.results = <<>> /\ call.skipped = {} /\ call.req \in Setups[setup].requests
  BY DEF SearchInv
<1>4. Limit \in Nat
  BY <1>3, RequestsAre
<1>5. IsFiniteSet(DOMAIN score)
  <2>1. DOMAIN score \in SUBSET Notes
    BY <1>3, ScopeAssumption
  <2> QED
    BY <2>1, NotesAssumption, FS_Subset
<1>6. IsSeq(order)
  BY <1>4, <1>5, RankedIs
<1>7. Len(order) \in Nat
  BY <1>6, IsSeqLen
<1>8. Limit' = Limit
  BY <1>2 DEF Limit
<1>9. IsSeq(<<>>) /\ Len(<<>>) = 0
  BY TuplesAre
<1>10. Wanted' \subseteq Wanted
  BY <1>2, <1>3, SameWanted DEF SearchOnly
<1>11. Visit'
  <2> DEFINE h == [i \in 1..0 |-> 0]
  <2>1. VisitedTo(order, 0, h)'
    <3>1. h \in [1..0 -> 1..0] /\ 1..0 = {} /\ 0 \in 0..Len(order)
      BY <1>7
    <3>2. Len(order) = Len(order) - 0 /\ \A i \in 1..Len(order) : order[i] = order[0 + i]
      BY <1>7
    <3> HIDE DEF h
    <3> QED
      BY <1>2, <1>3, <1>6, <1>8, <1>9, <3>1, <3>2 DEF VisitedTo
  <2>2. \E o, j, g : VisitedTo(o, j, g)'
    BY <2>1
  <2> QED
    BY <1>2, <1>3, <1>10, <2>2 DEF Visit
<1>12. SearchAnswers'
  BY <1>2 DEF SearchAnswers, Ended
<1> QED
  BY <1>2, <1>3, <1>11, <1>12 DEF SearchInv, Began, Ended, Visiting, Tools, Asked

\* A search that finds that there is nothing to rank answers with nothing.
LEMMA NothingFound ==
    ASSUME call'.results = <<>>, call'.req.k \in Nat, Wanted' = {}
    PROVE  SearchAnswers'
<1>1. IsSeq(<<>>) /\ Len(<<>>) = 0 /\ Range(<<>>) = {} /\ DOMAIN <<>> = {}
  BY TuplesAre
<1>2. Answers' = {}
  BY <1>1 DEF Answers
<1>3. Cardinality({}) = 0
  BY FS_EmptySet
<1> QED
  BY <1>1, <1>2, <1>3 DEF SearchAnswers

\* A request for an unknown scope is refused, any other begins a search.
LEMMA AskKeeps ==
    ASSUME TextsInv, SearchInv, NEW req \in Setups[setup].requests, Ask(req)
    PROVE  SearchInv'
<1>1. /\ IsCall' /\ call'.req = req /\ call'.results = <<>> /\ call'.skipped = {}
      /\ call'.at = (IF Refused(req) THEN "answered" ELSE req.tool)
      /\ call'.err = (IF Refused(req) THEN "unknown scope" ELSE "none")
      /\ setup' = setup
  BY DEF Ask, Idle, IsCall
<1>2. req.tool \in Tools
  BY RequestsAssumption DEF TextsInv, Tools
<1>3. CASE Refused(req)
  <2>1. call'.at = "answered" /\ call'.err = "unknown scope"
    BY <1>1, <1>3
  <2>2. ~Began' /\ ~Visiting' /\ SearchAnswers'
    BY <2>1 DEF Began, Ended, Visiting, SearchAnswers
  <2> QED
    BY <1>1, <2>1, <2>2 DEF SearchInv, Tools, Asked
<1>4. CASE ~Refused(req)
  <2>1. call'.at = req.tool /\ call'.err = "none"
    BY <1>1, <1>4
  <2>2. ~Visiting' /\ SearchAnswers'
    BY <1>2, <2>1 DEF Tools, Ended, Visiting, SearchAnswers
  <2>3. Began' => req.scope \in DOMAIN Scope
    BY <1>2, <1>4, <2>1 DEF Began, Ended, Refused, Tools
  <2> QED
    BY <1>1, <1>2, <2>1, <2>2, <2>3 DEF SearchInv, Tools, Asked
<1> QED
  BY <1>3, <1>4

\* The notes of the scope have among them all that must be found (scoped_paths).
LEMMA ScopedKeeps ==
    ASSUME TextsInv, SearchInv, Quiet, Scoped
    PROVE  SearchInv'
<1>1. /\ call.at \in {"semantic", "fused"} /\ Began /\ call.at = call.req.tool
      /\ ~Visiting /\ call.req.scope \in DOMAIN Scope
      /\ call.err = "none" /\ call.results = <<>> /\ call.skipped = {}
      /\ call.req \in Setups[setup].requests
  BY DEF Scoped, Began, Visiting, SearchInv, Tools, Asked
<1>2. /\ IsCall' /\ call'.at = "embedding" /\ call'.req = call.req
      /\ call'.notes = Narrow(call.req.scope, In(index)) /\ call'.err = call.err
      /\ call'.results = call.results /\ call'.skipped = call.skipped
      /\ call'.touched = call.touched
  BY DEF Scoped, SearchInv, IsCall
<1>3. Wanted' \subseteq Wanted
  BY <1>1, <1>2, SameWanted DEF SearchOnly, Quiet
<1>4. Wanted \subseteq call'.notes
  BY <1>1, <1>2, ScopeAssumption DEF Wanted, Steady, Narrow, In
<1>5. call'.notes \subseteq Scope[call.req.scope]
  BY <1>2 DEF Narrow
<1>6. ~Visiting' /\ SearchAnswers'
  BY <1>2 DEF Visiting, SearchAnswers, Ended
<1>7. Collected(call.notes)'
  BY <1>2, <1>3, <1>4, <1>5 DEF Collected
<1> QED
  BY <1>1, <1>2, <1>6, <1>7 DEF SearchInv, Quiet, Tools, Asked

\* So have the hits that were fetched, where all hits fit the prefetch
\* (search_hybrid_scoped).
LEMMA PrefetchedKeeps ==
    ASSUME TextsInv, SearchInv, Quiet, Prefetched
    PROVE  SearchInv'
<1> DEFINE bm25 == Bm25(call.req.q)
           p == Prefetch(call.req.scope, call.req.k)
           scope == Scope[call.req.scope]
<1>1. /\ call.at = "hybrid" /\ Began /\ call.at = call.req.tool
      /\ ~Visiting /\ call.req.scope \in DOMAIN Scope
      /\ call.err = "none" /\ call.results = <<>> /\ call.skipped = {}
      /\ call.req \in Setups[setup].requests
  BY DEF Prefetched, Began, Visiting, SearchInv, Tools, Asked
<1>2. call.req.k \in Nat
  BY <1>1, RequestsAre
<1>3. PICK order \in Ranked(bm25, p) : \E hits \in {Narrow(call.req.scope, Range(order))} :
         call' = [call EXCEPT !.hits = Restrict(bm25, hits),
                              !.at = IF hits = {} THEN "answered" ELSE "embedding"]
  BY DEF Prefetched
<1> DEFINE hits == Narrow(call.req.scope, Range(order))
<1>4. call' = [call EXCEPT !.hits = Restrict(bm25, hits),
                           !.at = IF hits = {} THEN "answered" ELSE "embedding"]
  BY <1>3
<1>5. DOMAIN bm25 = {n \in Notes : Found(lexical[n], call.req.q) > 0}
  BY DEF Bm25
<1>6. p \in Nat
  BY <1>2, PrefetchIs
<1> HIDE DEF bm25, p, hits
<1>7. DOMAIN Restrict(bm25, hits) = hits
  BY DEF Restrict
<1> DEFINE r == Restrict(bm25, hits)
<1> HIDE DEF r
<1>8. /\ IsCall' /\ call'.req = call.req /\ call'.hits = r
      /\ call'.at = (IF hits = {} THEN "answered" ELSE "embedding")
      /\ call'.results = call.results /\ call'.skipped = call.skipped
      /\ call'.touched = call.touched /\ call'.err = call.err
  BY <1>4 DEF SearchInv, IsCall, r
<1>9. Wanted \subseteq hits
  <2>1. ASSUME NEW n \in Wanted PROVE n \in hits
    <3>1. n \in scope /\ n \in Notes /\ Found(lexical[n], call.req.q) > 0 /\ Prefetchable
      BY <1>1, ScopeAssumption DEF Wanted, About
    <3> DEFINE F == {m \in Notes : m \in call.touched \/ Found(lexical[m], call.req.q) > 0}
    <3>2. Cardinality(F) <= p
      BY <3>1 DEF Prefetchable, p
    <3>3. DOMAIN bm25 \in SUBSET F /\ IsFiniteSet(F)
      BY <1>5, FS_Subset, NotesAssumption
    <3> HIDE DEF F
    <3>4. /\ IsFiniteSet(DOMAIN bm25) /\ Cardinality(DOMAIN bm25) <= Cardinality(F)
          /\ Cardinality(DOMAIN bm25) \in Nat /\ Cardinality(F) \in Nat
      BY <3>3, FS_Subset, FS_CardinalityType
    <3>5. Cardinality(DOMAIN bm25) <= p
      BY <1>6, <3>2, <3>4
    <3>6. Range(order) = DOMAIN bm25
      BY <1>6, <3>4, <3>5, RankedAll
    <3> QED
      BY <1>5, <3>1, <3>6 DEF hits, Narrow
  <2> QED
    BY <2>1
<1>10. Wanted' \subseteq Wanted
  BY <1>1, <1>8, SameWanted DEF SearchOnly, Quiet
<1>11. hits \subseteq scope
  BY DEF hits, Narrow
<1>12. CASE hits = {}
  <2>1. call'.at = "answered" /\ ~Visiting'
    BY <1>8, <1>12 DEF Visiting
  <2>2. SearchAnswers'
    BY <1>1, <1>2, <1>8, <1>9, <1>10, <1>12, NothingFound
  <2> QED
    BY <1>1, <1>8, <2>1, <2>2 DEF SearchInv, Quiet, Tools, Asked
<1>13. CASE hits # {}
  <2>1. call'.at = "embedding" /\ ~Visiting'
    BY <1>8, <1>13 DEF Visiting
  <2>2. SearchAnswers'
    BY <2>1 DEF SearchAnswers, Ended
  <2>3. Collected(DOMAIN call.hits)'
    BY <1>7, <1>8, <1>9, <1>10, <1>11 DEF Collected, r
  <2> QED
    BY <1>1, <1>8, <2>1, <2>2, <2>3 DEF SearchInv, Quiet, Tools, Asked
<1> QED
  BY <1>12, <1>13

\* Waiting for the query's vector changes nothing else.
LEMMA AskVectorKeeps ==
    ASSUME TextsInv, SearchInv, Quiet, AskVector
    PROVE  SearchInv'
<1>1. /\ call.at = "embedding" /\ Began
      /\ ~Visiting /\ call.req.scope \in DOMAIN Scope
      /\ call.err = "none" /\ call.results = <<>> /\ call.skipped = {}
      /\ call.req \in Setups[setup].requests
      /\ call.req.tool \in {"semantic", "fused", "hybrid"}
      /\ IF call.req.tool = "hybrid" THEN Collected(DOMAIN call.hits) ELSE Collected(call.notes)
  BY DEF AskVector, Began, Visiting, SearchInv, Tools, Asked
<1>2. /\ IsCall' /\ call'.at = "waiting" /\ call'.req = call.req
      /\ call'.notes = call.notes /\ call'.hits = call.hits /\ call'.err = call.err
      /\ call'.results = call.results /\ call'.skipped = call.skipped
      /\ call'.touched = call.touched
  BY DEF AskVector, SearchInv, IsCall
<1>3. Wanted' \subseteq Wanted
  BY <1>1, <1>2, SameWanted DEF SearchOnly, Quiet
<1>4. ~Visiting' /\ SearchAnswers'
  BY <1>2 DEF Visiting, SearchAnswers, Ended
<1>5. IF call'.req.tool = "hybrid" THEN Collected(DOMAIN call.hits)' ELSE Collected(call.notes)'
  BY <1>1, <1>2, <1>3 DEF Collected
<1> QED
  BY <1>1, <1>2, <1>4, <1>5 DEF SearchInv, Quiet, Tools, Asked

\* A search that fails answers nothing.
LEMMA FailKeeps ==
    ASSUME SearchInv, setup' = setup, call.at # "idle", ~Visiting,
           NEW why, why # "none", call' = Fail(why)
    PROVE  SearchInv'
<1>1. /\ IsCall' /\ call'.at = "answered" /\ call'.err = why /\ call'.req = call.req
  BY DEF Fail, SearchInv, IsCall
<1>2. ~Began' /\ ~Visiting' /\ SearchAnswers'
  BY <1>1 DEF Began, Ended, Visiting, SearchAnswers
<1> QED
  BY <1>1, <1>2 DEF SearchInv, Tools, Asked

\* What is ranked is in the scope and has all that must be found, as have the
\* hits to be scored and the semantic arm, where it is not cut
\* (search_semantic_detailed, search_hybrid_scores, blend_lexical).
LEMMA RankHitsKeeps ==
    ASSUME TextsInv, SearchInv, Quiet, RankHits
    PROVE  SearchInv'
<1>1. /\ call.at = "waiting" /\ Began /\ call.at # "answered" /\ call.at # "idle"
      /\ ~Visiting /\ call.req.scope \in DOMAIN Scope
      /\ call.err = "none" /\ call.results = <<>> /\ call.skipped = {}
      /\ call.req \in Setups[setup].requests
      /\ call.req.tool \in {"semantic", "fused", "hybrid"}
      /\ IF call.req.tool = "hybrid" THEN Collected(DOMAIN call.hits) ELSE Collected(call.notes)
  BY DEF RankHits, Began, Visiting, SearchInv, Tools
<1>2. UNCHANGED <<setup, vault>>
  BY DEF Quiet
<1> DEFINE v == reply[Query].vectors[1]
<1>3. CASE reply[Query].is = "failed"
  BY <1>1, <1>2, <1>3, FailKeeps DEF RankHits
<1>4. CASE ~(reply[Query].is = "failed")
  <2>1. Rank(v)
    BY <1>4 DEF RankHits
  <2> HIDE DEF v
  <2>2. Limit = CandidateLimit(call.req.k)
    BY <1>1 DEF Limit
  <2> DEFINE score == SemanticScores(call.notes, v)
  <2>3. DOMAIN score = {m \in call.notes : store[m] # NoVectors}
    BY DEF SemanticScores
  <2>4. CASE call.req.tool = "semantic"
    <3>1. Ranking(score, Limit)
      BY <2>1, <2>2, <2>4 DEF Rank
    <3>2. DOMAIN score \subseteq Scope[call.req.scope] /\ Wanted \subseteq DOMAIN score
      BY <1>1, <2>3, <2>4 DEF Collected, Wanted, About
    <3> HIDE DEF score
    <3> QED
      BY <1>1, <1>2, <2>4, <3>1, <3>2, RankingKeeps
  <2>5. CASE call.req.tool = "fused"
    <3> DEFINE d == Depth(call.req.k)
    <3>1. PICK best \in Ranked(score, d) :
             call' = [call EXCEPT !.at = "blending", !.score = Restrict(score, Range(best))]
      BY <2>1, <2>5 DEF Rank
    <3>2. d \in Nat
      BY <1>1, RequestsAre, DepthIs
    <3>3. IsFiniteSet(DOMAIN score) /\ DOMAIN score \in SUBSET Scope[call.req.scope]
      <4>1. DOMAIN score \in SUBSET Scope[call.req.scope] /\ DOMAIN score \in SUBSET Notes
        BY <1>1, <2>3, <2>5, ScopeAssumption DEF Collected
      <4> QED
        BY <4>1, FS_Subset, NotesAssumption
    <3>4. ASSUME NEW n \in Wanted PROVE n \in Range(best)
      <4> DEFINE D == {m \in Scope[call.req.scope] : m \in call.touched \/ store[m] # NoVectors}
      <4>1. n \in DOMAIN score /\ Cardinality(D) <= d
        BY <1>1, <2>3, <2>5 DEF Collected, Wanted, About, Deep
      <4>2. DOMAIN score \in SUBSET D /\ IsFiniteSet(D)
        <5>1. D \in SUBSET Notes
          BY <1>1, ScopeAssumption
        <5> QED
          BY <2>3, <3>3, <5>1, FS_Subset, NotesAssumption
      <4> HIDE DEF D, d, score
      <4>3. /\ Cardinality(DOMAIN score) <= Cardinality(D)
            /\ Cardinality(DOMAIN score) \in Nat /\ Cardinality(D) \in Nat
        BY <4>2, FS_Subset, FS_CardinalityType
      <4>4. Cardinality(DOMAIN score) <= d
        BY <3>2, <4>1, <4>3
      <4>5. Range(best) = DOMAIN score
        BY <3>1, <3>2, <3>3, <4>4, RankedAll
      <4> QED
        BY <4>1, <4>5
    <3>5. Range(best) \subseteq DOMAIN score
      <4> HIDE DEF score, d
      <4>1. IsSeq(best) /\ \A i \in 1..Len(best) : best[i] \in DOMAIN score
        BY <3>1, <3>2, <3>3, RankedIs
      <4> QED
        BY <4>1, IsSeqLen
    <3> DEFINE arm == Restrict(score, Range(best))
    <3>6. DOMAIN arm = Range(best)
      BY DEF Restrict
    <3> HIDE DEF score, arm
    <3>7. /\ IsCall' /\ call'.at = "blending" /\ call'.req = call.req /\ call'.score = arm
          /\ call'.notes = call.notes /\ call'.err = call.err /\ call'.touched = call.touched
          /\ call'.results = call.results /\ call'.skipped = call.skipped
      BY <3>1 DEF SearchInv, IsCall, arm
    <3>8. Wanted' \subseteq Wanted
      BY <1>1, <1>2, <3>7, SameWanted DEF SearchOnly
    <3>9. Collected(DOMAIN call.score)'
      BY <3>3, <3>4, <3>5, <3>6, <3>7, <3>8 DEF Collected
    <3>10. call'.notes \subseteq Scope[call'.req.scope]
      BY <1>1, <2>5, <3>7 DEF Collected
    <3>11. ~Visiting' /\ SearchAnswers'
      BY <3>7 DEF Visiting, SearchAnswers, Ended
    <3> QED
      BY <1>1, <1>2, <2>5, <3>7, <3>9, <3>10, <3>11 DEF SearchInv, Tools, Asked
  <2>6. CASE call.req.tool = "hybrid"
    <3> DEFINE notes == {n \in DOMAIN call.hits : ~Local \/ index[n] # Gone}
    <3>1. call' = [call EXCEPT !.at = "scoring", !.score = <<>>, !.notes = notes]
      BY <2>1, <2>6 DEF Rank
    <3>2. notes \subseteq Scope[call.req.scope] /\ Wanted \subseteq notes
      BY <1>1, <2>6 DEF Collected, Wanted, Steady
    <3> HIDE DEF notes
    <3>3. /\ IsCall' /\ call'.at = "scoring" /\ call'.req = call.req /\ call'.score = <<>>
          /\ call'.notes = notes /\ call'.err = call.err /\ call'.touched = call.touched
          /\ call'.results = call.results /\ call'.skipped = call.skipped
      BY <3>1 DEF SearchInv, IsCall
    <3>4. Wanted' \subseteq Wanted
      BY <1>1, <1>2, <3>3, SameWanted DEF SearchOnly
    <3>5. Collected(call.notes \cup DOMAIN call.score)'
      BY <3>2, <3>3, <3>4, TuplesAre DEF Collected
    <3>6. ~Visiting' /\ SearchAnswers'
      BY <3>3 DEF Visiting, SearchAnswers, Ended
    <3> QED
      BY <1>1, <1>2, <2>6, <3>3, <3>5, <3>6 DEF SearchInv, Tools, Asked
  <2> QED
    BY <1>1, <2>4, <2>5, <2>6
<1> QED
  BY <1>3, <1>4

\* A hit that is scored stays one of those to be ranked (search_hybrid_scores).
LEMMA ScoreHitKeeps ==
    ASSUME TextsInv, SearchInv, Quiet, ScoreHit
    PROVE  SearchInv'
<1>1. /\ call.at = "scoring" /\ ~Visiting /\ call.req.scope \in DOMAIN Scope
      /\ call.err = "none" /\ call.results = <<>> /\ call.skipped = {}
      /\ call.req \in Setups[setup].requests /\ call.req.tool = "hybrid"
      /\ Collected(call.notes \cup DOMAIN call.score)
  BY DEF ScoreHit, Began, Visiting, SearchInv
<1>2. UNCHANGED <<setup, vault>>
  BY DEF Quiet
<1>3. PICK n \in call.notes :
         call' = [call EXCEPT !.notes = @ \ {n}, !.score =
                      [m \in DOMAIN @ \cup {n} |->
                          IF m = n THEN SemanticOf(store, n, <<call.req.q>>) ELSE @[m]]]
  BY DEF ScoreHit
<1> DEFINE score == [m \in DOMAIN call.score \cup {n} |->
                        IF m = n THEN SemanticOf(store, n, <<call.req.q>>) ELSE call.score[m]]
<1>4. DOMAIN score = DOMAIN call.score \cup {n}
  OBVIOUS
<1> HIDE DEF score
<1>5. /\ IsCall' /\ call'.at = call.at /\ call'.req = call.req /\ call'.score = score
      /\ call'.notes = call.notes \ {n} /\ call'.err = call.err
      /\ call'.touched = call.touched
      /\ call'.results = call.results /\ call'.skipped = call.skipped
  BY <1>3 DEF SearchInv, IsCall, score
<1>6. Wanted' \subseteq Wanted
  BY <1>1, <1>2, <1>5, SameWanted DEF SearchOnly
<1>7. call'.notes \cup DOMAIN call'.score = call.notes \cup DOMAIN call.score
  BY <1>3, <1>4, <1>5
<1>8. Collected(call.notes \cup DOMAIN call.score)'
  BY <1>1, <1>5, <1>6, <1>7 DEF Collected
<1>9. ~Visiting' /\ SearchAnswers'
  BY <1>1, <1>5 DEF Visiting, SearchAnswers, Ended
<1> QED
  BY <1>1, <1>2, <1>5, <1>8, <1>9 DEF SearchInv, Tools, Asked

\* When all have been scored, they are ranked (search_hybrid_scores).
LEMMA ScoredKeeps ==
    ASSUME TextsInv, SearchInv, Quiet, Scored
    PROVE  SearchInv'
<1>1. /\ call.at = "scoring" /\ ~Visiting /\ call.req.scope \in DOMAIN Scope
      /\ call.req.tool = "hybrid" /\ call.notes = {}
      /\ Collected(call.notes \cup DOMAIN call.score)
  BY DEF Scored, Began, Visiting, SearchInv
<1>2. UNCHANGED <<setup, vault>>
  BY DEF Quiet
<1> DEFINE score == HybridScores(call.hits, call.score)
<1>3. Ranking(score, Limit)
  BY <1>1 DEF Scored, Limit
<1>4. DOMAIN score = DOMAIN call.score
  BY DEF HybridScores
<1> HIDE DEF score
<1>5. DOMAIN score \subseteq Scope[call.req.scope] /\ Wanted \subseteq DOMAIN score
  BY <1>1, <1>4 DEF Collected
<1> QED
  BY <1>1, <1>2, <1>3, <1>5, RankingKeeps

\* The lexical arm adds to the semantic one, in the scope (blend_lexical).
LEMMA BlendKeeps ==
    ASSUME TextsInv, SearchInv, Quiet, Blend
    PROVE  SearchInv'
<1>1. /\ call.at = "blending" /\ ~Visiting /\ call.req.scope \in DOMAIN Scope
      /\ call.req.tool = "fused" /\ call.notes \subseteq Scope[call.req.scope]
      /\ Collected(DOMAIN call.score)
  BY DEF Blend, Began, Visiting, SearchInv
<1>2. UNCHANGED <<setup, vault>>
  BY DEF Quiet
<1>3. PICK order \in Ranked(Bm25(call.req.q), Depth(call.req.k)) :
         Ranking(FusedScores(call.score, Restrict(Bm25(call.req.q), Range(order)), call.notes),
                 CandidateLimit(call.req.k))
  BY DEF Blend
<1> DEFINE hits == Restrict(Bm25(call.req.q), Range(order))
           score == FusedScores(call.score, hits, call.notes)
<1>4. Ranking(score, Limit)
  BY <1>1, <1>3 DEF Limit
<1> HIDE DEF hits
<1>5. DOMAIN call.score \subseteq DOMAIN score /\ DOMAIN score \subseteq DOMAIN call.score \cup call.notes
  BY DEF FusedScores
<1> HIDE DEF score
<1>6. DOMAIN score \subseteq Scope[call.req.scope] /\ Wanted \subseteq DOMAIN score
  BY <1>1, <1>5 DEF Collected
<1> QED
  BY <1>1, <1>2, <1>4, <1>6, RankingKeeps

\* A search for related notes goes on while its note is there (note_related_inner).
LEMMA RelatedKeeps ==
    ASSUME TextsInv, SearchInv, Quiet, Related \/ Linked
    PROVE  SearchInv'
<1>1. /\ call.at \in {"related", "linking"} /\ ~Visiting /\ call.req.tool = "related"
      /\ call.err = "none" /\ call.results = <<>> /\ call.skipped = {}
      /\ call.req \in Setups[setup].requests
  BY DEF Related, Linked, Visiting, SearchInv, Tools
<1>2. UNCHANGED <<setup, vault>>
  BY DEF Quiet
<1>3. CASE call' = Fail("missing")
  BY <1>1, <1>2, <1>3, FailKeeps
<1>4. ASSUME NEW at \in {"linking", "relating"}, call' = [call EXCEPT !.at = at]
      PROVE  SearchInv'
  <2>1. /\ IsCall' /\ call'.at = at /\ call'.req = call.req /\ call'.err = call.err
        /\ call'.results = call.results /\ call'.skipped = call.skipped
    BY <1>4 DEF SearchInv, IsCall
  <2>2. ~Began' /\ ~Visiting' /\ SearchAnswers'
    BY <2>1 DEF Began, Visiting, SearchAnswers, Ended
  <2> QED
    BY <1>1, <1>2, <2>1, <2>2 DEF SearchInv, Tools, Asked
<1> QED
  BY <1>3, <1>4 DEF Related, Linked

\* The notes related to one have among them all that must be found, and not the
\* note itself (related_notes).
LEMMA RelateKeeps ==
    ASSUME TextsInv, SearchInv, Quiet, Relate
    PROVE  SearchInv'
<1>1. /\ call.at = "relating" /\ call.at # "answered" /\ call.at # "idle"
      /\ ~Visiting /\ call.req.tool = "related"
  BY DEF Relate, Visiting, SearchInv
<1>2. UNCHANGED <<setup, vault>>
  BY DEF Quiet
<1> DEFINE score == RelatedScores(call.req.q, call.req.scope)
<1>3. \/ call' = Fail("unknown scope") \/ call' = Fail("no embeddings")
      \/ call.req.scope \in DOMAIN Scope /\ Ranking(score, call.req.k)
  BY DEF Relate
<1>4. CASE call' = Fail("unknown scope") \/ call' = Fail("no embeddings")
  BY <1>1, <1>2, <1>4, FailKeeps
<1>5. CASE call.req.scope \in DOMAIN Scope /\ Ranking(score, call.req.k)
  <2>1. Limit = call.req.k
    BY <1>1 DEF Limit
  <2>2. DOMAIN score = {m \in Narrow(call.req.scope, In(index)) \ {call.req.q} :
                           store[m] # NoVectors}
    BY DEF RelatedScores, SemanticScores
  <2>3. DOMAIN score \subseteq Scope[call.req.scope] /\ call.req.q \notin DOMAIN score
    BY <2>2 DEF Narrow
  <2>4. Wanted \subseteq DOMAIN score
    <3>1. ASSUME NEW n \in Wanted PROVE n \in DOMAIN score
      <4>1. n \in Scope[call.req.scope] /\ n \in Notes /\ index[n] # Gone
        BY <1>5, ScopeAssumption DEF Wanted, Steady
      <4>2. store[n] # NoVectors /\ n # call.req.q
        BY <1>1 DEF Wanted, About
      <4> QED
        BY <2>2, <4>1, <4>2 DEF Narrow, In
    <3> QED
      BY <3>1
  <2> HIDE DEF score
  <2> QED
    BY <1>1, <1>2, <1>5, <2>1, <2>3, <2>4, RankingKeeps
<1> QED
  BY <1>3, <1>4, <1>5

\* The same of the hits of a full-text search, which knows no scope.
LEMMA TextKeeps ==
    ASSUME TextsInv, SearchInv, Quiet, Text
    PROVE  SearchInv'
<1>1. /\ call.at = "text" /\ Began /\ call.at # "answered" /\ call.at # "idle"
      /\ ~Visiting /\ call.req.tool = "text" /\ call.req.scope \in DOMAIN Scope
  BY DEF Text, Began, Visiting, SearchInv, Tools, Asked
<1>2. UNCHANGED <<setup, vault>>
  BY DEF Quiet
<1> DEFINE score == Bm25(call.req.q)
<1>3. Ranking(score, Limit)
  BY <1>1 DEF Text, Limit
<1>4. DOMAIN score = {m \in Notes : Found(lexical[m], call.req.q) > 0}
  BY DEF Bm25
<1>5. Scope[call.req.scope] = Notes
  BY <1>1, RequestsAre, ScopeAssumption
<1>6. DOMAIN score \subseteq Scope[call.req.scope] /\ Wanted \subseteq DOMAIN score
  BY <1>1, <1>4, <1>5 DEF Wanted, About
<1> HIDE DEF score
<1> QED
  BY <1>1, <1>2, <1>3, <1>6, RankingKeeps

\* A candidate that has gone is skipped, any other read (search_semantic_local).
LEMMA LookKeeps ==
    ASSUME TextsInv, SearchInv, Quiet, Look
    PROVE  SearchInv'
<1>1. /\ call.at = "visiting" /\ Began /\ Visiting /\ call.req.scope \in DOMAIN Scope
      /\ call.err = "none" /\ call.req \in Setups[setup].requests /\ Visit
      /\ call.rest # <<>>
  BY DEF Look, Began, Visiting, SearchInv, Tools, Asked
<1>2. PICK order, j, h : VisitedTo(order, j, h)
  BY <1>1 DEF Visit
<1>3. IsSeq(call.rest) /\ Len(call.rest) = Len(order) - j /\ j \in 0..Len(order)
      /\ \A i \in 1..Len(call.rest) : call.rest[i] = order[j + i]
  BY <1>2 DEF VisitedTo
<1>4. /\ Len(call.rest) \in Nat /\ Len(call.rest) > 0
      /\ Head(call.rest) = call.rest[1]
      /\ IsSeq(Tail(call.rest)) /\ Len(Tail(call.rest)) = Len(call.rest) - 1
      /\ \A i \in 1..Len(Tail(call.rest)) : Tail(call.rest)[i] = call.rest[i + 1]
  BY <1>1, <1>3, IsSeqLen, TailIs
<1> DEFINE n == Head(call.rest)
<1>5. CASE Visible(n)
  <2>1. call' = [call EXCEPT !.at = "reading"]
    BY <1>5 DEF Look
  <2>2. /\ IsCall' /\ call'.at = "reading" /\ call'.req = call.req /\ call'.err = call.err
        /\ call'.score = call.score /\ call'.rest = call.rest /\ call'.results = call.results
        /\ call'.skipped = call.skipped /\ call'.touched = call.touched
    BY <2>1 DEF SearchInv, IsCall
  <2>3. Wanted' \subseteq Wanted
    BY <1>1, <2>2, SameWanted DEF SearchOnly, Quiet
  <2>4. VisitedTo(order, j, h)'
    BY <1>2, <2>2 DEF VisitedTo, Limit
  <2>5. \E o, i, g : VisitedTo(o, i, g)'
    BY <2>4
  <2>6. Visit'
    BY <1>1, <2>2, <2>3, <2>5 DEF Visit
  <2>7. SearchAnswers'
    BY <2>2 DEF SearchAnswers, Ended
  <2> QED
    BY <1>1, <2>2, <2>6, <2>7 DEF SearchInv, Quiet, Tools, Asked, Visiting
<1>6. CASE ~Visible(n)
  <2>1. call' = [call EXCEPT !.rest = Tail(@), !.skipped = @ \cup {n}]
    BY <1>6 DEF Look
  <2>2. /\ IsCall' /\ call'.at = call.at /\ call'.req = call.req /\ call'.err = call.err
        /\ call'.score = call.score /\ call'.rest = Tail(call.rest)
        /\ call'.results = call.results
        /\ call'.skipped = call.skipped \cup {n} /\ call'.touched = call.touched
    BY <2>1 DEF SearchInv, IsCall
  <2>3. Wanted' \subseteq Wanted
    BY <1>1, <2>2, SameWanted DEF SearchOnly, Quiet
  <2>4. n \notin Wanted
    BY <1>6 DEF Visible, Wanted, Steady
  <2>5. j + 1 \in 1..Len(order) /\ j + 1 \in 0..Len(order) /\ order[j + 1] = n /\ j \in Nat
        /\ Len(order) \in Int
    BY <1>3, <1>4
  <2> HIDE DEF n
  <2>6. VisitedTo(order, j + 1, h)'
    <3>1. Len(Tail(call.rest)) = Len(order) - (j + 1)
      BY <1>3, <1>4, <2>5
    <3>2. ASSUME NEW i \in 1..Len(Tail(call.rest)) PROVE Tail(call.rest)[i] = order[(j + 1) + i]
      <4>1. i \in Nat /\ 1 <= i /\ i <= Len(call.rest) - 1
        BY <1>4
      <4>2. i + 1 \in 1..Len(call.rest) /\ j + (i + 1) = (j + 1) + i
        BY <1>4, <2>5, <4>1
      <4> QED
        BY <1>3, <1>4, <4>2
    <3>3. h \in [1..Len(call.results) -> 1..j]
      BY <1>2 DEF VisitedTo
    <3>4. h \in [1..Len(call.results) -> 1..j + 1] /\ \A l \in 1..Len(call.results) : h[l] # j + 1
      BY <2>5, <3>3
    <3>5. {x \in 1..j + 1 : \A l \in 1..Len(call.results) : h[l] # x}
            = {x \in 1..j : \A l \in 1..Len(call.results) : h[l] # x} \cup {j + 1}
      BY <2>5, <3>4
    <3>6. call.skipped = {order[i] : i \in {x \in 1..j : \A l \in 1..Len(call.results) : h[l] # x}}
      BY <1>2 DEF VisitedTo
    <3>7. call'.skipped =
            {order[i] : i \in {x \in 1..j + 1 : \A l \in 1..Len(call.results) : h[l] # x}}
      BY <2>2, <2>5, <3>5, <3>6
    <3>8. /\ order \in Ranked(call.score, Limit) /\ IsSeq(call.results)
          /\ \A a, b \in 1..Len(call.results) : a < b => h[a] < h[b]
          /\ \A i \in 1..Len(call.results) : call.results[i].note = order[h[i]]
      BY <1>2 DEF VisitedTo
    <3>9. Limit' = Limit
      BY <2>2 DEF Limit
    <3> QED
      BY <1>4, <2>2, <2>5, <3>1, <3>2, <3>4, <3>7, <3>8, <3>9 DEF VisitedTo
  <2>7. \E o, i, g : VisitedTo(o, i, g)'
    BY <2>6
  <2>8. Visit'
    BY <1>1, <2>2, <2>3, <2>4, <2>7 DEF Visit
  <2>9. SearchAnswers'
    BY <1>1, <2>2 DEF SearchAnswers, Ended
  <2> QED
    BY <1>1, <2>2, <2>8, <2>9 DEF SearchInv, Quiet, Tools, Asked, Visiting
<1> QED
  BY <1>5, <1>6

\* A candidate that is read becomes the next result.
LEMMA ReadKeeps ==
    ASSUME TextsInv, SearchInv, Quiet, Read
    PROVE  SearchInv'
<1>1. /\ call.at = "reading" /\ Began /\ Visiting /\ call.req.scope \in DOMAIN Scope
      /\ call.err = "none" /\ call.req \in Setups[setup].requests /\ Visit
      /\ call.rest # <<>>
  BY DEF Read, Began, Visiting, SearchInv, Tools, Asked
<1>2. PICK order, j, h : VisitedTo(order, j, h)
  BY <1>1 DEF Visit
<1>3. IsSeq(call.rest) /\ Len(call.rest) = Len(order) - j /\ j \in 0..Len(order)
      /\ \A i \in 1..Len(call.rest) : call.rest[i] = order[j + i]
  BY <1>2 DEF VisitedTo
<1>4. /\ Len(call.rest) \in Nat /\ Len(call.rest) > 0
      /\ Head(call.rest) = call.rest[1]
      /\ IsSeq(Tail(call.rest)) /\ Len(Tail(call.rest)) = Len(call.rest) - 1
      /\ \A i \in 1..Len(Tail(call.rest)) : Tail(call.rest)[i] = call.rest[i + 1]
  BY <1>1, <1>3, IsSeqLen, TailIs
<1> DEFINE n == Head(call.rest)
           res == call.results
           m == Len(res)
<1>5. PICK c \in ChunksOf(n) :
         call' = [call EXCEPT !.at = "visiting", !.rest = Tail(@),
                              !.results = Append(@, Result(n, disk[n], c))]
  BY DEF Read
<1> DEFINE r == Result(n, disk[n], c)
           u == Append(res, r)
<1>6. r.note = n
  BY DEF Result
<1> HIDE DEF r, u
<1>7. /\ IsCall' /\ call'.at = "visiting" /\ call'.req = call.req /\ call'.err = call.err
      /\ call'.score = call.score /\ call'.rest = Tail(call.rest)
      /\ call'.results = u
      /\ call'.skipped = call.skipped /\ call'.touched = call.touched
  BY <1>5 DEF SearchInv, IsCall, u, r
<1>8. Wanted' \subseteq Wanted
  BY <1>1, <1>7, SameWanted DEF SearchOnly, Quiet
<1>9. j + 1 \in 1..Len(order) /\ j + 1 \in 0..Len(order) /\ order[j + 1] = n /\ j \in Nat
      /\ Len(order) \in Int
  BY <1>3, <1>4
<1>10. /\ order \in Ranked(call.score, Limit) /\ IsSeq(res)
       /\ h \in [1..m -> 1..j]
       /\ \A a, b \in 1..m : a < b => h[a] < h[b]
       /\ \A i \in 1..m : res[i].note = order[h[i]]
       /\ call.skipped = {order[i] : i \in {x \in 1..j : \A l \in 1..m : h[l] # x}}
  BY <1>2 DEF VisitedTo
<1> HIDE DEF res, n
<1>11. /\ IsSeq(u) /\ Len(u) = m + 1 /\ m \in Nat
       /\ \A i \in 1..m : u[i] = res[i]
       /\ u[m + 1] = r
  BY <1>10, AppendIs, IsSeqLen DEF u
<1> HIDE DEF m
<1>12. PICK g : g = [i \in 1..m + 1 |-> IF i = m + 1 THEN j + 1 ELSE h[i]]
  OBVIOUS
<1>13. /\ g \in [1..m + 1 -> 1..j + 1]
       /\ g[m + 1] = j + 1 /\ \A i \in 1..m : g[i] = h[i] /\ h[i] \in 1..j
  BY <1>9, <1>10, <1>11, <1>12
<1>14. ASSUME NEW a \in 1..m + 1, NEW b \in 1..m + 1, a < b PROVE g[a] < g[b]
  <2>1. a \in 1..m
    BY <1>11, <1>14
  <2>2. CASE b = m + 1
    BY <1>9, <1>13, <2>1, <2>2
  <2>3. CASE b # m + 1
    <3>1. b \in 1..m
      BY <1>11, <2>3
    <3> QED
      BY <1>10, <1>13, <1>14, <2>1, <3>1
  <2> QED
    BY <2>2, <2>3
<1>15. ASSUME NEW i \in 1..m + 1 PROVE u[i].note = order[g[i]]
  <2>1. CASE i = m + 1
    BY <1>6, <1>9, <1>11, <1>13, <2>1
  <2>2. CASE i # m + 1
    <3>1. i \in 1..m
      BY <1>11, <2>2
    <3> QED
      BY <1>10, <1>11, <1>13, <3>1
  <2> QED
    BY <2>1, <2>2
<1>16. {x \in 1..j + 1 : \A l \in 1..m + 1 : g[l] # x}
         = {x \in 1..j : \A l \in 1..m : h[l] # x}
  <2>1. ASSUME NEW x \in 1..j + 1, \A l \in 1..m + 1 : g[l] # x
        PROVE  x \in 1..j /\ \A l \in 1..m : h[l] # x
    <3>1. m + 1 \in 1..m + 1 /\ \A l \in 1..m : l \in 1..m + 1
      BY <1>11
    <3>2. x # j + 1
      BY <1>13, <2>1, <3>1
    <3> QED
      BY <1>9, <1>13, <2>1, <3>1, <3>2
  <2>2. ASSUME NEW x \in 1..j, \A l \in 1..m : h[l] # x
        PROVE  x \in 1..j + 1 /\ \A l \in 1..m + 1 : g[l] # x
    <3>1. x \in 1..j + 1 /\ x # j + 1
      BY <1>9
    <3>2. \A l \in 1..m + 1 : l \in 1..m \/ l = m + 1
      BY <1>11
    <3> QED
      BY <1>13, <2>2, <3>1, <3>2
  <2> QED
    BY <2>1, <2>2
<1>17. Len(Tail(call.rest)) = Len(order) - (j + 1)
  BY <1>3, <1>4, <1>9
<1>18. ASSUME NEW i \in 1..Len(Tail(call.rest)) PROVE Tail(call.rest)[i] = order[(j + 1) + i]
  <2>1. i \in Nat /\ 1 <= i /\ i <= Len(call.rest) - 1
    BY <1>4
  <2>2. i + 1 \in 1..Len(call.rest) /\ j + (i + 1) = (j + 1) + i
    BY <1>4, <1>9, <2>1
  <2> QED
    BY <1>3, <1>4, <2>2
<1>19. Limit' = Limit
  BY <1>7 DEF Limit
<1>20. VisitedTo(order, j + 1, g)'
  <2>1. order \in Ranked(call'.score, Limit') /\ j + 1 \in 0..Len(order)
    BY <1>7, <1>9, <1>10, <1>19
  <2>2. /\ IsSeq(call'.rest) /\ Len(call'.rest) = Len(order) - (j + 1)
        /\ \A i \in 1..Len(call'.rest) : call'.rest[i] = order[(j + 1) + i]
    BY <1>4, <1>7, <1>17, <1>18
  <2>3. /\ IsSeq(call'.results) /\ g \in [1..Len(call'.results) -> 1..j + 1]
        /\ \A a, b \in 1..Len(call'.results) : a < b => g[a] < g[b]
    BY <1>7, <1>11, <1>13, <1>14
  <2>4. \A i \in 1..Len(call'.results) : call'.results[i].note = order[g[i]]
    BY <1>7, <1>11, <1>15
  <2>5. call'.skipped = {order[i] : i \in {x \in 1..j + 1 : \A l \in 1..m + 1 : g[l] # x}}
    BY <1>7, <1>10, <1>16
  <2>6. m + 1 = Len(call'.results)
    BY <1>7, <1>11
  <2>7. call'.skipped =
          {order[i] : i \in {x \in 1..j + 1 : \A l \in 1..Len(call'.results) : g[l] # x}}
    BY <2>5, <2>6
  <2> QED
    BY <2>1, <2>2, <2>3, <2>4, <2>7 DEF VisitedTo
<1>21. \E o, i, f : VisitedTo(o, i, f)'
  BY <1>20
<1>22. Visit'
  BY <1>1, <1>7, <1>8, <1>21 DEF Visit
<1>23. SearchAnswers'
  BY <1>7 DEF SearchAnswers, Ended
<1> QED
  BY <1>1, <1>7, <1>22, <1>23 DEF SearchInv, Quiet, Tools, Asked, Visiting

\* What is left of a page: the first k of those that are in the set, in order.
Shows(g, t, s, k, S) ==
    /\ IsSeq(t) /\ Len(t) <= k
    /\ \A i \in 1..Len(t) : g[i] \in 1..Len(s) /\ t[i] = s[g[i]]
    /\ \A i, j \in 1..Len(t) : i < j => g[i] < g[j]
    /\ \A l \in 1..Len(s) : s[l] \in S =>
          \/ \E i \in 1..Len(t) : g[i] = l
          \/ Len(t) = k /\ \A i \in 1..Len(t) : g[i] < l
    /\ Len(s) = k /\ (\A l \in 1..Len(s) : s[l] \in S) => Len(t) = k

\* A page of what passes shows it (search_semantic_daemon).
LEMMA PageIs ==
    ASSUME NEW s, IsSeq(s), NEW S, NEW k \in Nat
    PROVE  \E g : Shows(g, Page(Within(s, S), k), s, k, S)
<1> DEFINE p == Within(s, S)
           t == Page(p, k)
           L == Len(s)
           n == Len(p)
           m == Len(t)
<1>1. IsSeq(p) /\ \E h : Picks(h, p, s, L, S)
  BY WithinIs
<1>2. PICK g : Picks(g, p, s, L, S)
  BY <1>1
<1>3. n \in Nat /\ L \in Nat
  BY <1>1, IsSeqLen
<1> DEFINE e == Min({k, n})
<1>4. e = IF k <= n THEN k ELSE n
  BY <1>3, MinOfTwo
<1>5. e \in Nat /\ e <= k /\ e <= n /\ (e = k \/ e = n)
  BY <1>3, <1>4
<1>6. t = SubSeq(p, 1, e)
  BY DEF Page
<1> HIDE DEF e, p, t
<1>7. \A a \in Nat \ {0}, b \in Int : b <= n =>
        /\ IsSeq(SubSeq(p, a, b)) /\ Len(SubSeq(p, a, b)) = IF a <= b THEN b - a + 1 ELSE 0
        /\ \A i \in 1..Len(SubSeq(p, a, b)) : SubSeq(p, a, b)[i] = p[a + i - 1]
  BY <1>1, SubSeqIs
<1>8. /\ IsSeq(SubSeq(p, 1, e)) /\ Len(SubSeq(p, 1, e)) = IF 1 <= e THEN e - 1 + 1 ELSE 0
      /\ \A i \in 1..Len(SubSeq(p, 1, e)) : SubSeq(p, 1, e)[i] = p[1 + i - 1]
  BY <1>5, <1>7
<1>9. IsSeq(t) /\ m = e /\ \A i \in 1..e : t[i] = p[i]
  <2>1. Len(SubSeq(p, 1, e)) = e
    BY <1>5, <1>8
  <2>2. \A i \in 1..e : 1 + i - 1 = i
    BY <1>5
  <2> QED
    BY <1>6, <1>8, <2>1, <2>2
<1>10. /\ \A i \in 1..n : g[i] \in 1..L /\ p[i] = s[g[i]]
       /\ \A i, j \in 1..n : i < j => g[i] < g[j]
       /\ \A l \in 1..L : s[l] \in S => \E i \in 1..n : g[i] = l
  BY <1>2 DEF Picks
<1> HIDE DEF n, m, L
<1>11. \A i \in 1..e : i \in 1..n
  BY <1>3, <1>5
<1>12. ASSUME NEW l \in 1..L, s[l] \in S
       PROVE  (\E i \in 1..e : g[i] = l) \/ (e = k /\ \A i \in 1..e : g[i] < l)
  <2>1. PICK i \in 1..n : g[i] = l
    BY <1>10, <1>12
  <2>2. CASE i <= e
    <3>1. i \in 1..e
      BY <1>3, <1>5, <2>2
    <3> QED
      BY <2>1, <3>1
  <2>3. CASE ~(i <= e)
    <3>1. e = k
      BY <1>3, <1>5, <2>3
    <3>2. \A a \in 1..e : a \in 1..n /\ a < i
      BY <1>3, <1>5, <2>3
    <3> QED
      BY <1>10, <2>1, <3>1, <3>2
  <2> QED
    BY <2>2, <2>3
<1>13. ASSUME L = k, \A l \in 1..L : s[l] \in S PROVE e = k
  <2> DEFINE f == [i \in 1..n |-> g[i]]
  <2>1. f \in [1..n -> 1..L]
    BY <1>10
  <2>2. \A i, j \in 1..n : f[i] = f[j] => i = j
    <3>1. \A i, j \in 1..n : g[i] \in Int /\ (i < j \/ j < i \/ i = j)
      BY <1>3, <1>10
    <3> QED
      BY <1>10, <3>1
  <2>3. \A l \in 1..L : \E i \in 1..n : f[i] = l
    BY <1>10, <1>13
  <2> HIDE DEF f
  <2>4. f \in Bijection(1..n, 1..L)
    BY <2>1, <2>2, <2>3 DEF Bijection, Injection, Surjection, IsInjective
  <2>5. ExistsBijection(1..n, 1..L)
    BY <2>4 DEF ExistsBijection
  <2>6. /\ IsFiniteSet(1..n) /\ Cardinality(1..n) = n
        /\ IsFiniteSet(1..L) /\ Cardinality(1..L) = L
    BY <1>3, FS_Interval
  <2>7. n = L
    BY <2>5, <2>6, FS_Bijection
  <2> QED
    BY <1>5, <1>13, <2>7
<1>14. Shows(g, t, s, k, S)
  BY <1>5, <1>9, <1>10, <1>11, <1>12, <1>13 DEF Shows, L, m
<1> QED
  BY <1>14 DEF t, p

\* What the answer leaves out was crowded out by better notes, or more were skipped
\* than the candidates make up for.
LEMMA AnswerKeeps ==
    ASSUME TextsInv, SearchInv, Quiet, Answer
    PROVE  SearchInv'
<1> DEFINE res == call.results
           k == call.req.k
           L == Len(res)
           P == Passed
           gone == {r.note : r \in Range(res) \ P}
<1>1. /\ call.at = "visiting" /\ Began /\ Visiting /\ call.req.scope \in DOMAIN Scope
      /\ call.err = "none" /\ call.req \in Setups[setup].requests /\ Visit
      /\ (call.rest = <<>> \/ Full) /\ k \in Nat /\ call.at # "idle"
  BY RequestsAre DEF Answer, Began, Visiting, SearchInv, Tools, Asked
<1>2. PICK order, j, h : VisitedTo(order, j, h)
  BY <1>1 DEF Visit
<1>3. /\ order \in Ranked(call.score, Limit) /\ j \in 0..Len(order)
      /\ IsSeq(call.rest) /\ Len(call.rest) = Len(order) - j
      /\ IsSeq(res) /\ h \in [1..L -> 1..j]
      /\ \A a, b \in 1..L : a < b => h[a] < h[b]
      /\ \A i \in 1..L : res[i].note = order[h[i]]
      /\ call.skipped = {order[i] : i \in {x \in 1..j : \A l \in 1..L : h[l] # x}}
  BY <1>2 DEF VisitedTo
<1>4. call' = [call EXCEPT !.at = "answered", !.results = Page(Within(@, P), k),
                           !.skipped = @ \cup gone]
  BY DEF Answer
<1>5. \E f : Shows(f, Page(Within(res, P), k), res, k, P)
  BY <1>1, <1>3, PageIs
<1>6. PICK t : t = Page(Within(res, P), k)
  OBVIOUS
<1>7. PICK g : Shows(g, t, res, k, P)
  BY <1>5, <1>6
<1> DEFINE m == Len(t)
<1>8. /\ IsCall' /\ call'.at = "answered" /\ call'.req = call.req /\ call'.err = call.err
      /\ call'.score = call.score /\ call'.results = t
      /\ call'.skipped = call.skipped \cup gone /\ call'.touched = call.touched
  BY <1>4, <1>6 DEF SearchInv, IsCall
<1>9. Wanted' \subseteq Wanted
  BY <1>1, <1>8, SameWanted DEF SearchOnly, Quiet
<1>10. Limit \in Nat
  BY <1>1, RequestsAre
<1>11. /\ Wanted \subseteq DOMAIN call.score /\ Wanted \cap call.skipped = {}
       /\ DOMAIN call.score \subseteq Scope[call.req.scope]
       /\ call.req.tool = "related" => call.req.q \notin DOMAIN call.score
  BY <1>1 DEF Visit
<1>12. IsFiniteSet(DOMAIN call.score)
  <2>1. DOMAIN call.score \in SUBSET Notes
    BY <1>1, <1>11, ScopeAssumption
  <2> QED
    BY <2>1, NotesAssumption, FS_Subset
<1>13. /\ IsSeq(order) /\ Len(order) <= Limit /\ Len(order) \in Nat
       /\ \A i \in 1..Len(order) : order[i] \in DOMAIN call.score
       /\ \A a, b \in 1..Len(order) : order[a] = order[b] => a = b
       /\ \A a, b \in 1..Len(order) : a < b => call.score[order[b]] <= call.score[order[a]]
       /\ \A n \in DOMAIN call.score : (\A i \in 1..Len(order) : order[i] # n) =>
             /\ Len(order) = Limit
             /\ \A i \in 1..Len(order) : call.score[n] <= call.score[order[i]]
  BY <1>3, <1>10, <1>12, RankedIs, IsSeqLen
<1>14. /\ \A r \in Range(res) : Passes(r) <=> r \in P
       /\ \A i \in 1..L : res[i] \in Range(res)
       /\ \A r \in Range(res) : \E i \in 1..L : r = res[i]
       /\ L \in Nat
  BY <1>3, IsSeqLen DEF Passed
<1>15. /\ IsSeq(t) /\ m \in Nat /\ m <= k /\ DOMAIN t = 1..m
       /\ \A x \in Range(t) : \E i \in 1..m : x = t[i]
       /\ \A i \in 1..m : t[i] \in Range(t)
       /\ \A i \in 1..m : g[i] \in 1..L /\ t[i] = res[g[i]]
       /\ \A a, b \in 1..m : a < b => g[a] < g[b]
       /\ \A l \in 1..L : res[l] \in P =>
             \/ \E i \in 1..m : g[i] = l
             \/ m = k /\ \A i \in 1..m : g[i] < l
       /\ L = k /\ (\A l \in 1..L : res[l] \in P) => m = k
  BY <1>7, IsSeqLen DEF Shows
<1> DEFINE w == [i \in 1..m |-> h[g[i]]]
           A == {t[i].note : i \in 1..m}
           score == call.score
<1>16. Answers' = A
  <2>1. Answers' = {r.note : r \in Range(t)}
    BY <1>8 DEF Answers
  <2> HIDE DEF m
  <2> QED
    BY <1>15, <2>1
<1>17. Full => Local /\ L = k
  BY DEF Full
<1>18. \A n \in Wanted : known[n] # Gone /\ disk[n] # Gone
  BY DEF Wanted, Steady
<1>19. \A r : r.note \in Wanted \/ Local => Passes(r)
  BY <1>18 DEF Passes
<1> HIDE DEF P, L, m, k, res, gone, w, A, score
<1>20. j \in Nat /\ j <= Len(order)
  BY <1>3, <1>13
<1>21. \A i \in 1..j : i \in 1..Len(order)
  BY <1>13, <1>20
<1>22. \A i \in 1..m : w[i] \in 1..j /\ w[i] \in 1..Len(order) /\ t[i].note = order[w[i]]
                       /\ w[i] = h[g[i]]
  BY <1>3, <1>15, <1>21 DEF w
<1>23. \A a, b \in 1..m : a < b => w[a] < w[b]
  BY <1>3, <1>15, <1>22
<1>24. IsFiniteSet(A) /\ Cardinality(A) = m
  <2> DEFINE f == [i \in 1..m |-> t[i].note]
  <2>1. IsSeq(f) /\ Len(f) = m
    BY <1>15, FunIsSeq
  <2>2. ASSUME NEW a \in 1..m, NEW b \in 1..m, f[a] = f[b] PROVE a = b
    <3>1. order[w[a]] = order[w[b]]
      BY <1>22, <2>2
    <3>2. w[a] = w[b] /\ w[a] \in Int
      BY <1>13, <1>22, <3>1
    <3>3. ~(a < b) /\ ~(b < a)
      BY <1>23, <3>2
    <3>4. a \in Int /\ b \in Int
      BY <1>15
    <3> QED
      BY <3>3, <3>4
  <2>3. Range(f) = A
    BY DEF Range, A
  <2> HIDE DEF f
  <2> QED
    BY <2>1, <2>2, <2>3, CountIs
<1>25. \A n \in A : \E i \in 1..m : n = order[w[i]]
  BY <1>22 DEF A
<1>26. \A i \in 1..m : order[w[i]] \in A
  BY <1>22 DEF A
<1>27. A \subseteq DOMAIN call.score
  BY <1>13, <1>22, <1>25
<1>28. ASSUME NEW a \in 1..m, NEW b \in 1..m, a < b
       PROVE  call.score[t[b].note] <= call.score[t[a].note]
  BY <1>13, <1>22, <1>23, <1>28
<1>29. Spare' = Spare
  BY <1>8 DEF Spare
<1>30. Full => m = k
  BY <1>14, <1>15, <1>17, <1>19 DEF P
<1>31. ASSUME NEW x \in 1..Len(order), m = k, \A i \in 1..m : w[i] < x, NEW n, n = order[x]
       PROVE  m = k /\ \A a \in A : call.score[n] <= call.score[a]
  BY <1>13, <1>22, <1>25, <1>31
<1>32. ASSUME NEW n \in Wanted, n \notin A
       PROVE  \/ m = k /\ \A a \in A : call.score[n] <= call.score[a]
              \/ Cardinality(call.skipped \cup gone) > Spare
  <2>1. CASE \E x \in 1..Len(order) : order[x] = n
    <3>1. PICK x \in 1..Len(order) : order[x] = n
      BY <2>1
    <3>2. x \in Nat /\ 1 <= x
      BY <1>13
    <3>3. CASE x <= j
      <4>1. x \in 1..j
        BY <1>20, <3>2, <3>3
      <4>2. n \notin call.skipped
        BY <1>11, <1>32
      <4>3. PICK l \in 1..L : h[l] = x
        BY <1>3, <3>1, <4>1, <4>2
      <4>4. res[l].note = n
        BY <1>3, <3>1, <4>3
      <4>5. res[l] \in P
        BY <1>14, <1>19, <1>32, <4>4
      <4>6. ~ \E i \in 1..m : g[i] = l
        BY <1>22, <1>26, <1>32, <3>1, <4>3
      <4>7. m = k /\ \A i \in 1..m : g[i] < l
        BY <1>15, <4>5, <4>6
      <4>8. \A i \in 1..m : w[i] < x
        BY <1>3, <1>15, <1>22, <4>3, <4>7
      <4> QED
        BY <1>31, <3>1, <4>7, <4>8
    <3>4. CASE ~(x <= j)
      <4>1. Len(call.rest) > 0
        BY <1>3, <1>13, <1>20, <3>2, <3>4
      <4>2. m = k
        BY <1>1, <1>3, <1>30, <4>1, IsSeqLen
      <4>3. \A i \in 1..m : w[i] < x
        BY <1>20, <1>22, <3>2, <3>4
      <4> QED
        BY <1>31, <3>1, <4>2, <4>3
    <3> QED
      BY <3>3, <3>4
  <2>2. CASE ~ \E x \in 1..Len(order) : order[x] = n
    <3>1. Len(order) = Limit /\ \A i \in 1..Len(order) : call.score[n] <= call.score[order[i]]
      BY <1>11, <1>13, <1>32, <2>2
    <3>2. CASE m = k
      BY <1>22, <1>25, <3>1, <3>2
    <3>3. CASE m # k
      <4>1. j = Limit
        <5>1. call.rest = <<>>
          BY <1>1, <1>30, <3>3
        <5>2. Len(order) - j = 0
          BY <1>3, <5>1, TuplesAre
        <5> QED
          BY <1>13, <1>20, <3>1, <5>2
      <4> DEFINE D == call.skipped \cup gone
      <4>2. ASSUME NEW i \in 1..j PROVE order[i] \in D \cup A
        <5>1. CASE \A l \in 1..L : h[l] # i
          BY <1>3, <5>1
        <5>2. CASE \E l \in 1..L : h[l] = i
          <6>1. PICK l \in 1..L : h[l] = i
            BY <5>2
          <6>2. res[l].note = order[i] /\ res[l] \in Range(res)
            BY <1>3, <1>14, <6>1
          <6>3. CASE res[l] \in P
            <7>1. PICK a \in 1..m : g[a] = l
              BY <1>15, <3>3, <6>3
            <7> QED
              BY <1>22, <1>26, <6>1, <7>1
          <6>4. CASE res[l] \notin P
            BY <6>2, <6>4 DEF gone
          <6> QED
            BY <6>3, <6>4
        <5> QED
          BY <5>1, <5>2
      <4>3. Range(order) \subseteq D \cup A
        BY <1>3, <1>13, <3>1, <4>1, <4>2, IsSeqLen
      <4>4. D \subseteq DOMAIN call.score
        <5>1. call.skipped \subseteq DOMAIN call.score
          BY <1>3, <1>13, <1>21
        <5>2. ASSUME NEW r \in Range(res) PROVE r.note \in DOMAIN call.score
          <6>1. PICK i \in 1..L : r = res[i]
            BY <1>14
          <6> QED
            BY <1>3, <1>13, <1>21, <6>1
        <5> QED
          BY <5>1, <5>2 DEF gone
      <4> HIDE DEF D
      <4>5. IsFiniteSet(D)
        BY <1>12, <4>4, FS_Subset
      <4>6. IsFiniteSet(Range(order)) /\ Cardinality(Range(order)) = Limit
        BY <1>13, <3>1, CountIs
      <4>7. /\ IsFiniteSet(D \cup A)
            /\ Cardinality(D \cup A) = Cardinality(D) + Cardinality(A) - Cardinality(D \cap A)
        BY <1>24, <4>5, FS_Union
      <4>8. IsFiniteSet(D \cap A)
        BY <1>24, FS_Subset
      <4>9. /\ Cardinality(D \cup A) \in Nat /\ Cardinality(D) \in Nat
            /\ Cardinality(D \cap A) \in Nat
        BY <4>5, <4>7, <4>8, FS_CardinalityType
      <4>10. Limit <= Cardinality(D \cup A)
        BY <4>3, <4>6, <4>7, FS_Subset
      <4>11. Cardinality(D) >= Limit - m
        BY <1>10, <1>15, <1>24, <4>7, <4>9, <4>10
      <4>12. m < k /\ k > 0 /\ k \in Nat
        BY <1>1, <1>15, <3>3 DEF k
      <4>13. Spare \in Int /\ Limit >= k + Spare
        <5>1. CASE call.req.tool \in {"text", "related"}
          BY <4>12, <5>1 DEF Spare, Limit, k
        <5>2. CASE ~(call.req.tool \in {"text", "related"})
          <6>1. Limit = CandidateLimit(k) /\ Spare = Min({OverfetchExtra, MaxResultsCap - k})
            BY <5>2 DEF Limit, Spare, k
          <6> QED
            BY <4>12, <6>1, CandidatesAre
        <5> QED
          BY <5>1, <5>2
      <4>14. Cardinality(D) > Spare
        BY <1>10, <1>15, <4>9, <4>11, <4>12, <4>13
      <4> QED
        BY <4>14 DEF D
    <3> QED
      BY <3>2, <3>3
  <2> QED
    BY <2>1, <2>2
<1>33. \A n \in Wanted' \ A : Earned(n)'
  <2> SUFFICES ASSUME NEW n \in Wanted', n \notin A PROVE Earned(n)'
    OBVIOUS
  <2>1. n \in Wanted /\ n \in DOMAIN call.score
    BY <1>9, <1>11
  <2>2. \/ m = k /\ \A a \in A : call.score[n] <= call.score[a]
        \/ Cardinality(call.skipped \cup gone) > Spare
    BY <1>32, <2>1
  <2> QED
    BY <1>8, <1>16, <1>29, <2>1, <2>2 DEF Earned, m, k
<1>34. SearchAnswers'
  <2>1. Cardinality(Answers') = Len(call'.results) /\ Len(call'.results) <= call'.req.k
    BY <1>8, <1>15, <1>16, <1>24 DEF m, k
  <2>2. Answers' \subseteq Scope[call'.req.scope]
    BY <1>8, <1>11, <1>16, <1>27
  <2>3. call'.req.tool = "related" => call'.req.q \notin Answers'
    BY <1>8, <1>11, <1>16, <1>27
  <2>4. \A a, b \in DOMAIN call'.results :
           a < b => call'.score[call'.results[b].note] <= call'.score[call'.results[a].note]
    BY <1>8, <1>15, <1>28
  <2>5. \A n \in Wanted' \ Answers' : Earned(n)'
    BY <1>16, <1>33
  <2> QED
    BY <2>1, <2>2, <2>3, <2>4, <2>5 DEF SearchAnswers
<1> QED
  BY <1>1, <1>8, <1>34 DEF SearchInv, Quiet, Tools, Asked, Visiting

\* Before the first search, and after a restart, there is none.
LEMMA NoSearch == ASSUME call = Idle PROVE SearchInv
<1>1. IsCall /\ call.at = "idle" /\ call.err = "none" /\ call.results = <<>> /\ call.skipped = {}
  BY DEF Idle, IsCall
<1>2. ~Began /\ ~Visiting /\ SearchAnswers
  BY <1>1 DEF Began, Visiting, Ended, SearchAnswers
<1> QED
  BY <1>1, <1>2 DEF SearchInv, Tools, Asked

\* Every step keeps what a search may answer.
LEMMA SearchNext == TextsInv /\ SearchInv /\ [Next]_vars => SearchInv'
<1> SUFFICES ASSUME TextsInv, SearchInv, [Next]_vars PROVE SearchInv'
  OBVIOUS
<1>1. ASSUME NEW req \in Setups[setup].requests, Ask(req) PROVE SearchInv'
  BY <1>1, AskKeeps
<1>2. CASE SearchStep
  <2>1. Quiet
    BY <1>2 DEF SearchStep
  <2>2. \/ Scoped \/ Prefetched \/ AskVector \/ RankHits \/ ScoreHit \/ Scored \/ Blend
        \/ Related \/ Linked \/ Relate \/ Text \/ Look \/ Read \/ Answer
    BY <1>2 DEF SearchStep
  <2> QED
    BY <2>1, <2>2, ScopedKeeps, PrefetchedKeeps, AskVectorKeeps, RankHitsKeeps, ScoreHitKeeps,
       ScoredKeeps, BlendKeeps, RelatedKeeps, RelateKeeps, TextKeeps, LookKeeps, ReadKeeps,
       AnswerKeeps
<1>3. ASSUME NEW env \in Setups[setup].envs, Restart(env) PROVE SearchInv'
  <2>1. call' = Idle
    BY <1>3 DEF Restart
  <2>2. /\ IsCall' /\ call'.at = "idle" /\ call'.err = "none"
        /\ call'.results = <<>> /\ call'.skipped = {}
    BY <2>1 DEF Idle, IsCall
  <2>3. ~Began' /\ ~Visiting' /\ SearchAnswers'
    BY <2>2 DEF Began, Visiting, Ended, SearchAnswers
  <2> QED
    BY <2>2, <2>3 DEF SearchInv, Tools, Asked
<1>4. ASSUME \/ \E n \in Notes : \/ \E text \in Setups[setup].texts : Edit(n, text)
                                 \/ Follow(n) \/ Hear(n) \/ Drop(n) \/ Prepare(n)
             \/ Submit \/ Commit \/ (\E c \in Callers : Others(c)) \/ Serving
             \/ UNCHANGED vars
      PROVE  SearchInv'
  BY <1>4, OthersElsewhere, ElsewhereKeeps
<1> QED
  BY <1>1, <1>2, <1>3, <1>4 DEF Next

\* Whatever changes while a search runs, in whatever order, its answer has each
\* note once, none outside of the scope, the best first, and lacks a note that
\* nothing has changed only for want of room (search_semantic,
\* search_hybrid_scoped, related_notes, search_text).
THEOREM SearchAnswered == Spec => []SearchAnswers
<1>1. Init => SearchInv
  BY NoSearch DEF Init
<1>2. SearchInv => SearchAnswers
  BY DEF SearchInv
<1>3. TextsInv /\ SearchInv /\ [Next]_vars => SearchInv'
  BY SearchNext
<1>4. Spec => []TextsInv
  BY Texts
<1>5. Spec => []SearchInv
  BY <1>1, <1>3, <1>4, PTL DEF Spec
<1> QED
  BY <1>2, <1>5, PTL

--------------------------------------------------------------------------------
(* The vectors: whose they are.                                                *)

\* A restart keeps the way in which sections are packed, which no hash tells.
KeepsPacking == \A s \in DOMAIN Setups : Setups[s].restarts > 0 =>
                    \A d, e \in Setups[s].envs : d.packing = e.packing

Embedded(body, c) ==
    [i \in DOMAIN chunk_note(body, c) |-> EmbedText(chunk_note(body, c)[i])]

\* Vectors are those of the chunks of the text that their hash names, as some
\* process that packs like this one cuts it.
IsEntry(entry) ==
    /\ entry.hash.body # Gone
    /\ \E c \in Configs : /\ c.packing = config.packing
                          /\ entry.hash = Hash(entry.hash.body, c)
                          /\ entry.chunks = Embedded(entry.hash.body, c)

\* The note that is being embedded, in this process.
IsJob ==
    /\ IsSeq(job.hash.body) /\ job.hash.body # Gone
    /\ job.hash = HashOf(job.hash.body)
    /\ job.texts = TextsOf(job.of, chunk_note(job.hash.body, config), job.hash.body)

\* Its request is in one place at most, and what comes back is of its texts.
ByJob(r) == r.by = Job
Pending  == job # NoJob /\ reply[Job] = Waiting
JobInv ==
    /\ job # NoJob => IsJob
    /\ DOMAIN reply = Callers /\ DOMAIN worker = Workers /\ IsSeq(queue)
    /\ \A i \in 1..Len(queue) : /\ DOMAIN queue[i] = {"by", "texts", "attempt"}
                                /\ ByJob(queue[i]) => Pending /\ queue[i].texts = job.texts
    /\ \A x \in Workers : /\ DOMAIN worker[x] = {"by", "texts", "attempt"}
                          /\ ByJob(worker[x]) => Pending /\ worker[x].texts = job.texts
    /\ \A i, l \in 1..Len(queue) : ByJob(queue[i]) /\ ByJob(queue[l]) => i = l
    /\ \A x, y \in Workers : ByJob(worker[x]) /\ ByJob(worker[y]) => x = y
    /\ \A i \in 1..Len(queue), x \in Workers : ~(ByJob(queue[i]) /\ ByJob(worker[x]))
    /\ reply[Job] \in {Silence, Waiting, Failed, Vectors(job.texts)}
    /\ reply[Job] # Silence => job # NoJob

\* A result that shows a passage is of a note that had vectors, as those still
\* to visit are.
PassageInv ==
    /\ restarts \in Nat /\ DOMAIN store = Notes
    /\ \A n \in Notes : store[n] # NoVectors => IsEntry(store[n])
    /\ Visiting /\ call.req.tool \in {"semantic", "related"} =>
          \A i \in 1..Len(call.rest) : IsEntry(call.was[call.rest[i]])
    /\ Visiting \/ Ended =>
          \A r \in Range(call.results) : r.chunk > 0 =>
              IsEntry(call.was[r.note]) /\ r.chunk \in DOMAIN call.was[r.note].chunks

\* Where every item has an index, each number up to the last once, the vectors are
\* put in the order of the texts.
LEMMA ByIndexIs ==
    ASSUME NEW texts, IsSeq(texts), NEW data, IsSeq(data), Len(data) = Len(texts),
           {data[i].index : i \in DOMAIN data} = 0..Len(texts) - 1,
           \A i \in 1..Len(data) : data[i].vector = texts[data[i].index + 1]
    PROVE  ByIndex(data) = Vectors(texts)
<1> DEFINE n == Len(texts)
<1>1. n \in Nat /\ DOMAIN data = 1..n /\ DOMAIN texts = 1..n
  BY IsSeqLen
<1> DEFINE f == [k \in DOMAIN data |->
                   data[CHOOSE i \in DOMAIN data : data[i].index = k - 1].vector]
<1> HIDE DEF n
<1>2. ASSUME NEW k \in 1..n PROVE f[k] = texts[k]
  <2>1. k - 1 \in 0..n - 1
    BY <1>1
  <2>2. \E i \in DOMAIN data : data[i].index = k - 1
    BY <2>1 DEF n
  <2> DEFINE x == CHOOSE i \in DOMAIN data : data[i].index = k - 1
  <2>3. x \in DOMAIN data /\ data[x].index = k - 1
    BY <2>2
  <2>4. f[k] = data[x].vector
    BY <1>1
  <2> HIDE DEF x, f
  <2>5. data[x].vector = texts[(k - 1) + 1] /\ (k - 1) + 1 = k
    BY <1>1, <2>3 DEF n
  <2> QED
    BY <2>4, <2>5
<1>3. texts = [k \in 1..n |-> texts[k]]
  BY <1>1 DEF IsSeq
<1>4. f = [k \in 1..n |-> f[k]]
  BY <1>1
<1>5. ByIndex(data) = Vectors(f)
  BY DEF ByIndex
<1> HIDE DEF f
<1>6. f = texts
  BY <1>2, <1>3, <1>4
<1> QED
  BY <1>5, <1>6

\* Whatever the layout of an answer, it fails or gives each text its own vector
\* (parse_response).
LEMMA ParseIs ==
    ASSUME NEW texts, IsSeq(texts), texts # <<>>, NEW shape
    PROVE  ParseResponse(Data(texts, shape), Len(texts)) \in {Failed, Vectors(texts)}
<1> DEFINE n == Len(texts)
           data == Data(texts, shape)
<1>1. n \in Nat /\ n > 0 /\ DOMAIN texts = 1..n
  BY IsSeqLen
<1>2. texts = [i \in 1..n |-> texts[i]]
  BY <1>1 DEF IsSeq
<1> HIDE DEF n
<1>3. CASE shape = "short"
  <2>1. data = [i \in 1..n - 1 |-> Item(NoIndex, texts[i])]
    BY <1>3 DEF Data, n
  <2> HIDE DEF data
  <2>2. n - 1 \in Nat /\ data = [i \in 1..n - 1 |-> data[i]]
    BY <1>1, <2>1
  <2>3. Len(data) = n - 1
    BY <2>2, FunIsSeq
  <2>4. Len(data) # n
    BY <1>1, <2>3
  <2> QED
    BY <2>4 DEF ParseResponse, n, data
<1>4. CASE shape # "short"
  <2> DEFINE at(i) ==
        CASE shape = "plain"    -> Item(NoIndex, texts[i])
          [] shape = "reversed" -> Item(n - i, texts[n + 1 - i])
          [] shape = "mixed"    -> Item(IF i = n THEN i - 1 ELSE NoIndex, texts[i])
          [] shape = "repeated" -> Item(0, texts[i])
          [] OTHER              -> Item(i, texts[i])
  <2>1. data = [i \in 1..n |-> at(i)]
    <3>1. CASE shape = "plain"
      BY <1>1, <3>1 DEF Data, n
    <3>2. CASE shape = "reversed"
      BY <1>1, <3>2 DEF Data, n
    <3>3. CASE shape = "mixed"
      BY <1>1, <3>3 DEF Data, n
    <3>4. CASE shape = "repeated"
      BY <1>1, <3>4 DEF Data, n
    <3>5. CASE shape \notin {"plain", "reversed", "mixed", "repeated", "short"}
      BY <1>1, <3>5 DEF Data, n
    <3> QED
      BY <1>4, <3>1, <3>2, <3>3, <3>4, <3>5
  <2>2. \A i \in 1..n : data[i] = at(i)
    BY <2>1
  <2> HIDE DEF data
  <2>3. data = [i \in 1..n |-> data[i]]
    BY <2>1
  <2>4. IsSeq(data) /\ Len(data) = n /\ DOMAIN data = 1..n
    BY <1>1, <2>3, FunIsSeq, IsSeqLen
  <2>5. 1 \in 1..n /\ n \in 1..n
    BY <1>1
  <2>6. SUFFICES ASSUME ~Mixed(data) PROVE ParseResponse(data, n) \in {Failed, Vectors(texts)}
    BY DEF ParseResponse, n, data
  <2>7. \A i \in 1..n : (data[i].index = NoIndex) <=> (data[1].index = NoIndex)
    BY <2>4, <2>6 DEF Mixed
  <2>8. \A i \in 1..n : \/ shape = "plain" /\ data[i] = Item(NoIndex, texts[i])
                        \/ shape = "reversed" /\ data[i] = Item(n - i, texts[n + 1 - i])
                        \/ /\ shape = "mixed"
                           /\ data[i] = Item(IF i = n THEN i - 1 ELSE NoIndex, texts[i])
                        \/ shape = "repeated" /\ data[i] = Item(0, texts[i])
                        \/ shape \notin {"plain", "reversed", "mixed", "repeated"}
                              /\ data[i] = Item(i, texts[i])
    BY <2>2
  <2> HIDE DEF at
  <2>9. \A x, v : Item(x, v).index = x /\ Item(x, v).vector = v
    BY DEF Item
  <2>10. CASE ~Indexed(data)
    <3>1. data[1].index = NoIndex
      BY <1>1, <2>4, <2>10, TuplesAre DEF Indexed
    <3>2. \A i \in 1..n : data[i].vector = texts[i]
      <4> SUFFICES ASSUME NEW i \in 1..n PROVE data[i].vector = texts[i]
        OBVIOUS
      <4>1. data[i].index = NoIndex /\ i \in Nat /\ n - i \in Nat
        BY <1>1, <2>7, <3>1
      <4> QED
        BY <2>8, <2>9, <4>1, NoIndexAssumption
    <3>3. [i \in DOMAIN data |-> data[i].vector] = texts
      BY <1>2, <2>4, <3>2
    <3> QED
      BY <2>4, <2>10, <3>3 DEF ParseResponse, InOrder
  <2>11. CASE Indexed(data)
    <3> DEFINE indices == {data[i].index : i \in DOMAIN data}
    <3>1. SUFFICES ASSUME indices = 0..n - 1 PROVE ByIndex(data) = Vectors(texts)
      BY <2>4, <2>6, <2>11 DEF ParseResponse
    <3>2. \A i \in 1..n : data[i].index # NoIndex
      BY <2>7, <2>11 DEF Indexed
    <3>3. \A x \in 0..n - 1 : \E i \in 1..n : data[i].index = x
      BY <2>4, <3>1
    <3>4. ASSUME NEW i \in 1..n PROVE data[i].vector = texts[data[i].index + 1]
      <4>1. i \in Nat /\ 1 <= i /\ i <= n
        BY <1>1
      <4>2. CASE shape = "reversed"
        <5>1. data[i].index = n - i /\ data[i].vector = texts[n + 1 - i]
          BY <2>8, <2>9, <4>2
        <5>2. (n - i) + 1 = n + 1 - i
          BY <1>1, <4>1
        <5> QED
          BY <5>1, <5>2
      <4>3. CASE shape = "mixed"
        <5>1. data[i].index = (IF i = n THEN i - 1 ELSE NoIndex) /\ data[i].vector = texts[i]
          BY <2>8, <2>9, <4>3
        <5>2. data[i].index = i - 1 /\ (i - 1) + 1 = i
          BY <3>2, <4>1, <5>1
        <5> QED
          BY <5>1, <5>2
      <4>4. CASE shape = "repeated"
        <5>1. \A l \in 1..n : data[l].index = 0 /\ data[l].vector = texts[l]
          BY <2>8, <2>9, <4>4
        <5>2. n = 1
          <6>1. CASE n > 1
            <7>1. 1 \in 0..n - 1
              BY <1>1, <6>1
            <7> QED
              BY <3>3, <5>1, <7>1
          <6> QED
            BY <1>1, <6>1
        <5>3. i = 1
          BY <4>1, <5>2
        <5> QED
          BY <5>1, <5>3
      <4>5. CASE shape \notin {"plain", "reversed", "mixed", "repeated"}
        <5>1. \A l \in 1..n : data[l].index = l
          BY <2>8, <2>9, <4>5
        <5>2. 0 \in 0..n - 1 /\ \A l \in 1..n : l # 0
          BY <1>1
        <5> QED
          BY <3>3, <5>1, <5>2
      <4>6. CASE shape = "plain"
        BY <2>8, <2>9, <3>2, <4>6
      <4> QED
        BY <4>2, <4>3, <4>4, <4>5, <4>6
    <3> QED
      BY <2>4, <3>1, <3>4, ByIndexIs DEF n
  <2> QED
    BY <2>10, <2>11
<1> QED
  BY <1>3, <1>4

\* The texts of a note: the vectors of its chunks are all but the last.
LEMMA TextsAre ==
    ASSUME NEW chunks, IsSeq(chunks), NEW meta, NEW body
    PROVE  /\ IsSeq(TextsOf(meta, chunks, body)) /\ TextsOf(meta, chunks, body) # <<>>
           /\ Front(TextsOf(meta, chunks, body)) = [i \in DOMAIN chunks |-> EmbedText(chunks[i])]
<1> DEFINE n == Len(chunks)
           e == [i \in DOMAIN chunks |-> EmbedText(chunks[i])]
           s == Summary(meta, body)
           q == <<s>>
           t == TextsOf(meta, chunks, body)
<1>1. n \in Nat /\ DOMAIN chunks = 1..n
  BY IsSeqLen
<1>2. e = [i \in 1..n |-> e[i]]
  BY <1>1
<1>3. t = e \o q /\ IsSeq(q) /\ Len(q) = 1
  BY TuplesAre DEF TextsOf
<1> HIDE DEF n, s, t, e, q
<1>4. IsSeq(e) /\ Len(e) = n
  BY <1>1, <1>2, FunIsSeq
<1>5. IsSeq(t) /\ Len(t) = n + 1 /\ \A i \in 1..n : t[i] = e[i]
  <2>1. /\ IsSeq(e \o q) /\ Len(e \o q) = Len(e) + Len(q)
        /\ \A i \in 1..Len(e) : (e \o q)[i] = e[i]
    BY <1>3, <1>4, ConcatIs
  <2>2. /\ IsSeq(t) /\ Len(t) = Len(e) + Len(q)
        /\ \A i \in 1..Len(e) : t[i] = e[i]
    BY <1>3, <2>1
  <2> QED
    BY <1>3, <1>4, <2>2
<1>6. t # <<>> /\ n \in Int /\ n <= Len(t)
  BY <1>1, <1>5, IsSeqLen
<1>7. Front(t) = SubSeq(t, 1, n)
  <2>1. Len(t) - 1 = n
    BY <1>1, <1>5
  <2> QED
    BY <2>1 DEF Front
<1>8. \A a \in Nat \ {0}, b \in Int : b <= Len(t) =>
        /\ IsSeq(SubSeq(t, a, b)) /\ Len(SubSeq(t, a, b)) = IF a <= b THEN b - a + 1 ELSE 0
        /\ \A i \in 1..Len(SubSeq(t, a, b)) : SubSeq(t, a, b)[i] = t[a + i - 1]
  BY <1>5, SubSeqIs
<1>9. /\ IsSeq(SubSeq(t, 1, n)) /\ Len(SubSeq(t, 1, n)) = IF 1 <= n THEN n - 1 + 1 ELSE 0
      /\ \A i \in 1..Len(SubSeq(t, 1, n)) : SubSeq(t, 1, n)[i] = t[1 + i - 1]
  BY <1>6, <1>8
<1>10. Len(SubSeq(t, 1, n)) = n
  BY <1>1, <1>9
<1>11. ASSUME NEW i \in 1..n PROVE SubSeq(t, 1, n)[i] = e[i]
  <2>1. 1 + i - 1 = i
    BY <1>1
  <2> QED
    BY <1>5, <1>9, <1>10, <2>1
<1>12. SubSeq(t, 1, n) = e
  BY <1>4, <1>9, <1>10, <1>11, SeqEq
<1> QED
  BY <1>5, <1>6, <1>7, <1>12 DEF t, e

--------------------------------------------------------------------------------
(* The vectors: the request of the note that is being embedded.                *)

\* A caller puts its request in the queue (embed_batch).
LEMMA JobSends ==
    ASSUME JobInv, UNCHANGED <<job, config>>, NEW c \in Callers, NEW texts, Send(c, texts),
           c = Job => job # NoJob /\ texts = job.texts
    PROVE  JobInv'
<1> DEFINE n == Len(queue)
           r == Request(c, texts)
           u == Append(queue, r)
<1>1. DOMAIN r = {"by", "texts", "attempt"} /\ r.by = c /\ r.texts = texts
  BY DEF Request
<1> HIDE DEF r
<1>2. /\ reply[c] = Silence /\ queue' = u /\ reply' = [reply EXCEPT ![c] = Waiting]
      /\ worker' = worker /\ job' = job /\ config' = config
  BY DEF Send, r
<1>3. /\ IsSeq(queue) /\ n \in Nat /\ DOMAIN reply = Callers
      /\ IsSeq(u) /\ Len(u) = n + 1 /\ u[n + 1] = r
      /\ \A i \in 1..n : u[i] = queue[i]
  BY AppendIs, IsSeqLen DEF JobInv
<1>4. Silence # Waiting
  BY DEF Silence, Waiting
<1>5. IsJob' <=> IsJob
  BY <1>2 DEF IsJob, HashOf
<1> HIDE DEF u, n
<1>6. \A i \in 1..n + 1 : i \in 1..n \/ i = n + 1
  BY <1>3
<1>7. reply'[Job] = IF c = Job THEN Waiting ELSE reply[Job]
  BY <1>2, <1>3, CallersAssumption
<1>8. Pending => Pending'
  BY <1>2, <1>7 DEF Pending
<1>9. c = Job => ~Pending /\ Pending'
  BY <1>2, <1>4, <1>7 DEF Pending
<1>10. c = Job => /\ \A i \in 1..n : ~ByJob(queue[i])
                  /\ \A x \in Workers : ~ByJob(worker[x])
  BY <1>9 DEF JobInv, n
<1>11. \A i \in 1..n + 1 : /\ DOMAIN u[i] = {"by", "texts", "attempt"}
                           /\ ByJob(u[i]) => Pending' /\ u[i].texts = job.texts
  BY <1>1, <1>3, <1>6, <1>8, <1>9 DEF JobInv, ByJob, n
<1>12. \A x \in Workers : /\ DOMAIN worker[x] = {"by", "texts", "attempt"}
                          /\ ByJob(worker[x]) => Pending' /\ worker[x].texts = job.texts
  BY <1>8 DEF JobInv
<1>13. ASSUME NEW i \in 1..n + 1, NEW l \in 1..n + 1, ByJob(u[i]), ByJob(u[l]) PROVE i = l
  <2>1. CASE c = Job
    BY <1>3, <1>6, <1>10, <1>13, <2>1
  <2>2. CASE c # Job
    BY <1>1, <1>3, <1>6, <1>13, <2>2 DEF JobInv, ByJob, n
  <2> QED
    BY <2>1, <2>2
<1>14. ASSUME NEW i \in 1..n + 1, NEW x \in Workers, ByJob(u[i]), ByJob(worker[x]) PROVE FALSE
  <2>1. CASE c = Job
    BY <1>10, <1>14, <2>1
  <2>2. CASE c # Job
    BY <1>1, <1>3, <1>6, <1>14, <2>2 DEF JobInv, ByJob, n
  <2> QED
    BY <2>1, <2>2
<1>15. /\ reply'[Job] \in {Silence, Waiting, Failed, Vectors(job.texts)}
       /\ reply'[Job] # Silence => job # NoJob
  BY <1>7 DEF JobInv
<1>16. DOMAIN reply' = Callers
  BY <1>2, <1>3
<1>17. \A r2 : ByJob(r2)' <=> ByJob(r2)
  BY DEF ByJob
<1> QED
  BY <1>2, <1>3, <1>5, <1>11, <1>12, <1>13, <1>14, <1>15, <1>16 DEF JobInv, ByJob, NoJob

\* The answer is taken by who waited for it.
LEMMA JobReceives ==
    ASSUME JobInv, config' = config, NEW c, Receive(c),
           job' = IF c = Job THEN NoJob ELSE job
    PROVE  JobInv'
<1>1. /\ queue' = queue /\ worker' = worker /\ reply' = [reply EXCEPT ![c] = Silence]
      /\ reply[c].is \in {"vectors", "failed"}
  BY DEF Receive, Answered
<1>2. DOMAIN reply = Callers /\ Job \in Callers /\ DOMAIN reply' = Callers
  BY <1>1, CallersAssumption DEF JobInv
<1>3. CASE c = Job
  <2>1. reply'[Job] = Silence /\ job' = NoJob
    BY <1>1, <1>2, <1>3
  <2>2. reply[Job] # Waiting
    BY <1>1, <1>3 DEF Waiting
  <2>3. ~Pending
    BY <2>2 DEF Pending
  <2> QED
    BY <1>1, <1>2, <2>1, <2>3 DEF JobInv, ByJob, NoJob
<1>4. CASE c # Job
  <2>1. reply'[Job] = reply[Job] /\ job' = job
    BY <1>1, <1>2, <1>4
  <2>2. (IsJob' <=> IsJob) /\ (Pending' <=> Pending)
    BY <2>1 DEF IsJob, HashOf, Pending, NoJob
  <2> QED
    BY <1>1, <1>2, <2>1, <2>2 DEF JobInv, ByJob, NoJob
<1> QED
  BY <1>3, <1>4

\* A worker takes the first request; its place in the queue is given up.
LEMMA JobTaken ==
    ASSUME JobInv, UNCHANGED <<job, config>>, NEW w \in Workers, Take(w)
    PROVE  JobInv'
<1> DEFINE n == Len(queue)
           t == Tail(queue)
<1>1. /\ worker' = [worker EXCEPT ![w] = Head(queue)] /\ queue' = t /\ queue # <<>>
      /\ reply' = reply /\ job' = job /\ config' = config
  BY DEF Take
<1>2. /\ IsSeq(queue) /\ n \in Nat /\ n > 0 /\ DOMAIN worker = Workers
      /\ IsSeq(t) /\ Len(t) = n - 1 /\ Head(queue) = queue[1]
      /\ \A i \in 1..Len(t) : t[i] = queue[i + 1]
  BY <1>1, TailIs, IsSeqLen DEF JobInv
<1> HIDE DEF t
<1>3. /\ DOMAIN worker' = Workers /\ worker'[w] = queue[1]
      /\ \A x \in Workers : x # w => worker'[x] = worker[x]
  BY <1>1, <1>2
<1>4. (IsJob' <=> IsJob) /\ (Pending' <=> Pending)
  BY <1>1 DEF IsJob, HashOf, Pending, NoJob
<1>5. /\ \A i \in 1..n : /\ DOMAIN queue[i] = {"by", "texts", "attempt"}
                         /\ ByJob(queue[i]) => Pending /\ queue[i].texts = job.texts
      /\ \A x \in Workers : /\ DOMAIN worker[x] = {"by", "texts", "attempt"}
                            /\ ByJob(worker[x]) => Pending /\ worker[x].texts = job.texts
      /\ \A i, l \in 1..n : ByJob(queue[i]) /\ ByJob(queue[l]) => i = l
      /\ \A x, y \in Workers : ByJob(worker[x]) /\ ByJob(worker[y]) => x = y
      /\ \A i \in 1..n, x \in Workers : ~(ByJob(queue[i]) /\ ByJob(worker[x]))
  BY DEF JobInv
<1> HIDE DEF n
<1>6. /\ \A i \in 1..Len(t) : i + 1 \in 1..n /\ i + 1 # 1
      /\ \A i, l \in 1..Len(t) : i + 1 = l + 1 => i = l
      /\ 1 \in 1..n
  BY <1>2
<1>7. \A i \in 1..Len(t) : /\ DOMAIN t[i] = {"by", "texts", "attempt"}
                           /\ ByJob(t[i]) => Pending /\ t[i].texts = job.texts
  BY <1>2, <1>5, <1>6
<1>8. \A x \in Workers : /\ DOMAIN worker'[x] = {"by", "texts", "attempt"}
                         /\ ByJob(worker'[x]) => Pending /\ worker'[x].texts = job.texts
  BY <1>3, <1>5, <1>6
<1>9. \A i, l \in 1..Len(t) : ByJob(t[i]) /\ ByJob(t[l]) => i = l
  BY <1>2, <1>5, <1>6
<1>10. \A x, y \in Workers : ByJob(worker'[x]) /\ ByJob(worker'[y]) => x = y
  BY <1>3, <1>5, <1>6
<1>11. \A i \in 1..Len(t), x \in Workers : ~(ByJob(t[i]) /\ ByJob(worker'[x]))
  <2> SUFFICES ASSUME NEW i \in 1..Len(t), NEW x \in Workers, ByJob(t[i]), ByJob(worker'[x])
               PROVE  FALSE
    OBVIOUS
  <2>1. i + 1 \in 1..n /\ ByJob(queue[i + 1]) /\ i + 1 # 1
    BY <1>2, <1>6
  <2>2. CASE x = w
    BY <1>3, <1>5, <1>6, <2>1, <2>2
  <2>3. CASE x # w
    BY <1>3, <1>5, <2>1, <2>3
  <2> QED
    BY <2>2, <2>3
<1>12. /\ DOMAIN reply' = Callers /\ (job # NoJob => IsJob)
       /\ reply'[Job] \in {Silence, Waiting, Failed, Vectors(job.texts)}
       /\ reply'[Job] # Silence => job # NoJob
  BY <1>1 DEF JobInv
<1> QED
  BY <1>1, <1>2, <1>3, <1>4, <1>7, <1>8, <1>9, <1>10, <1>11, <1>12 DEF JobInv, ByJob, NoJob

\* A worker answers whoever asked, with nothing else than what came back of it.
LEMMA JobReplied ==
    ASSUME TextsInv, JobInv, UNCHANGED <<job, config>>, NEW w \in Workers, NEW answer,
           Reply(w, answer), ByJob(worker[w]) => answer \in {Failed, Vectors(job.texts)}
    PROVE  JobInv'
<1> DEFINE c == worker[w].by
<1>1. /\ worker' = [worker EXCEPT ![w] = Resting] /\ queue' = queue
      /\ reply' = [reply EXCEPT ![c] = answer] /\ job' = job /\ config' = config
  BY DEF Reply
<1>2. DOMAIN worker = Workers /\ DOMAIN reply = Callers /\ Job \in Callers
  BY CallersAssumption DEF JobInv
<1>3. /\ DOMAIN worker' = Workers /\ worker'[w] = Resting /\ DOMAIN reply' = Callers
      /\ \A x \in Workers : x # w => worker'[x] = worker[x]
      /\ reply'[Job] = IF c = Job THEN answer ELSE reply[Job]
  BY <1>1, <1>2
<1> HIDE DEF c
<1>4. DOMAIN Resting = {"by", "texts", "attempt"} /\ ~ByJob(Resting)
  BY CallersAssumption, NobodyAssumption DEF Resting, Request, ByJob
<1>5. /\ \A i \in 1..Len(queue) : /\ DOMAIN queue[i] = {"by", "texts", "attempt"}
                                  /\ ByJob(queue[i]) => Pending /\ queue[i].texts = job.texts
      /\ \A x \in Workers : /\ DOMAIN worker[x] = {"by", "texts", "attempt"}
                            /\ ByJob(worker[x]) => Pending /\ worker[x].texts = job.texts
      /\ \A i, l \in 1..Len(queue) : ByJob(queue[i]) /\ ByJob(queue[l]) => i = l
      /\ \A x, y \in Workers : ByJob(worker[x]) /\ ByJob(worker[y]) => x = y
      /\ \A i \in 1..Len(queue), x \in Workers : ~(ByJob(queue[i]) /\ ByJob(worker[x]))
      /\ IsSeq(queue) /\ (job # NoJob => IsJob)
      /\ reply[Job] \in {Silence, Waiting, Failed, Vectors(job.texts)}
      /\ reply[Job] # Silence => job # NoJob
  BY DEF JobInv
<1>6. \A x \in Workers : ByJob(worker'[x]) => x # w /\ ByJob(worker[x]) /\ worker'[x] = worker[x]
  BY <1>3, <1>4
<1>7. \A x \in Workers : DOMAIN worker'[x] = {"by", "texts", "attempt"}
  BY <1>3, <1>4, <1>5
<1>8. (IsJob' <=> IsJob)
  BY <1>1 DEF IsJob, HashOf
<1>9. CASE ByJob(worker[w])
  <2>1. c = Job /\ answer \in {Failed, Vectors(job.texts)} /\ Pending
    BY <1>5, <1>9 DEF ByJob, c
  <2>2. reply'[Job] \in {Failed, Vectors(job.texts)} /\ job # NoJob
    BY <1>3, <2>1 DEF Pending
  <2>3. /\ \A i \in 1..Len(queue) : ~ByJob(queue[i])
        /\ \A x \in Workers : ~ByJob(worker'[x])
    BY <1>5, <1>6, <1>9
  <2> QED
    BY <1>1, <1>3, <1>5, <1>7, <1>8, <2>2, <2>3 DEF JobInv, ByJob, NoJob
<1>10. CASE ~ByJob(worker[w])
  <2>1. reply'[Job] = reply[Job]
    BY <1>3, <1>10 DEF ByJob, c
  <2>2. Pending' <=> Pending
    BY <1>1, <2>1 DEF Pending, NoJob
  <2>3. /\ \A x \in Workers : ByJob(worker'[x]) => Pending /\ worker'[x].texts = job.texts
        /\ \A x, y \in Workers : ByJob(worker'[x]) /\ ByJob(worker'[y]) => x = y
        /\ \A i \in 1..Len(queue), x \in Workers : ~(ByJob(queue[i]) /\ ByJob(worker'[x]))
    BY <1>5, <1>6
  <2> QED
    BY <1>1, <1>3, <1>5, <1>7, <1>8, <2>1, <2>2, <2>3 DEF JobInv, ByJob, NoJob
<1> QED
  BY <1>9, <1>10

\* A step of a worker keeps the request and its answer together.
LEMMA JobServed ==
    ASSUME TextsInv, JobInv, UNCHANGED <<job, config>>, ApiStep
    PROVE  JobInv'
<1>1. PICK w \in Workers : Take(w) \/ Serve(w)
  BY DEF ApiStep
<1>2. CASE Take(w)
  BY <1>2, JobTaken
<1>3. CASE RequestFails(w)
  BY <1>3, JobReplied DEF RequestFails
<1>4. CASE Responds(w)
  <2>1. PICK shape \in Shapes : Parsed(w, shape)
    BY <1>4 DEF Responds
  <2> DEFINE texts == worker[w].texts
             answer == ParseResponse(Data(texts, shape), Len(texts))
  <2>2. Reply(w, answer)
    BY <2>1 DEF Parsed
  <2>3. ASSUME ByJob(worker[w]) PROVE answer \in {Failed, Vectors(job.texts)}
    <3>1. job # NoJob /\ texts = job.texts /\ IsJob
      BY <2>3 DEF JobInv, Pending
    <3>2. IsConfig(config)
      BY ConfigsAre DEF TextsInv
    <3>3. IsSeq(chunk_note(job.hash.body, config))
      BY <3>1, <3>2, ChunkNote DEF IsJob
    <3>4. IsSeq(texts) /\ texts # <<>>
      BY <3>1, <3>3, TextsAre DEF IsJob
    <3> HIDE DEF texts
    <3>5. answer \in {Failed, Vectors(texts)}
      BY <3>4, ParseIs
    <3> QED
      BY <3>1, <3>5
  <2> HIDE DEF answer
  <2> QED
    BY <2>2, <2>3, JobReplied
<1>5. CASE RateLimited(w)
  <2>1. /\ worker' = [worker EXCEPT ![w].attempt = @ + 1] /\ queue' = queue /\ reply' = reply
        /\ job' = job /\ config' = config /\ DOMAIN worker = Workers
    BY <1>5 DEF RateLimited, JobInv
  <2>2. \A x \in Workers : DOMAIN worker[x] = {"by", "texts", "attempt"}
    BY DEF JobInv
  <2>3. /\ DOMAIN worker' = Workers
        /\ \A x \in Workers : /\ DOMAIN worker'[x] = {"by", "texts", "attempt"}
                              /\ worker'[x].by = worker[x].by /\ worker'[x].texts = worker[x].texts
    BY <2>1, <2>2
  <2>4. (IsJob' <=> IsJob) /\ (Pending' <=> Pending)
    BY <2>1 DEF IsJob, HashOf, Pending, NoJob
  <2> QED
    BY <2>1, <2>3, <2>4 DEF JobInv, ByJob, NoJob
<1> QED
  BY <1>1, <1>2, <1>3, <1>4, <1>5 DEF Serve

\* The note that is prepared is read as it is on the disk.
LEMMA JobPrepared ==
    ASSUME TextsInv, JobInv, NEW n \in Notes, Prepare(n)
    PROVE  JobInv'
<1>1. /\ job = NoJob /\ disk[n] # Gone /\ config' = config
      /\ queue' = queue /\ worker' = worker /\ reply' = reply
      /\ job' = [note |-> n, of |-> index[n], hash |-> HashOf(disk[n]),
                 texts |-> TextsOf(index[n], chunk_note(disk[n], config), disk[n])]
  BY DEF Prepare, vault, apiVars
<1>2. IsSeq(disk[n])
  BY <1>1 DEF TextsInv, AreTexts, IsText, IsSeq
<1>3. /\ job'.of = index[n] /\ job'.hash = HashOf(disk[n]) /\ job'.hash.body = disk[n]
      /\ job'.texts = TextsOf(index[n], chunk_note(disk[n], config), disk[n])
  BY <1>1 DEF HashOf, Hash
<1>4. IsJob'
  BY <1>1, <1>2, <1>3 DEF IsJob, HashOf
<1>5. ~Pending /\ reply[Job] = Silence
  BY <1>1 DEF Pending, JobInv
<1> QED
  BY <1>1, <1>4, <1>5 DEF JobInv, ByJob

\* At the start nobody has asked for anything.
LEMMA JobInit == Init => JobInv
<1> SUFFICES ASSUME Init PROVE JobInv
  OBVIOUS
<1>1. job = NoJob /\ queue = <<>> /\ worker = [x \in Workers |-> Resting]
      /\ reply = [c \in Callers |-> Silence]
  BY DEF Init, ApiInit
<1>2. IsSeq(<<>>) /\ Len(<<>>) = 0 /\ 1..0 = {}
  BY TuplesAre
<1>3. DOMAIN Resting = {"by", "texts", "attempt"} /\ ~ByJob(Resting)
  BY CallersAssumption, NobodyAssumption DEF Resting, Request, ByJob
<1> QED
  BY <1>1, <1>2, <1>3, CallersAssumption DEF JobInv

\* Every step keeps the request of the note being embedded.
LEMMA JobNext == TextsInv /\ JobInv /\ [Next]_vars => JobInv'
<1> SUFFICES ASSUME TextsInv, JobInv, [Next]_vars PROVE JobInv'
  OBVIOUS
<1>1. ASSUME UNCHANGED <<job, config, apiVars>> PROVE JobInv'
  <2>1. job' = job /\ config' = config /\ queue' = queue /\ worker' = worker /\ reply' = reply
    BY <1>1 DEF apiVars
  <2>2. (IsJob' <=> IsJob) /\ (Pending' <=> Pending)
    BY <2>1 DEF IsJob, HashOf, Pending, NoJob
  <2> QED
    BY <2>1, <2>2 DEF JobInv, ByJob, NoJob
<1>2. ASSUME NEW req \in Setups[setup].requests, Ask(req) PROVE JobInv'
  BY <1>1, <1>2 DEF Ask, vault
<1>3. CASE SearchStep
  <2>1. UNCHANGED <<job, config>>
    BY <1>3 DEF SearchStep, Quiet, vault
  <2>2. CASE UNCHANGED apiVars
    BY <1>1, <2>1, <2>2
  <2>3. CASE AskVector
    BY <2>1, <2>3, JobSends, CallersAssumption DEF AskVector
  <2>4. CASE RankHits
    BY <2>1, <2>4, JobReceives, CallersAssumption DEF RankHits
  <2> QED
    BY <1>3, <2>2, <2>3, <2>4 DEF SearchStep
<1>4. ASSUME NEW n \in Notes, (\E text \in Setups[setup].texts : Edit(n, text)) \/ Follow(n)
                               \/ Hear(n) \/ Drop(n)
      PROVE JobInv'
  BY <1>1, <1>4 DEF Edit, Follow, Hear, Drop
<1>5. ASSUME NEW n \in Notes, Prepare(n) PROVE JobInv'
  BY <1>5, JobPrepared
<1>6. CASE Submit
  BY <1>6, JobSends, CallersAssumption DEF Submit, vault
<1>7. CASE Commit
  BY <1>7, JobReceives DEF Commit
<1>8. ASSUME NEW env \in Setups[setup].envs, Restart(env) PROVE JobInv'
  <2>1. /\ job' = NoJob /\ queue' = <<>> /\ worker' = [x \in Workers |-> Resting]
        /\ reply' = [c \in Callers |-> Silence]
    BY <1>8 DEF Restart
  <2>2. IsSeq(<<>>) /\ Len(<<>>) = 0 /\ 1..0 = {}
    BY TuplesAre
  <2>3. DOMAIN Resting = {"by", "texts", "attempt"} /\ ~ByJob(Resting)
    BY CallersAssumption, NobodyAssumption DEF Resting, Request, ByJob
  <2> QED
    BY <2>1, <2>2, <2>3, CallersAssumption DEF JobInv, ByJob, NoJob
<1>9. ASSUME NEW c \in Callers, Others(c) PROVE JobInv'
  <2>1. c # Job
    BY <1>9, CallersAssumption DEF Others, TextsInv
  <2> QED
    BY <1>9, <2>1, JobSends DEF Others, vault
<1>10. CASE Serving
  BY <1>10, JobServed DEF Serving, Outside, vault
<1>11. CASE UNCHANGED vars
  BY <1>1, <1>11 DEF vars, vault
<1> QED
  BY <1>2, <1>3, <1>4, <1>5, <1>6, <1>7, <1>8, <1>9, <1>10, <1>11 DEF Next

--------------------------------------------------------------------------------
(* The passages that a search shows.                                           *)

\* Whose vectors are depends on the configuration alone.
LEMMA SameEntry ==
    ASSUME setup' = setup, config' = config PROVE \A entry : IsEntry(entry)' <=> IsEntry(entry)
BY DEF IsEntry, Configs

\* What a step that restarts nothing has to keep.
LEMMA PassageKeeps ==
    ASSUME PassageInv, UNCHANGED <<setup, config, restarts>>, DOMAIN store' = Notes,
           \A n \in Notes : store'[n] # NoVectors => IsEntry(store'[n]),
           Visiting' /\ call'.req.tool \in {"semantic", "related"} =>
               \A i \in 1..Len(call'.rest) : IsEntry(call'.was[call'.rest[i]]),
           Visiting' \/ Ended' =>
               \A r \in Range(call'.results) : r.chunk > 0 =>
                   IsEntry(call'.was[r.note]) /\ r.chunk \in DOMAIN call'.was[r.note].chunks
    PROVE  PassageInv'
<1>1. \A entry : IsEntry(entry)' <=> IsEntry(entry)
  BY SameEntry
<1>2. \A n \in Notes : store'[n] # NoVectors => IsEntry(store[n])'
  <2> TAKE n \in Notes
  <2> DEFINE e == store'[n]
  <2>1. IsEntry(store[n])' <=> IsEntry(e)
    BY DEF IsEntry, Configs
  <2> QED
    BY <2>1
<1>3. \A x : IsEntry(call.was[x])' <=> IsEntry(call'.was[x])
  BY DEF IsEntry, Configs
<1>4. \A i : IsEntry(call.was[call.rest[i]])' <=> IsEntry(call'.was[call'.rest[i]])
  BY DEF IsEntry, Configs
<1>5. \A r : IsEntry(call.was[r.note])' <=> IsEntry(call'.was[r.note])
  BY DEF IsEntry, Configs
<1>6. restarts' \in Nat
  BY DEF PassageInv
<1> QED
  BY <1>2, <1>4, <1>5, <1>6 DEF PassageInv

\* A step that changes nothing of the search but what is touched.
LEMMA PassageElsewhere ==
    ASSUME SearchInv, PassageInv, UNCHANGED <<setup, config, restarts>>, DOMAIN store' = Notes,
           \A n \in Notes : store'[n] # NoVectors => IsEntry(store'[n]),
           call' = call \/ \E t : call' = [call EXCEPT !.touched = t]
    PROVE  PassageInv'
<1>1. /\ call'.at = call.at /\ call'.req = call.req /\ call'.was = call.was
      /\ call'.rest = call.rest /\ call'.results = call.results /\ call'.err = call.err
  BY DEF SearchInv, IsCall
<1>2. (Visiting' <=> Visiting) /\ (Ended' <=> Ended)
  BY <1>1 DEF Visiting, Ended
<1>3. Visiting' /\ call'.req.tool \in {"semantic", "related"} =>
          \A i \in 1..Len(call'.rest) : IsEntry(call'.was[call'.rest[i]])
  BY <1>1, <1>2 DEF PassageInv
<1>4. Visiting' \/ Ended' =>
          \A r \in Range(call'.results) : r.chunk > 0 =>
              IsEntry(call'.was[r.note]) /\ r.chunk \in DOMAIN call'.was[r.note].chunks
  BY <1>1, <1>2 DEF PassageInv
<1> QED
  BY <1>3, <1>4, PassageKeeps

\* What comes back for a note is stored with the hash of the text it is of.
LEMMA PassageCommit ==
    ASSUME TextsInv, SearchInv, JobInv, PassageInv, Commit
    PROVE  PassageInv'
<1>1. UNCHANGED <<setup, config, restarts>> /\ Answered(Job)
  BY DEF Commit, Receive
<1>2. \A n \in Notes : store[n] # NoVectors => IsEntry(store[n])
  BY DEF PassageInv
<1>3. DOMAIN store = Notes
  BY DEF PassageInv
<1>4. CASE UNCHANGED <<store, call>>
  BY <1>1, <1>2, <1>3, <1>4, PassageElsewhere
<1>5. CASE reply[Job].is # "failed" /\ Stored(job.note, Entry(job.hash, reply[Job].vectors))
  <2> DEFINE e == Entry(job.hash, reply[Job].vectors)
             b == job.hash.body
  <2>1. reply[Job] = Vectors(job.texts) /\ job # NoJob /\ IsJob
    <3>1. reply[Job] # Silence /\ reply[Job] # Waiting /\ reply[Job] # Failed
      BY <1>1, <1>5 DEF Answered, Silence, Waiting, Failed
    <3> QED
      BY <3>1 DEF JobInv
  <2>2. reply[Job].vectors = job.texts
    BY <2>1 DEF Vectors
  <2>3. e.hash = job.hash /\ e.chunks = Front(job.texts)
    BY <2>2 DEF Entry
  <2>4. IsConfig(config) /\ config \in Configs
    BY ConfigsAre DEF TextsInv
  <2>5. IsSeq(chunk_note(b, config))
    BY <2>1, <2>4, ChunkNote DEF IsJob
  <2>6. Front(job.texts) = Embedded(b, config)
    BY <2>1, <2>5, TextsAre DEF IsJob, Embedded
  <2>7. IsEntry(e)
    BY <2>1, <2>3, <2>4, <2>6 DEF IsEntry, IsJob, HashOf
  <2>8. store' = [store EXCEPT ![job.note] = e] /\ call' = Touch(job.note)
    BY <1>5 DEF Stored
  <2> HIDE DEF e
  <2>9. DOMAIN store' = Notes /\ \A n \in Notes : store'[n] # NoVectors => IsEntry(store'[n])
    BY <1>2, <1>3, <2>7, <2>8
  <2> QED
    BY <1>1, <2>8, <2>9, PassageElsewhere DEF Touch
<1> QED
  BY <1>4, <1>5 DEF Commit

\* A process that packs as the one before did can still use its vectors.
LEMMA PassageRestart ==
    ASSUME KeepsPacking, TextsInv, PassageInv, NEW env \in Setups[setup].envs, Restart(env)
    PROVE  PassageInv'
<1>1. /\ restarts < Setups[setup].restarts /\ restarts' = restarts + 1 /\ restarts \in Nat
      /\ config' = FromEnv(env) /\ setup' = setup /\ call' = Idle
      /\ store' = [n \in Notes |-> IF disk[n] = Gone THEN NoVectors ELSE store[n]]
  BY DEF Restart, PassageInv
<1>2. Setups[setup].restarts > 0
  BY <1>1, RestartsAssumption DEF TextsInv
<1>3. PICK d \in Setups[setup].envs : config = FromEnv(d)
  BY DEF TextsInv, Configs
<1>4. \A e : FromEnv(e).packing = e.packing
  BY DEF FromEnv, Config
<1>5. config'.packing = config.packing
  BY <1>1, <1>2, <1>3, <1>4 DEF KeepsPacking, TextsInv
<1>6. \A n : IsEntry(store[n]) /\ store'[n] = store[n] => IsEntry(store[n])'
  BY <1>1, <1>5 DEF IsEntry, Configs
<1>7. \A n \in Notes : store'[n] # NoVectors => IsEntry(store[n])'
  BY <1>1, <1>6 DEF PassageInv
<1>8. ~Visiting' /\ ~Ended'
  BY <1>1 DEF Idle, Visiting, Ended
<1>9. restarts' \in Nat /\ DOMAIN store' = Notes
  BY <1>1
<1> QED
  BY <1>7, <1>8, <1>9 DEF PassageInv

\* A search's own steps leave the vectors alone.
LEMMA PassageSearch ==
    ASSUME PassageInv, Quiet,
           Visiting' /\ call'.req.tool \in {"semantic", "related"} =>
               \A i \in 1..Len(call'.rest) : IsEntry(call'.was[call'.rest[i]]),
           Visiting' \/ Ended' =>
               \A r \in Range(call'.results) : r.chunk > 0 =>
                   IsEntry(call'.was[r.note]) /\ r.chunk \in DOMAIN call'.was[r.note].chunks
    PROVE  PassageInv'
<1>1. UNCHANGED <<setup, config, restarts, store>>
  BY DEF Quiet, vault
<1>2. DOMAIN store' = Notes /\ \A n \in Notes : store'[n] # NoVectors => IsEntry(store'[n])
  BY <1>1 DEF PassageInv
<1> QED
  BY <1>1, <1>2, PassageKeeps

\* What is ranked by its vectors has vectors, which the search keeps.
LEMMA PassageRanking ==
    ASSUME TextsInv, SearchInv, PassageInv, Quiet, ~Visiting, call.at \notin {"idle", "answered"},
           NEW score, NEW limit \in Nat, Ranking(score, limit), DOMAIN score \subseteq Notes,
           call.req.tool \in {"semantic", "related"} =>
               \A n \in DOMAIN score : store[n] # NoVectors
    PROVE  PassageInv'
<1>1. PICK order \in Ranked(score, limit) :
         call' = [call EXCEPT !.at = "visiting", !.score = score, !.was = store, !.rest = order]
  BY DEF Ranking
<1>2. /\ call'.req = call.req /\ call'.was = store /\ call'.rest = order
      /\ call'.results = call.results
  BY <1>1 DEF SearchInv, IsCall
<1>3. call.results = <<>>
  BY DEF SearchInv
<1>4. Range(call'.results) = {}
  BY <1>2, <1>3, TuplesAre
<1>5. IsFiniteSet(DOMAIN score)
  BY NotesAssumption, FS_Subset
<1>6. \A i \in 1..Len(order) : order[i] \in DOMAIN score
  BY <1>5, RankedIs
<1>7. call'.req.tool \in {"semantic", "related"} =>
          \A i \in 1..Len(call'.rest) : IsEntry(call'.was[call'.rest[i]])
  BY <1>2, <1>6 DEF PassageInv
<1> QED
  BY <1>4, <1>7, PassageSearch

\* A search that is not visiting, or has found nothing, shows nothing.
LEMMA PassageNone ==
    ASSUME PassageInv, Quiet, ~Visiting', Ended' => call'.results = <<>>
    PROVE  PassageInv'
BY PassageSearch, TuplesAre

\* A look at a candidate takes no vectors away.
LEMMA PassageLook ==
    ASSUME TextsInv, SearchInv, PassageInv, Quiet, Look
    PROVE  PassageInv'
<1>1. Visiting /\ Visit /\ call.rest # <<>>
  BY DEF Look, Visiting, SearchInv
<1>2. PICK order, j, h : VisitedTo(order, j, h)
  BY <1>1 DEF Visit
<1>3. IsSeq(call.rest)
  BY <1>2 DEF VisitedTo
<1>4. /\ Len(call.rest) \in Nat /\ Len(Tail(call.rest)) = Len(call.rest) - 1
      /\ \A i \in 1..Len(Tail(call.rest)) : Tail(call.rest)[i] = call.rest[i + 1]
  BY <1>1, <1>3, IsSeqLen, TailIs
<1>5. /\ call'.req = call.req /\ call'.was = call.was /\ call'.results = call.results
      /\ call'.rest = call.rest \/ call'.rest = Tail(call.rest)
  BY DEF Look, SearchInv, IsCall
<1>6. \A i \in 1..Len(Tail(call.rest)) : i + 1 \in 1..Len(call.rest)
  BY <1>4
<1>7. call'.req.tool \in {"semantic", "related"} =>
          \A i \in 1..Len(call'.rest) : IsEntry(call'.was[call'.rest[i]])
  <2> SUFFICES ASSUME call.req.tool \in {"semantic", "related"}
               PROVE  \A i \in 1..Len(call'.rest) : IsEntry(call.was[call'.rest[i]])
    BY <1>5
  <2>1. \A i \in 1..Len(call.rest) : IsEntry(call.was[call.rest[i]])
    BY <1>1 DEF PassageInv
  <2> QED
    BY <1>4, <1>5, <1>6, <2>1
<1>8. \A r \in Range(call'.results) : r.chunk > 0 =>
          IsEntry(call'.was[r.note]) /\ r.chunk \in DOMAIN call'.was[r.note].chunks
  BY <1>1, <1>5 DEF PassageInv
<1> QED
  BY <1>7, <1>8, PassageSearch

\* A result's passage is the place of one of its note's vectors (collapse_to_notes).
LEMMA PassageRead ==
    ASSUME TextsInv, SearchInv, PassageInv, Quiet, Read
    PROVE  PassageInv'
<1>1. Visiting /\ Visit /\ call.rest # <<>>
  BY DEF Read, Visiting, SearchInv
<1>2. PICK order, j, h : VisitedTo(order, j, h)
  BY <1>1 DEF Visit
<1>3. IsSeq(call.rest) /\ IsSeq(call.results)
  BY <1>2 DEF VisitedTo
<1>4. /\ Len(call.rest) \in Nat /\ Len(Tail(call.rest)) = Len(call.rest) - 1
      /\ Len(call.rest) > 0 /\ Head(call.rest) = call.rest[1]
      /\ \A i \in 1..Len(Tail(call.rest)) : Tail(call.rest)[i] = call.rest[i + 1]
  BY <1>1, <1>3, IsSeqLen, TailIs
<1> DEFINE n == Head(call.rest)
<1>5. PICK c \in ChunksOf(n) :
         call' = [call EXCEPT !.at = "visiting", !.rest = Tail(@),
                              !.results = Append(@, Result(n, disk[n], c))]
  BY DEF Read
<1> DEFINE x == Result(n, disk[n], c)
<1>6. x.note = n /\ x.chunk = c
  BY DEF Result
<1> HIDE DEF x
<1>7. /\ call'.req = call.req /\ call'.was = call.was /\ call'.rest = Tail(call.rest)
      /\ call'.results = Append(call.results, x)
  BY <1>5 DEF SearchInv, IsCall, x
<1>8. Range(call'.results) = Range(call.results) \cup {x}
  BY <1>3, <1>7, AppendIs
<1>9. \A i \in 1..Len(Tail(call.rest)) : i + 1 \in 1..Len(call.rest)
  BY <1>4
<1>10. call.req.tool \in {"semantic", "related"} =>
           \A i \in 1..Len(call.rest) : IsEntry(call.was[call.rest[i]])
  BY <1>1 DEF PassageInv
<1>11. call'.req.tool \in {"semantic", "related"} =>
           \A i \in 1..Len(call'.rest) : IsEntry(call'.was[call'.rest[i]])
  BY <1>4, <1>7, <1>9, <1>10
<1>12. c > 0 => IsEntry(call.was[n]) /\ c \in DOMAIN call.was[n].chunks
  <2>1. CASE Cites(n)
    <3>1. c \in BestChunks(call.was[n], QueryVector)
      BY <2>1 DEF ChunksOf
    <3>2. c \in DOMAIN call.was[n].chunks
      BY <3>1 DEF BestChunks
    <3>3. 1 \in 1..Len(call.rest)
      BY <1>4
    <3> QED
      BY <1>4, <1>10, <2>1, <3>2, <3>3 DEF Cites
  <2>2. CASE ~Cites(n)
    <3>1. c = 0
      BY <2>2 DEF ChunksOf
    <3> QED
      BY <3>1
  <2> QED
    BY <2>1, <2>2
<1>13. \A r \in Range(call.results) : r.chunk > 0 =>
           IsEntry(call.was[r.note]) /\ r.chunk \in DOMAIN call.was[r.note].chunks
  BY <1>1 DEF PassageInv
<1>14. \A r \in Range(call'.results) : r.chunk > 0 =>
           IsEntry(call'.was[r.note]) /\ r.chunk \in DOMAIN call'.was[r.note].chunks
  BY <1>6, <1>7, <1>8, <1>12, <1>13
<1> QED
  BY <1>11, <1>14, PassageSearch

\* The page has no other results than were read.
LEMMA PassageAnswer ==
    ASSUME TextsInv, SearchInv, PassageInv, Quiet, Answer
    PROVE  PassageInv'
<1>1. Visiting /\ Visit /\ call.at # "idle"
  BY DEF Answer, Visiting, SearchInv
<1>2. PICK order, j, h : VisitedTo(order, j, h)
  BY <1>1 DEF Visit
<1>3. IsSeq(call.results) /\ call.req.k \in Nat
  BY <1>1, <1>2, RequestsAre DEF VisitedTo
<1> DEFINE t == Page(Within(call.results, Passed), call.req.k)
<1>4. /\ call'.at = "answered" /\ call'.was = call.was /\ call'.results = t
  BY DEF Answer, SearchInv, IsCall
<1>5. PICK g : Shows(g, t, call.results, call.req.k, Passed)
  BY <1>3, PageIs
<1>6. /\ IsSeq(t)
      /\ \A i \in 1..Len(t) : g[i] \in 1..Len(call.results) /\ t[i] = call.results[g[i]]
  BY <1>5 DEF Shows
<1> HIDE DEF t
<1>7. Range(t) \subseteq Range(call.results)
  BY <1>3, <1>6, IsSeqLen
<1>8. \A r \in Range(call.results) : r.chunk > 0 =>
          IsEntry(call.was[r.note]) /\ r.chunk \in DOMAIN call.was[r.note].chunks
  BY <1>1 DEF PassageInv
<1>9. ~Visiting'
  BY <1>4 DEF Visiting
<1> QED
  BY <1>4, <1>7, <1>8, <1>9, PassageSearch

\* Every step of a search keeps it to vectors it has seen.
LEMMA PassageStep ==
    ASSUME TextsInv, SearchInv, PassageInv, SearchStep
    PROVE  PassageInv'
<1>1. Quiet
  BY DEF SearchStep
<1>2. CASE Scoped
  BY <1>1, <1>2, PassageNone DEF Scoped, SearchInv, IsCall, Visiting, Ended
<1>3. CASE Prefetched
  <2>1. call'.results = call.results /\ call'.at \in {"answered", "embedding"} /\ call.at = "hybrid"
    BY <1>3 DEF Prefetched, SearchInv, IsCall
  <2>2. call.results = <<>>
    BY <2>1 DEF SearchInv, Visiting
  <2>3. ~Visiting'
    BY <2>1 DEF Visiting
  <2> QED
    BY <1>1, <2>1, <2>2, <2>3, PassageNone
<1>4. CASE AskVector
  BY <1>1, <1>4, PassageNone DEF AskVector, SearchInv, IsCall, Visiting, Ended
<1>5. ASSUME NEW why, why # "none", call' = Fail(why) PROVE PassageInv'
  <2>1. call'.at = "answered" /\ call'.err = why
    BY <1>5 DEF Fail, SearchInv, IsCall
  <2>2. ~Visiting' /\ ~Ended'
    BY <1>5, <2>1 DEF Visiting, Ended
  <2> QED
    BY <1>1, <2>2, PassageNone
<1>6. CASE RankHits
  <2>1. /\ call.at = "waiting" /\ call.req.tool \in {"semantic", "fused", "hybrid"}
        /\ IF call.req.tool = "hybrid" THEN Collected(DOMAIN call.hits) ELSE Collected(call.notes)
        /\ call.req.scope \in DOMAIN Scope /\ ~Visiting /\ call.at \notin {"idle", "answered"}
    BY <1>6 DEF RankHits, SearchInv, Began, Visiting
  <2>2. CandidateLimit(call.req.k) \in Nat
    BY <2>1, RequestsAre, CandidatesAre
  <2>3. Scope[call.req.scope] \subseteq Notes
    BY <2>1, ScopeAssumption
  <2> DEFINE v == reply[Query].vectors[1]
             score == SemanticScores(call.notes, v)
  <2>4. CASE reply[Query].is = "failed"
    BY <1>5, <1>6, <2>4 DEF RankHits
  <2>5. CASE ~(reply[Query].is = "failed")
    <3>1. Rank(v)
      BY <1>6, <2>5 DEF RankHits
    <3> HIDE DEF v
    <3>2. DOMAIN score = {m \in call.notes : store[m] # NoVectors}
      BY DEF SemanticScores
    <3>3. CASE call.req.tool = "semantic"
      <4>1. Ranking(score, CandidateLimit(call.req.k))
        BY <3>1, <3>3 DEF Rank
      <4>2. DOMAIN score \subseteq Notes
        BY <2>1, <2>3, <3>2, <3>3 DEF Collected
      <4> HIDE DEF score
      <4> QED
        BY <1>1, <2>1, <2>2, <3>2, <4>1, <4>2, PassageRanking
    <3>4. CASE call.req.tool # "semantic"
      <4>1. call'.at \in {"scoring", "blending"}
        BY <2>1, <3>1, <3>4 DEF Rank, SearchInv, IsCall
      <4>2. ~Visiting' /\ ~Ended'
        BY <4>1 DEF Visiting, Ended
      <4> QED
        BY <1>1, <4>2, PassageNone
    <3> QED
      BY <3>3, <3>4
  <2> QED
    BY <2>4, <2>5
<1>7. ASSUME NEW at \in {"scoring", "linking", "relating"}, call'.at = at PROVE PassageInv'
  <2>1. ~Visiting' /\ ~Ended'
    BY <1>7 DEF Visiting, Ended
  <2> QED
    BY <1>1, <2>1, PassageNone
<1>8. CASE ScoreHit
  <2>1. call'.at = "scoring"
    BY <1>8 DEF ScoreHit, SearchInv, IsCall
  <2> QED
    BY <1>7, <2>1
<1>9. CASE Scored
  <2>1. /\ call.req.tool = "hybrid" /\ ~Visiting /\ call.at \notin {"idle", "answered"}
        /\ call.req.scope \in DOMAIN Scope /\ Collected(call.notes \cup DOMAIN call.score)
    BY <1>9 DEF Scored, SearchInv, Began, Visiting
  <2> DEFINE score == HybridScores(call.hits, call.score)
  <2>2. Ranking(score, CandidateLimit(call.req.k))
    BY <1>9 DEF Scored
  <2>3. CandidateLimit(call.req.k) \in Nat
    BY <2>1, RequestsAre, CandidatesAre
  <2>4. DOMAIN score \subseteq Notes
    BY <2>1, ScopeAssumption DEF Collected, HybridScores
  <2> HIDE DEF score
  <2> QED
    BY <1>1, <2>1, <2>2, <2>3, <2>4, PassageRanking
<1>10. CASE Blend
  <2>1. /\ call.req.tool = "fused" /\ ~Visiting /\ call.at \notin {"idle", "answered"}
        /\ call.req.scope \in DOMAIN Scope /\ Collected(DOMAIN call.score)
        /\ call.notes \subseteq Scope[call.req.scope]
    BY <1>10 DEF Blend, SearchInv, Began, Visiting
  <2>2. PICK order \in Ranked(Bm25(call.req.q), Depth(call.req.k)) :
           Ranking(FusedScores(call.score, Restrict(Bm25(call.req.q), Range(order)), call.notes),
                   CandidateLimit(call.req.k))
    BY <1>10 DEF Blend
  <2> DEFINE hits == Restrict(Bm25(call.req.q), Range(order))
             score == FusedScores(call.score, hits, call.notes)
  <2>3. CandidateLimit(call.req.k) \in Nat
    BY <2>1, RequestsAre, CandidatesAre
  <2> HIDE DEF hits
  <2>4. DOMAIN score \subseteq DOMAIN call.score \cup call.notes
    BY DEF FusedScores
  <2>5. Ranking(score, CandidateLimit(call.req.k))
    BY <2>2 DEF hits
  <2> HIDE DEF score
  <2>6. DOMAIN score \subseteq Notes
    BY <2>1, <2>4, ScopeAssumption DEF Collected
  <2> QED
    BY <1>1, <2>1, <2>3, <2>5, <2>6, PassageRanking
<1>11. CASE Related \/ Linked
  <2>1. call' = Fail("missing") \/ \E at \in {"linking", "relating"} : call' = [call EXCEPT !.at = at]
    BY <1>11 DEF Related, Linked
  <2>2. \A at : call' = [call EXCEPT !.at = at] => call'.at = at
    BY DEF SearchInv, IsCall
  <2> QED
    BY <1>5, <1>7, <2>1, <2>2
<1>12. CASE Relate
  <2>1. call.at = "relating" /\ ~Visiting /\ call.at \notin {"idle", "answered"}
    BY <1>12 DEF Relate, Visiting
  <2>2. call.req.k \in Nat
    BY <2>1, RequestsAre
  <2> DEFINE score == RelatedScores(call.req.q, call.req.scope)
  <2>3. call' = Fail("unknown scope") \/ call' = Fail("no embeddings") \/ Ranking(score, call.req.k)
    BY <1>12 DEF Relate
  <2>4. DOMAIN score = {m \in Narrow(call.req.scope, In(index)) \ {call.req.q} :
                            store[m] # NoVectors}
    BY DEF RelatedScores, SemanticScores
  <2>5. DOMAIN score \subseteq Notes
    BY <2>4 DEF Narrow, In
  <2> HIDE DEF score
  <2>6. CASE Ranking(score, call.req.k)
    BY <1>1, <2>1, <2>2, <2>4, <2>5, <2>6, PassageRanking
  <2> QED
    BY <1>5, <2>3, <2>6
<1>13. CASE Text
  <2>1. call.at = "text" /\ ~Visiting /\ call.at \notin {"idle", "answered"}
    BY <1>13 DEF Text, Visiting
  <2>2. call.req.k \in Nat /\ call.req.tool = "text"
    BY <2>1, RequestsAre DEF SearchInv, Tools
  <2> DEFINE score == Bm25(call.req.q)
  <2>3. Ranking(score, call.req.k)
    BY <1>13 DEF Text
  <2>4. DOMAIN score \subseteq Notes
    BY DEF Bm25
  <2> HIDE DEF score
  <2> QED
    BY <1>1, <2>1, <2>2, <2>3, <2>4, PassageRanking
<1> QED
  BY <1>1, <1>2, <1>3, <1>4, <1>6, <1>8, <1>9, <1>10, <1>11, <1>12, <1>13, PassageLook,
     PassageRead, PassageAnswer DEF SearchStep

\* Every step keeps the vectors those of the text their hash names.
LEMMA PassageNext ==
    KeepsPacking /\ TextsInv /\ SearchInv /\ JobInv /\ PassageInv /\ [Next]_vars => PassageInv'
<1> SUFFICES ASSUME KeepsPacking, TextsInv, SearchInv, JobInv, PassageInv, [Next]_vars
             PROVE  PassageInv'
  OBVIOUS
<1>1. DOMAIN store = Notes /\ \A n \in Notes : store[n] # NoVectors => IsEntry(store[n])
  BY DEF PassageInv
<1>2. ASSUME UNCHANGED <<setup, config, restarts, store>>,
             call' = call \/ \E n : call' = Touch(n)
      PROVE  PassageInv'
  BY <1>1, <1>2, PassageElsewhere DEF Touch
<1>3. ASSUME NEW req \in Setups[setup].requests, Ask(req) PROVE PassageInv'
  <2>1. req.tool \in Tools
    BY RequestsAssumption DEF TextsInv, Tools
  <2>2. /\ call'.at = (IF Refused(req) THEN "answered" ELSE req.tool)
        /\ call'.results = <<>>
    BY <1>3 DEF Ask, Idle
  <2>3. ~Visiting'
    BY <2>1, <2>2 DEF Visiting, Tools
  <2>4. Range(call'.results) = {}
    BY <2>2, TuplesAre
  <2>5. UNCHANGED <<setup, config, restarts, store>>
    BY <1>3 DEF Ask, vault
  <2> QED
    BY <1>1, <2>3, <2>4, <2>5, PassageKeeps
<1>4. CASE SearchStep
  BY <1>4, PassageStep
<1>5. ASSUME NEW n \in Notes,
              (\E text \in Setups[setup].texts : Edit(n, text)) \/ Follow(n) \/ Hear(n)
      PROVE  PassageInv'
  BY <1>2, <1>5 DEF Edit, Follow, Hear
<1>6. ASSUME NEW n \in Notes, Drop(n) PROVE PassageInv'
  <2>1. /\ store' = [store EXCEPT ![n] = NoVectors] /\ call' = Touch(n)
        /\ UNCHANGED <<setup, config, restarts>>
    BY <1>6 DEF Drop, Stored
  <2>2. DOMAIN store' = Notes /\ \A x \in Notes : store'[x] # NoVectors => IsEntry(store'[x])
    BY <1>1, <2>1
  <2> QED
    BY <2>1, <2>2, PassageElsewhere DEF Touch
<1>7. ASSUME NEW n \in Notes, Prepare(n) PROVE PassageInv'
  BY <1>2, <1>7 DEF Prepare, vault
<1>8. CASE Commit
  BY <1>8, PassageCommit
<1>9. ASSUME NEW env \in Setups[setup].envs, Restart(env) PROVE PassageInv'
  BY <1>9, PassageRestart
<1>10. CASE Submit \/ (\E c \in Callers : Others(c)) \/ Serving \/ UNCHANGED vars
  BY <1>2, <1>10 DEF Submit, Others, Serving, Outside, vault, vars
<1> QED
  BY <1>3, <1>4, <1>5, <1>6, <1>7, <1>8, <1>9, <1>10 DEF Next

\* At the start the vectors are those of the files.
LEMMA PassageInit == Init => PassageInv
<1> SUFFICES ASSUME Init PROVE PassageInv
  OBVIOUS
<1>1. /\ setup \in DOMAIN Setups /\ config \in Configs /\ call = Idle /\ restarts = 0
      /\ store = [n \in Notes |-> EmbeddedOf(disk[n], config)] /\ AreTexts(disk)
  BY TextsInit DEF Init, TextsInv
<1>2. ~Visiting /\ ~Ended
  BY <1>1 DEF Idle, Visiting, Ended
<1>3. ASSUME NEW n \in Notes, store[n] # NoVectors PROVE IsEntry(store[n])
  <2> DEFINE text == disk[n]
             chunks == chunk_note(text, config)
             texts == TextsOf(text, chunks, text)
  <2>1. store[n] = Entry(Hash(text, config), texts) /\ text # Gone
    BY <1>1, <1>3 DEF EmbeddedOf
  <2>2. IsSeq(text)
    BY <1>1, <2>1 DEF AreTexts, IsText, IsSeq
  <2>3. IsSeq(chunks)
    BY <1>1, <2>2, ConfigsAre, ChunkNote
  <2>4. Front(texts) = Embedded(text, config)
    BY <2>3, TextsAre DEF Embedded
  <2> HIDE DEF text, texts
  <2>5. store[n].hash = Hash(text, config) /\ store[n].chunks = Embedded(text, config)
    BY <2>1, <2>4 DEF Entry
  <2>6. store[n].hash.body = text
    BY <2>5 DEF Hash
  <2> QED
    BY <1>1, <2>1, <2>5, <2>6 DEF IsEntry
<1> QED
  BY <1>1, <1>2, <1>3 DEF PassageInv

\* As long as no restart changes how sections are packed, each passage that is
\* shown with a result is the text its vector is of, or the note was edited since
\* it was embedded: the cache may be from a process with another target, and the
\* answers of the API in any order (note_content_hash, parse_response,
\* best_chunk_text). Without the hypothesis it is not so: the run SearchPacking.
THEOREM PassagesMatch == KeepsPacking => (Spec => []PassagesAreEmbedded)
<1>1. TextsInv /\ PassageInv => PassagesAreEmbedded
  <2> SUFFICES ASSUME TextsInv, PassageInv, Ended,
                      NEW r \in Range(call.results), r.chunk > 0, Current(r)
               PROVE  /\ Passage(r) # <<>>
                      /\ EmbedText(Passage(r)[1]) = call.was[r.note].chunks[r.chunk]
    BY DEF PassagesAreEmbedded
  <2> DEFINE e == call.was[r.note]
             chunks == chunk_note(r.text, config)
  <2>1. IsEntry(e) /\ r.chunk \in DOMAIN e.chunks
    BY DEF PassageInv
  <2>2. r.text # Gone /\ Hash(r.text, config) = e.hash
    BY DEF Current
  <2>3. PICK c \in Configs : /\ c.packing = config.packing
                             /\ e.hash = Hash(e.hash.body, c)
                             /\ e.chunks = Embedded(e.hash.body, c)
    BY <2>1 DEF IsEntry
  <2>4. e.hash.body = r.text /\ c.target = config.target /\ c.overlap = config.overlap
    BY <2>2, <2>3 DEF Hash
  <2>5. \A x \in Configs : x = [target |-> x.target, overlap |-> x.overlap, packing |-> x.packing]
    BY DEF Configs, FromEnv, Config
  <2>6. c = config
    BY <2>3, <2>4, <2>5 DEF TextsInv
  <2>7. e.chunks = [i \in DOMAIN chunks |-> EmbedText(chunks[i])]
    BY <2>3, <2>4, <2>6 DEF Embedded
  <2> HIDE DEF e
  <2>8. r.chunk \in DOMAIN chunks /\ e.chunks[r.chunk] = EmbedText(chunks[r.chunk])
    BY <2>1, <2>7
  <2>9. r.chunk # 0
    OBVIOUS
  <2>10. Passage(r) = <<chunks[r.chunk]>>
    BY <2>2, <2>8, <2>9 DEF Passage, PassageAt
  <2> HIDE DEF chunks
  <2>11. Passage(r) # <<>> /\ Passage(r)[1] = chunks[r.chunk]
    BY <2>10
  <2> QED
    BY <2>8, <2>11 DEF e
<1>2. Init => TextsInv /\ SearchInv /\ JobInv /\ PassageInv
  BY TextsInit, JobInit, PassageInit, NoSearch DEF Init
<1> SUFFICES ASSUME KeepsPacking PROVE Spec => []PassagesAreEmbedded
  OBVIOUS
<1>3. TextsInv /\ SearchInv /\ JobInv /\ PassageInv /\ [Next]_vars
          => (TextsInv /\ SearchInv /\ JobInv /\ PassageInv)'
  BY TextsNext, SearchNext, JobNext, PassageNext
<1> QED
  BY <1>1, <1>2, <1>3, PTL DEF Spec

================================================================================
