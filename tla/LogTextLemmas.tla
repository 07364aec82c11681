---------------------------- MODULE LogTextLemmas -----------------------------
(***************************************************************************)
(* Lemmas on the operators that the readers of a log are built from: least *)
(* and greatest elements, sets in ascending order, parts of a file and its *)
(* lines, loops and folds.                                                 *)
(*                                                                         *)
(* The provers cannot be given a predicate to induct over, so an induction *)
(* is over the set of the numbers of which the statement holds             *)
(* (SetInduction).  LoopsEnd has from it that a loop defines a function,   *)
(* FoldsEnd that a fold does.                                              *)
(***************************************************************************)
EXTENDS LogText, SequenceTheorems, FiniteSetTheorems, WellFoundedInduction, TLAPS

------------------------------------------------------------------------------
(* Numbers: least elements, induction, and sets in ascending order. *)

\* A set of naturals has a least element, and Min is that.
LEMMA LeastOf ==
  ASSUME NEW S \in SUBSET Nat, S # {}
  PROVE  Min(S) \in S /\ \A x \in S : Min(S) <= x
<1>1. PICK x \in S : \A y \in S : ~ (<<y, x>> \in OpToRel(<, Nat))
  BY NatLessThanWellFounded, WFMin, Zenon
<1>2. \A y \in S : ~ (y < x)
  BY <1>1 DEF OpToRel
<1>3. \A y \in S : x <= y
  BY <1>2
<1> QED BY <1>3 DEF Min

\* What is in a set and below all of it is its minimum.
LEMMA MinIs ==
  ASSUME NEW S \in SUBSET Nat, NEW x \in S, \A y \in S : x <= y
  PROVE  Min(S) = x
<1>1. PICK y \in S : y = Min(S) /\ \A z \in S : y <= z
  BY LeastOf
<1>2. x \in Nat /\ y \in Nat /\ x <= y /\ y <= x
  BY <1>1
<1> QED BY <1>1, <1>2

\* The minimum of two numbers.
LEMMA MinOfTwo ==
  ASSUME NEW a \in Nat, NEW b \in Nat
  PROVE  Min({a, b}) = IF a <= b THEN a ELSE b
<1>1. Min({a, b}) \in {a, b} /\ Min({a, b}) <= a /\ Min({a, b}) <= b
  BY LeastOf, {a, b} \in SUBSET Nat
<1> QED BY <1>1

\* Induction, of a set instead of a predicate.
LEMMA SetInduction ==
  ASSUME NEW S, 0 \in S, \A n \in Nat : n \in S => n + 1 \in S
  PROVE  Nat \subseteq S
<1>1. SUFFICES ASSUME Nat \ S # {} PROVE FALSE
  OBVIOUS
<1>2. Min(Nat \ S) \in Nat \ S /\ \A x \in Nat \ S : Min(Nat \ S) <= x
  BY <1>1, LeastOf
<1>3. Min(Nat \ S) # 0 /\ Min(Nat \ S) - 1 \in Nat
  BY <1>2
<1>4. Min(Nat \ S) - 1 \in S
  BY <1>2, <1>3
<1> QED BY <1>2, <1>3, <1>4

\* A loop: each element of D is in Stop, where the value is known, or has that
\* of an element that is less deep.
IsLoop(D, b, depth, Stop, value, next) ==
  /\ b \in Nat /\ depth \in [D -> 0 .. b]
  /\ Stop \in SUBSET D /\ next \in [D \ Stop -> D]
  /\ \A at \in D \ Stop : depth[next[at]] < depth[at]

Runs(D, Stop, value, next, read) ==
  read = [at \in D |-> IF at \in Stop THEN value[at] ELSE read[next[at]]]

\* It defines a function.
LEMMA LoopsEnd ==
  ASSUME NEW D, NEW b, NEW depth, NEW Stop, NEW value, NEW next,
         IsLoop(D, b, depth, Stop, value, next)
  PROVE  \E read : Runs(D, Stop, value, next, read)
<1> USE DEF IsLoop
<1> DEFINE Step(g, at) == IF at \in Stop THEN value[at] ELSE g[next[at]]
           Good(g, m) == \A at \in D : depth[at] <= m => g[at] = Step(g, at)
           M == {m \in Nat : \E g : Good(g, m)}
<1>1. 0 \in M
  <2> DEFINE g == [at \in D |-> value[at]]
  <2>1. ASSUME NEW at \in D, depth[at] <= 0 PROVE at \in Stop
    BY <2>1
  <2>2. Good(g, 0)
    BY <2>1
  <2> HIDE DEF Good
  <2> QED BY <2>2
<1>2. ASSUME NEW m \in Nat, m \in M PROVE m + 1 \in M
  <2>1. PICK g : Good(g, m)
    BY <1>2
  <2> DEFINE h == [at \in D |-> IF depth[at] <= m THEN g[at] ELSE Step(g, at)]
  <2>2. ASSUME NEW at \in D, depth[at] <= m + 1 PROVE h[at] = Step(h, at)
    <3>1. CASE at \in Stop
      BY <2>1, <3>1
    <3>2. CASE at \notin Stop
      <4>1. next[at] \in D /\ depth[next[at]] < depth[at] /\ depth[next[at]] <= m
        BY <2>2, <3>2
      <4>2. h[next[at]] = g[next[at]] /\ h[at] = g[next[at]]
        BY <2>1, <3>2, <4>1
      <4> QED BY <3>2, <4>2
    <3> QED BY <3>1, <3>2
  <2> HIDE DEF h
  <2>3. Good(h, m + 1)
    BY <2>2
  <2> HIDE DEF Good
  <2> QED BY <2>3
<1>3. PICK g : Good(g, b)
  <2>1. b \in M
    BY <1>1, <1>2, SetInduction
  <2> QED BY <2>1
<1> DEFINE read == [at \in D |-> g[at]]
<1>4. \A at \in D : read[at] = Step(read, at)
  <2>1. \A at \in D : g[at] = Step(g, at)
    BY <1>3
  <2> QED BY <2>1
<1>5. read = [at \in D |-> Step(read, at)]
  <2>1. read = [at \in D |-> read[at]]
    OBVIOUS
  <2> HIDE DEF read
  <2> QED BY <1>4, <2>1
<1> HIDE DEF read
<1> QED BY <1>5 DEF Runs

\* The rank of a number is at most the size of the set.
LEMMA RankType ==
  ASSUME NEW S \in SUBSET Nat, IsFiniteSet(S), NEW x \in Nat
  PROVE  /\ Rank(S, x) \in Nat /\ Rank(S, x) <= Cardinality(S)
         /\ Cardinality(S) \in Nat
         /\ x \in S => Rank(S, x) >= 1
<1>1. {y \in S : y <= x} \in SUBSET S
  OBVIOUS
<1>2. /\ IsFiniteSet({y \in S : y <= x})
      /\ Rank(S, x) <= Cardinality(S)
  BY <1>1, FS_Subset, Zenon DEF Rank
<1>3. Cardinality(S) \in Nat /\ Rank(S, x) \in Nat
  BY <1>2, FS_CardinalityType, Zenon DEF Rank
<1>4. ASSUME x \in S PROVE Rank(S, x) # 0
  <2>1. x \in {y \in S : y <= x}
    BY <1>4
  <2> QED BY <1>2, <2>1, FS_EmptySet, Zenon DEF Rank
<1> QED BY <1>2, <1>3, <1>4

\* What lies between two numbers is what one of them counts more.
LEMMA RankSplits ==
  ASSUME NEW S \in SUBSET Nat, IsFiniteSet(S), NEW p \in Nat, NEW q \in Nat, p <= q
  PROVE  /\ IsFiniteSet(S \cap (p + 1 .. q))
         /\ Cardinality(S \cap (p + 1 .. q)) \in Nat
         /\ Rank(S, q) = Rank(S, p) + Cardinality(S \cap (p + 1 .. q))
<1> DEFINE Low == {y \in S : y <= p}
           Mid == S \cap (p + 1 .. q)
<1>1. Low \in SUBSET S /\ Mid \in SUBSET S
  OBVIOUS
<1>2. IsFiniteSet(Low) /\ IsFiniteSet(Mid)
  BY <1>1, FS_Subset, Zenon
<1>3. Low \cap Mid = {}
  OBVIOUS
<1>4. Low \cup Mid = {y \in S : y <= q}
  <2>1. \A y \in S : y <= q <=> y <= p \/ y \in p + 1 .. q
    OBVIOUS
  <2> QED BY <2>1, Zenon
<1>5. /\ Cardinality(Low) \in Nat /\ Cardinality(Mid) \in Nat
      /\ Cardinality(Low \cap Mid) = 0
  BY <1>2, <1>3, FS_CardinalityType, FS_EmptySet, Zenon
<1>6. Cardinality(Low \cup Mid) = Cardinality(Low) + Cardinality(Mid) - Cardinality(Low \cap Mid)
  BY <1>2, FS_Union, Zenon
<1>7. Rank(S, q) = Cardinality(Low) + Cardinality(Mid)
  BY <1>4, <1>5, <1>6 DEF Rank
<1> QED BY <1>2, <1>5, <1>7 DEF Rank

\* A later element has a higher rank.
LEMMA RankGrows ==
  ASSUME NEW S \in SUBSET Nat, IsFiniteSet(S), NEW p \in Nat, NEW q \in S, p < q
  PROVE  Rank(S, p) < Rank(S, q)
<1>1. q \in S \cap (p + 1 .. q)
  OBVIOUS
<1>2. /\ IsFiniteSet(S \cap (p + 1 .. q))
      /\ Cardinality(S \cap (p + 1 .. q)) \in Nat
      /\ Rank(S, q) = Rank(S, p) + Cardinality(S \cap (p + 1 .. q))
  BY RankSplits
<1>3. Cardinality(S \cap (p + 1 .. q)) # 0
  BY <1>1, <1>2, FS_EmptySet, Zenon
<1>4. Rank(S, p) \in Nat
  BY RankType
<1> QED BY <1>2, <1>3, <1>4

\* No two elements have the same rank.
LEMMA RankUnique ==
  ASSUME NEW S \in SUBSET Nat, IsFiniteSet(S), NEW x \in S, NEW y \in S,
         Rank(S, x) = Rank(S, y)
  PROVE  x = y
<1>1. /\ Rank(S, x) \in Nat
      /\ x < y => Rank(S, x) < Rank(S, y)
      /\ y < x => Rank(S, y) < Rank(S, x)
  BY RankGrows, RankType
<1> QED BY <1>1

\* Each rank up to the size of the set is that of an element.
LEMMA RankOnto ==
  ASSUME NEW S \in SUBSET Nat, IsFiniteSet(S), NEW k \in 1 .. Cardinality(S)
  PROVE  \E x \in S : Rank(S, x) = k
<1> DEFINE g == [x \in S |-> Rank(S, x)]
           T == 1 .. Cardinality(S)
<1>1. Cardinality(S) \in Nat
  BY FS_CardinalityType
<1>2. g \in [S -> T]
  BY RankType
<1>3. \A x, y \in S : g[x] = g[y] => x = y
  BY RankUnique
<1>4. g \in Injection(S, T)
  BY <1>2, <1>3 DEF Injection, IsInjective
<1>5. IsFiniteSet(T) /\ Cardinality(T) = Cardinality(S)
  BY <1>1, FS_Interval
<1>6. g \in Surjection(S, T)
  BY <1>4, <1>5, FS_Injection, Zenon
<1> QED BY <1>6 DEF Surjection

\* Ascending lists a finite set, each element at its rank.
LEMMA AscendingOrder ==
  ASSUME NEW S \in SUBSET Nat, IsFiniteSet(S)
  PROVE  /\ Ascending(S) \in Seq(S)
         /\ Len(Ascending(S)) = Cardinality(S)
         /\ DOMAIN Ascending(S) = 1 .. Cardinality(S)
         /\ \A k \in 1 .. Cardinality(S) :
              Ascending(S)[k] \in S /\ Rank(S, Ascending(S)[k]) = k
         /\ \A x \in S : Ascending(S)[Rank(S, x)] = x
         /\ \A j, k \in 1 .. Cardinality(S) : j < k => Ascending(S)[j] < Ascending(S)[k]
<1> DEFINE a == Ascending(S)
<1>0. Cardinality(S) \in Nat
  BY FS_CardinalityType
<1>1. \A k \in 1 .. Cardinality(S) : a[k] \in S /\ Rank(S, a[k]) = k
  BY RankOnto DEF Ascending
<1>2. ASSUME NEW x \in S PROVE a[Rank(S, x)] = x
  <2>1. Rank(S, x) \in 1 .. Cardinality(S)
    BY RankType
  <2>2. a[Rank(S, x)] \in S /\ Rank(S, a[Rank(S, x)]) = Rank(S, x)
    BY <1>1, <2>1
  <2>3. PICK y \in S : y = a[Rank(S, x)] /\ Rank(S, y) = Rank(S, x)
    BY <2>2, Zenon
  <2>4. y = x
    BY <2>3, RankUnique
  <2> QED BY <2>3, <2>4
<1>3. ASSUME NEW j \in 1 .. Cardinality(S), NEW k \in 1 .. Cardinality(S), j < k
      PROVE  a[j] < a[k]
  <2>1. a[j] \in S /\ a[k] \in S /\ Rank(S, a[j]) = j /\ Rank(S, a[k]) = k
    BY <1>1
  <2>2. ~ (a[k] < a[j]) /\ a[k] # a[j]
    <3>1. a[k] < a[j] => Rank(S, a[k]) < Rank(S, a[j])
      BY <2>1, RankGrows
    <3> QED BY <1>0, <1>3, <2>1, <3>1
  <2>3. a[j] \in Nat /\ a[k] \in Nat
    BY <2>1
  <2> QED BY <2>2, <2>3
<1>4. DOMAIN a = 1 .. Cardinality(S) /\ a \in [1 .. Cardinality(S) -> S]
  BY <1>1 DEF Ascending
<1>5. a \in Seq(S) /\ Len(a) = Cardinality(S)
  BY <1>0, <1>4, SeqDef
<1> QED BY <1>1, <1>2, <1>3, <1>4, <1>5

\* An element is listed at its rank.
LEMMA AscendingAt ==
  ASSUME NEW S \in SUBSET Nat, IsFiniteSet(S), NEW x \in S
  PROVE  Rank(S, x) \in 1 .. Cardinality(S) /\ Ascending(S)[Rank(S, x)] = x
  BY RankType, AscendingOrder

------------------------------------------------------------------------------
(* The file and its newlines. *)

\* The newlines of a file are finitely many of its positions.
LEMMA NewlinesFinite ==
  ASSUME NEW A, NEW f \in Seq(A)
  PROVE  /\ Len(f) \in Nat /\ DOMAIN f = 1 .. Len(f)
         /\ Newlines(f) \in SUBSET (1 .. Len(f)) /\ Newlines(f) \in SUBSET Nat
         /\ IsFiniteSet(Newlines(f)) /\ Cardinality(Newlines(f)) \in Nat
         /\ Rank(Newlines(f), 0) = 0
         /\ Rank(Newlines(f), Len(f)) = Cardinality(Newlines(f))
<1>1. Len(f) \in Nat /\ DOMAIN f = 1 .. Len(f)
  BY LenProperties
<1>2. Newlines(f) \in SUBSET (1 .. Len(f)) /\ Newlines(f) \in SUBSET Nat
  BY <1>1 DEF Newlines
<1>3. IsFiniteSet(1 .. Len(f))
  BY <1>1, FS_Interval
<1>4. IsFiniteSet(Newlines(f)) /\ Cardinality(Newlines(f)) \in Nat
  BY <1>2, <1>3, FS_Subset, FS_CardinalityType, Zenon
<1>5. {y \in Newlines(f) : y <= 0} = {} /\ {y \in Newlines(f) : y <= Len(f)} = Newlines(f)
  BY <1>1, <1>2
<1> QED BY <1>1, <1>2, <1>4, <1>5, FS_EmptySet DEF Rank

------------------------------------------------------------------------------
(* Pieces put together again. *)

\* m bytes of a file behind the first u.
LEMMA Part ==
  ASSUME NEW A, NEW f \in Seq(A), NEW u \in Nat, NEW m \in Nat, u + m <= Len(f)
  PROVE  LET s == SubSeq(f, u + 1, u + m)
         IN  s \in Seq(A) /\ Len(s) = m /\ \A i \in 1 .. m : s[i] = f[u + i]
<1> DEFINE s == SubSeq(f, u + 1, u + m)
<1>1. PICK a \in Int, b \in Int : a = u + 1 /\ b = u + m
  OBVIOUS
<1>2. /\ \A i \in a .. b : i \in 1 .. Len(f)
      /\ (IF a <= b THEN b - a + 1 ELSE 0) = m /\ b - a + 1 = m
  BY <1>1, LenProperties
<1>3. \A i \in a .. b : f[i] \in A
  BY <1>2, ElementOfSeq
<1>4. /\ SubSeq(f, a, b) \in Seq(A)
      /\ Len(SubSeq(f, a, b)) = IF a <= b THEN b - a + 1 ELSE 0
      /\ \A i \in 1 .. b - a + 1 : SubSeq(f, a, b)[i] = f[a + i - 1]
  BY <1>3, SubSeqProperties
<1>5. \A i \in 1 .. m : a + i - 1 = u + i
  BY <1>1
<1> HIDE DEF s
<1>6. s = SubSeq(f, a, b)
  BY <1>1 DEF s
<1>7. s \in Seq(A) /\ Len(s) = m /\ \A i \in 1 .. m : s[i] = f[u + i]
  BY <1>2, <1>4, <1>5, <1>6
<1> QED BY <1>7 DEF s

\* n consecutive parts of a sequence, which `cut` separates
ArePieces(f, n, cut, seqs) ==
  /\ n \in Nat /\ cut \in [0 .. n -> 0 .. Len(f)]
  /\ \A i \in 1 .. n : cut[i - 1] <= cut[i]
  /\ Len(seqs) = n /\ (n = 0 => seqs = <<>>)
  /\ \A i \in 1 .. n : seqs[i] = SubSeq(f, cut[i - 1] + 1, cut[i])

\* The consecutive parts of a sequence, flattened, are what they part.
LEMMA PiecesFlatten ==
  ASSUME NEW A, NEW f \in Seq(A), NEW n, NEW cut, NEW seqs, ArePieces(f, n, cut, seqs)
  PROVE  FlattenSeq(seqs) = SubSeq(f, cut[0] + 1, cut[n])
<1> /\ n \in Nat /\ cut \in [0 .. n -> 0 .. Len(f)]
    /\ \A i \in 1 .. n : cut[i - 1] <= cut[i]
    /\ Len(seqs) = n /\ (n = 0 => seqs = <<>>)
    /\ \A i \in 1 .. n : seqs[i] = SubSeq(f, cut[i - 1] + 1, cut[i])
  BY DEF ArePieces
<1>0. Len(f) \in Nat /\ \A i \in 0 .. n : cut[i] \in 0 .. Len(f)
  BY LenProperties
<1>1. CASE n = 0
  <2>1. FlattenSeq(seqs) = <<>>
    BY <1>1 DEF FlattenSeq
  <2>2. cut[0] + 1 \in Int /\ cut[n] \in Int /\ cut[n] < cut[0] + 1
    BY <1>0, <1>1
  <2> QED BY <2>1, <2>2, SubSeqEmpty
<1>2. CASE n # 0
  <2> DEFINE upto(i) == SubSeq(f, cut[0] + 1, cut[i])
             Step(g, i) == IF i = 1 THEN seqs[i] ELSE g[i - 1] \o seqs[i]
             Flat(g) == g = [i \in 1 .. n |-> Step(g, i)]
             B == {i \in Nat : i <= n => cut[0] <= cut[i]}
  <2>0. seqs[1] = upto(1)
    <3>1. 1 \in 1 .. n /\ 1 - 1 = 0
      BY <1>2
    <3>2. seqs[1] = SubSeq(f, cut[1 - 1] + 1, cut[1])
      BY <3>1
    <3> QED BY <3>1, <3>2
  <2>1. \A i \in 0 .. n : cut[0] <= cut[i]
    <3>1. 0 \in B
      BY <1>0
    <3>2. \A i \in Nat : i \in B => i + 1 \in B
      <4> SUFFICES ASSUME NEW i \in Nat, i \in B, i + 1 <= n PROVE cut[0] <= cut[i + 1]
        OBVIOUS
      <4>1. i \in 0 .. n /\ 0 \in 0 .. n /\ i + 1 \in 1 .. n /\ i + 1 \in 0 .. n /\ (i + 1) - 1 = i
        OBVIOUS
      <4>2. cut[0] <= cut[i] /\ cut[i] <= cut[i + 1]
        BY <4>1
      <4>3. cut[0] \in Nat /\ cut[i] \in Nat /\ cut[i + 1] \in Nat
        BY <1>0, <4>1, SMTT(40)
      <4> QED BY <4>2, <4>3
    <3> HIDE DEF B
    <3>3. Nat \subseteq B
      BY <3>1, <3>2, SetInduction
    <3> QED BY <3>3 DEF B
  <2>2. \A i \in 2 .. n : upto(i - 1) \o seqs[i] = upto(i)
    <3> SUFFICES ASSUME NEW i \in 2 .. n PROVE upto(i - 1) \o seqs[i] = upto(i)
      OBVIOUS
    <3>1. i \in 1 .. n /\ i \in 0 .. n /\ i - 1 \in 0 .. n
      OBVIOUS
    <3>2. /\ cut[0] \in 0 .. Len(f) /\ cut[i - 1] \in 0 .. Len(f) /\ cut[i] \in 0 .. Len(f)
          /\ cut[0] <= cut[i - 1] /\ cut[i - 1] <= cut[i]
      <4>1. cut[i - 1] <= cut[i]
        BY <3>1
      <4> QED BY <1>0, <2>1, <3>1, <4>1
    <3>3. /\ cut[0] + 1 \in 1 .. Len(f) + 1
          /\ cut[i - 1] \in (cut[0] + 1) - 1 .. Len(f)
          /\ cut[i] \in cut[i - 1] .. Len(f)
      <4>1. \A x, y, z \in 0 .. Len(f) : x <= y /\ y <= z =>
              /\ x + 1 \in 1 .. Len(f) + 1 /\ y \in (x + 1) - 1 .. Len(f) /\ z \in y .. Len(f)
        BY <1>0
      <4> QED BY <3>2, <4>1
    <3>4. seqs[i] = SubSeq(f, cut[i - 1] + 1, cut[i])
      BY <3>1
    <3> QED BY <3>3, <3>4, ConcatAdjacentSubSeq
  <2>3. \E g : Flat(g)
    <3> DEFINE g == [i \in 1 .. n |-> upto(i)]
    <3>1. ASSUME NEW i \in 1 .. n PROVE upto(i) = Step(g, i)
      <4>1. CASE i = 1
        <5> HIDE DEF upto
        <5> QED BY <2>0, <4>1
      <4>2. CASE i # 1
        <5>1. i \in 2 .. n /\ i - 1 \in 1 .. n
          BY <4>2
        <5>2. g[i - 1] = upto(i - 1)
          BY <5>1
        <5> HIDE DEF g, upto
        <5> QED BY <2>2, <4>2, <5>1, <5>2
      <4> QED BY <4>1, <4>2
    <3>2. g = [i \in 1 .. n |-> Step(g, i)]
      <4> HIDE DEF Step, upto
      <4> QED BY <3>1
    <3> HIDE DEF g, Step
    <3> QED BY <3>2
  <2> DEFINE h == CHOOSE g : Flat(g)
  <2>4. Flat(h)
    <3> HIDE DEF Flat
    <3> QED BY <2>3
  <2>5. FlattenSeq(seqs) = h[n]
    BY <1>2 DEF FlattenSeq
  <2> HIDE DEF h
  <2>6. \A i \in 1 .. n : h[i] = Step(h, i)
    <3> HIDE DEF Step
    <3> QED BY <2>4
  <2> DEFINE M == {i \in Nat : i + 1 <= n => h[i + 1] = upto(i + 1)}
  <2>7. 0 \in M
    <3>1. 1 \in 1 .. n
      BY <1>2
    <3>2. h[1] = seqs[1]
      BY <2>6, <3>1
    <3> HIDE DEF upto
    <3> QED BY <2>0, <3>2
  <2>8. \A i \in Nat : i \in M => i + 1 \in M
    <3> SUFFICES ASSUME NEW i \in Nat, i \in M, (i + 1) + 1 <= n
                 PROVE  h[(i + 1) + 1] = upto((i + 1) + 1)
      <4> HIDE DEF upto
      <4> QED OBVIOUS
    <3>1. i + 2 \in 1 .. n /\ i + 2 \in 2 .. n /\ (i + 2) - 1 = i + 1 /\ i + 2 # 1
          /\ (i + 1) + 1 = i + 2 /\ i + 1 <= n
      OBVIOUS
    <3>2. h[i + 2] = h[i + 1] \o seqs[i + 2]
      BY <2>6, <3>1
    <3>3. h[i + 1] = upto(i + 1)
      BY <3>1
    <3> HIDE DEF upto
    <3> QED BY <2>2, <3>1, <3>2, <3>3
  <2>9. n - 1 \in M
    <3> HIDE DEF M
    <3>1. n - 1 \in Nat
      BY <1>2
    <3> QED BY <2>7, <2>8, <3>1, SetInduction
  <2>10. h[n] = upto(n)
    <3>1. (n - 1) + 1 = n
      OBVIOUS
    <3> HIDE DEF upto
    <3> QED BY <2>9, <3>1
  <2> QED BY <2>5, <2>10
<1> QED BY <1>1, <1>2

------------------------------------------------------------------------------
(* The lines of a file. *)

\* the last byte of each line
Ends(f) == Newlines(f) \cup (DOMAIN f \cap {Len(f)})

\* where the lines begin and end
Cut(f) == [k \in 0 .. Cardinality(Ends(f)) |-> IF k = 0 THEN 0 ELSE Ascending(Ends(f))[k]]

\* The lines of a file end at finitely many of its positions.
LEMMA EndsFinite ==
  ASSUME NEW A, NEW f \in Seq(A)
  PROVE  /\ Ends(f) \in SUBSET (1 .. Len(f)) /\ Ends(f) \in SUBSET Nat
         /\ IsFiniteSet(Ends(f)) /\ Cardinality(Ends(f)) \in Nat
<1>1. Ends(f) \in SUBSET (1 .. Len(f)) /\ Ends(f) \in SUBSET Nat /\ Len(f) \in Nat
  BY NewlinesFinite DEF Ends
<1>2. IsFiniteSet(1 .. Len(f))
  BY <1>1, FS_Interval
<1> QED BY <1>1, <1>2, FS_Subset, FS_CardinalityType, Zenon

\* The cuts rise from the start of the file to its end.
LEMMA CutsInOrder ==
  ASSUME NEW A, NEW f \in Seq(A)
  PROVE  LET c == Cardinality(Ends(f))
         IN  /\ Cut(f) \in [0 .. c -> 0 .. Len(f)]
             /\ Cut(f)[0] = 0 /\ Cut(f)[c] = Len(f)
             /\ \A k \in 1 .. c : /\ Cut(f)[k] = Ascending(Ends(f))[k]
                                  /\ Cut(f)[k - 1] < Cut(f)[k]
<1> DEFINE E == Ends(f)
           c == Cardinality(E)
<1>0. /\ Len(f) \in Nat /\ E \in SUBSET (1 .. Len(f)) /\ E \in SUBSET Nat /\ IsFiniteSet(E)
      /\ c \in Nat
  BY EndsFinite, NewlinesFinite
<1>1. /\ \A k \in 1 .. c : Ascending(E)[k] \in E
      /\ \A j, k \in 1 .. c : j < k => Ascending(E)[j] < Ascending(E)[k]
  BY <1>0, AscendingOrder
<1>2. /\ Cut(f)[0] = 0
      /\ \A k \in 1 .. c : Cut(f)[k] = Ascending(E)[k]
  BY <1>0 DEF Cut
<1>3. Cut(f) \in [0 .. c -> 0 .. Len(f)]
  <2>1. \A k \in 0 .. c : (IF k = 0 THEN 0 ELSE Ascending(E)[k]) \in 0 .. Len(f)
    <3> SUFFICES ASSUME NEW k \in 0 .. c, k # 0 PROVE Ascending(E)[k] \in 0 .. Len(f)
      BY <1>0
    <3>1. k \in 1 .. c
      BY <1>0
    <3>2. Ascending(E)[k] \in 1 .. Len(f)
      BY <1>0, <1>1, <3>1
    <3> QED BY <1>0, <3>2
  <2> QED BY <2>1 DEF Cut
<1>4. ASSUME NEW k \in 1 .. c PROVE Cut(f)[k - 1] < Cut(f)[k]
  <2>1. CASE k = 1
    <3>1. Ascending(E)[k] \in 1 .. Len(f)
      BY <1>0, <1>1
    <3> QED BY <1>0, <1>2, <2>1, <3>1
  <2>2. CASE k # 1
    <3>1. k - 1 \in 1 .. c /\ k - 1 < k
      BY <1>0, <2>2
    <3> HIDE DEF E, c
    <3>2. Ascending(E)[k - 1] < Ascending(E)[k]
      BY <1>1, <3>1
    <3> QED BY <1>2, <3>1, <3>2 DEF c
  <2> QED BY <2>1, <2>2
<1>5. Cut(f)[c] = Len(f)
  <2>1. CASE Len(f) = 0
    <3>1. E = {}
      BY <1>0, <2>1
    <3>2. c = 0
      BY <3>1, FS_EmptySet
    <3> QED BY <1>2, <2>1, <3>2
  <2>2. CASE Len(f) # 0
    <3>1. Len(f) \in E
      BY <1>0, <2>2, NewlinesFinite DEF Ends
    <3>2. Rank(E, Len(f)) = c
      <4>1. {y \in E : y <= Len(f)} = E
        BY <1>0
      <4> QED BY <4>1 DEF Rank
    <3>3. c \in 1 .. c /\ Ascending(E)[c] = Len(f)
      BY <1>0, <3>1, <3>2, AscendingAt
    <3> QED BY <1>2, <3>3
  <2> QED BY <2>1, <2>2
<1> QED BY <1>2, <1>3, <1>4, <1>5

\* The lines are what lies between the cuts.
LEMMA LinesAre ==
  ASSUME NEW A, NEW f \in Seq(A)
  PROVE  LET c == Cardinality(Ends(f))
         IN  /\ SplitLines(f) \in Seq(Seq(A)) /\ Len(SplitLines(f)) = c
             /\ \A k \in 1 .. c : SplitLines(f)[k] = SubSeq(f, Cut(f)[k - 1] + 1, Cut(f)[k])
<1> DEFINE E == Ends(f)
           c == Cardinality(E)
           line(k) == SubSeq(f, IF k = 1 THEN 1 ELSE Ascending(E)[k - 1] + 1, Ascending(E)[k])
<1>0. E \in SUBSET Nat /\ IsFiniteSet(E) /\ c \in Nat /\ DOMAIN Ascending(E) = 1 .. c
  BY EndsFinite, AscendingOrder
<1>1. SplitLines(f) = [k \in 1 .. c |-> line(k)]
  BY <1>0 DEF SplitLines, Ends
<1>2. ASSUME NEW k \in 1 .. c
      PROVE  line(k) = SubSeq(f, Cut(f)[k - 1] + 1, Cut(f)[k]) /\ line(k) \in Seq(A)
  <2>1. /\ k \in 0 .. c /\ k - 1 \in 0 .. c
        /\ Cut(f)[k - 1] \in 0 .. Len(f) /\ Cut(f)[k] \in 0 .. Len(f)
        /\ Cut(f)[k] = Ascending(E)[k] /\ Cut(f)[0] = 0
        /\ k # 1 => Cut(f)[k - 1] = Ascending(E)[k - 1]
    <3>1. k \in 0 .. c /\ k - 1 \in 0 .. c /\ (k # 1 => k - 1 \in 1 .. c)
      BY <1>0
    <3> HIDE DEF E, c
    <3> QED BY <3>1, CutsInOrder DEF E, c
  <2>2. line(k) = SubSeq(f, Cut(f)[k - 1] + 1, Cut(f)[k])
    <3>1. CASE k = 1
      BY <2>1, <3>1
    <3>2. CASE k # 1
      BY <2>1, <3>2
    <3> QED BY <3>1, <3>2
  <2>3. SubSeq(f, Cut(f)[k - 1] + 1, Cut(f)[k]) \in Seq(A)
    <3>1. /\ Len(f) \in Nat /\ Cut(f)[k - 1] + 1 \in Int /\ Cut(f)[k] \in Int
          /\ \A i \in Cut(f)[k - 1] + 1 .. Cut(f)[k] : i \in 1 .. Len(f)
      BY <2>1, NewlinesFinite
    <3>2. \A i \in Cut(f)[k - 1] + 1 .. Cut(f)[k] : f[i] \in A
      BY <3>1, ElementOfSeq
    <3> QED BY <3>1, <3>2, SubSeqProperties
  <2> HIDE DEF line
  <2> QED BY <2>2, <2>3
<1> HIDE DEF line
<1>3. SplitLines(f) \in [1 .. c -> Seq(A)]
  BY <1>1, <1>2
<1>4. SplitLines(f) \in Seq(Seq(A)) /\ Len(SplitLines(f)) = c
  BY <1>0, <1>3, SeqDef, SMTT(40)
<1> QED BY <1>1, <1>2, <1>4

\* Consecutive lines, put together, are the bytes between their cuts.
LEMMA LinesFlatten ==
  ASSUME NEW A, NEW f \in Seq(A), NEW a \in 0 .. Cardinality(Ends(f)),
         NEW b \in a .. Cardinality(Ends(f))
  PROVE  FlattenSeq(SubSeq(SplitLines(f), a + 1, b)) = SubSeq(f, Cut(f)[a] + 1, Cut(f)[b])
<1> DEFINE c == Cardinality(Ends(f))
           lines == SplitLines(f)
           some == SubSeq(lines, a + 1, b)
           n == b - a
           cut == [i \in 0 .. n |-> Cut(f)[a + i]]
<1>0. c \in Nat /\ a \in Nat /\ b \in Nat /\ n \in Nat /\ a <= b /\ b <= c
  BY EndsFinite
<1>1. /\ lines \in Seq(Seq(A)) /\ Len(lines) = c
      /\ \A k \in 1 .. c : lines[k] = SubSeq(f, Cut(f)[k - 1] + 1, Cut(f)[k])
  BY LinesAre
<1>2. Len(some) = n /\ \A i \in 1 .. n : some[i] = lines[a + i]
  <2>1. b = a + n /\ a + n <= Len(lines) /\ lines \in Seq(Seq(A))
    BY <1>0, <1>1
  <2> HIDE DEF lines, n
  <2>2. LET s == SubSeq(lines, a + 1, a + n)
        IN  s \in Seq(Seq(A)) /\ Len(s) = n /\ \A i \in 1 .. n : s[i] = lines[a + i]
    <3> DEFINE B == Seq(A)
    <3>1. a \in Nat /\ n \in Nat /\ lines \in Seq(B) /\ a + n <= Len(lines)
      BY <1>0, <2>1
    <3> HIDE DEF B
    <3>2. LET s == SubSeq(lines, a + 1, a + n)
          IN  s \in Seq(B) /\ Len(s) = n /\ \A i \in 1 .. n : s[i] = lines[a + i]
      BY <3>1, Part, Zenon
    <3> QED BY <3>2, Zenon DEF B
  <2> QED BY <2>1, <2>2
<1>3. n = 0 => some = <<>>
  <2>1. n = 0 => a + 1 \in Int /\ b \in Int /\ b < a + 1
    BY <1>0
  <2> QED BY <2>1, SubSeqEmpty
<1>4. /\ Cut(f) \in [0 .. c -> 0 .. Len(f)]
      /\ \A k \in 1 .. c : Cut(f)[k - 1] < Cut(f)[k]
  BY CutsInOrder
<1>5. \A i \in 0 .. n : a + i \in 0 .. c
  BY <1>0
<1>6. cut \in [0 .. n -> 0 .. Len(f)]
  BY <1>4, <1>5
<1>7. /\ \A i \in 1 .. n : cut[i - 1] <= cut[i]
      /\ \A i \in 1 .. n : some[i] = SubSeq(f, cut[i - 1] + 1, cut[i])
  <2> SUFFICES ASSUME NEW i \in 1 .. n
               PROVE  /\ cut[i - 1] <= cut[i]
                      /\ some[i] = SubSeq(f, cut[i - 1] + 1, cut[i])
    OBVIOUS
  <2>1. /\ i \in 0 .. n /\ i - 1 \in 0 .. n /\ a + i \in 1 .. c
        /\ (a + i) - 1 = a + (i - 1)
    BY <1>0
  <2>2. cut[i] = Cut(f)[a + i] /\ cut[i - 1] = Cut(f)[(a + i) - 1]
    BY <2>1
  <2>3. cut[i] \in Nat /\ cut[i - 1] \in Nat
    <3> HIDE DEF cut
    <3>1. cut[i] \in 0 .. Len(f) /\ cut[i - 1] \in 0 .. Len(f)
      BY <1>6, <2>1
    <3> QED BY <3>1, LenProperties
  <2>4. some[i] = lines[a + i]
    BY <1>2
  <2> HIDE DEF cut, some, lines
  <2>5. cut[i - 1] < cut[i]
    BY <1>4, <2>1, <2>2
  <2>6. lines[a + i] = SubSeq(f, Cut(f)[(a + i) - 1] + 1, Cut(f)[a + i])
    BY <1>1, <2>1
  <2> QED BY <2>2, <2>3, <2>4, <2>5, <2>6
<1>8. cut[0] = Cut(f)[a] /\ cut[n] = Cut(f)[b]
  BY <1>0
<1> HIDE DEF cut, some, n
<1>9. FlattenSeq(some) = SubSeq(f, cut[0] + 1, cut[n])
  <2>1. ArePieces(f, n, cut, some)
    BY <1>0, <1>2, <1>3, <1>6, <1>7 DEF ArePieces
  <2> QED BY <2>1, PiecesFlatten
<1> QED BY <1>8, <1>9 DEF some

------------------------------------------------------------------------------
(* A set is its list, and a position is in a line. *)

\* d lists S in order
ListedBy(S, n, d) ==
  /\ n \in Nat /\ d \in [1 .. n -> Nat]
  /\ \A i, j \in 1 .. n : i < j => d[i] < d[j]
  /\ \A i \in 1 .. n : d[i] \in S
  /\ \A x \in S : \E i \in 1 .. n : x = d[i]

\* A set listed in order is that list.
LEMMA AscendingIs ==
  ASSUME NEW S, NEW n, NEW d, ListedBy(S, n, d)
  PROVE  /\ S \in SUBSET Nat /\ IsFiniteSet(S) /\ Cardinality(S) = n
         /\ \A i \in 1 .. n : Ascending(S)[i] = d[i]
<1> /\ n \in Nat /\ d \in [1 .. n -> Nat]
    /\ \A i, j \in 1 .. n : i < j => d[i] < d[j]
    /\ \A i \in 1 .. n : d[i] \in S
    /\ \A x \in S : \E i \in 1 .. n : x = d[i]
  BY DEF ListedBy
<1>0. S = {d[i] : i \in 1 .. n}
  OBVIOUS
<1>1. ASSUME NEW m \in 0 .. n
      PROVE  ExistsBijection(1 .. m, {d[i] : i \in 1 .. m})
  <2> DEFINE e == [i \in 1 .. m |-> d[i]]
             T == {d[i] : i \in 1 .. m}
  <2>1. \A i \in 1 .. m : i \in 1 .. n
    OBVIOUS
  <2>2. e \in [1 .. m -> T] /\ \A t \in T : \E i \in 1 .. m : e[i] = t
    OBVIOUS
  <2>3. ASSUME NEW i \in 1 .. m, NEW j \in 1 .. m, e[i] = e[j] PROVE i = j
    <3>1. d[i] = d[j] /\ d[i] \in Nat /\ d[j] \in Nat
      BY <2>1, <2>3
    <3>2. ~ (i < j) /\ ~ (j < i)
      BY <2>1, <3>1
    <3> QED BY <3>2
  <2> HIDE DEF e, T
  <2>4. e \in Bijection(1 .. m, T)
    BY <2>2, <2>3 DEF Bijection, Injection, IsInjective, Surjection
  <2> QED BY <2>4 DEF ExistsBijection, T
<1>2. S \in SUBSET Nat /\ IsFiniteSet(S) /\ Cardinality(S) = n
  <2>1. ExistsBijection(1 .. n, S)
    <3>1. n \in 0 .. n
      OBVIOUS
    <3> QED BY <1>0, <1>1, <3>1, Zenon
  <2>2. S \in SUBSET Nat
    BY <1>0
  <2>3. IsFiniteSet(S)
    BY <2>1, FS_NatBijection
  <2> QED BY <2>1, <2>2, <2>3, FS_CountingElements
<1>3. ASSUME NEW k \in 1 .. n PROVE Ascending(S)[k] = d[k]
  <2>1. {y \in S : y <= d[k]} = {d[i] : i \in 1 .. k}
    <3>1. ASSUME NEW i \in 1 .. n PROVE d[i] <= d[k] <=> i \in 1 .. k
      <4>1. d[i] \in Nat /\ d[k] \in Nat
        OBVIOUS
      <4>2. (i < k => d[i] < d[k]) /\ (k < i => d[k] < d[i])
        OBVIOUS
      <4>3. i < k \/ i = k \/ k < i
        OBVIOUS
      <4> QED BY <4>1, <4>2, <4>3
    <3>2. \A i \in 1 .. k : i \in 1 .. n
      OBVIOUS
    <3> QED BY <1>0, <3>1, <3>2
  <2>2. Rank(S, d[k]) = k
    <3>1. k \in 0 .. n /\ k \in Nat
      OBVIOUS
    <3>2. ExistsBijection(1 .. k, {y \in S : y <= d[k]})
      BY <1>1, <2>1, <3>1
    <3> QED BY <3>1, <3>2, FS_CountingElements DEF Rank
  <2>3. d[k] \in S
    OBVIOUS
  <2> QED BY <1>2, <2>2, <2>3, AscendingAt, SMTT(40)
<1> QED BY <1>2, <1>3

\* A later line is cut later.
LEMMA CutsGrow ==
  ASSUME NEW A, NEW f \in Seq(A),
         NEW j \in 0 .. Cardinality(Ends(f)), NEW k \in 0 .. Cardinality(Ends(f)), j < k
  PROVE  Cut(f)[j] < Cut(f)[k]
<1> DEFINE E == Ends(f)
           c == Cardinality(E)
<1>0. c \in Nat /\ E \in SUBSET (1 .. Len(f)) /\ E \in SUBSET Nat /\ IsFiniteSet(E)
  BY EndsFinite
<1>1. /\ Cut(f)[0] = 0
      /\ \A i \in 1 .. c : Cut(f)[i] = Ascending(E)[i]
  BY CutsInOrder
<1>2. /\ \A i \in 1 .. c : Ascending(E)[i] \in E
      /\ \A i, m \in 1 .. c : i < m => Ascending(E)[i] < Ascending(E)[m]
  BY <1>0, AscendingOrder
<1>3. k \in 1 .. c /\ (j # 0 => j \in 1 .. c)
  BY <1>0
<1> HIDE DEF c
<1>4. CASE j = 0
  <2>1. Ascending(E)[k] \in 1 .. Len(f)
    BY <1>0, <1>2, <1>3
  <2>2. Ascending(E)[k] > 0
    BY <2>1
  <2> QED BY <1>1, <1>3, <1>4, <2>2
<1>5. CASE j # 0
  BY <1>1, <1>2, <1>3, <1>5
<1> QED BY <1>4, <1>5

\* The rank of a position tells its line.
LEMMA CutsByRank ==
  ASSUME NEW A, NEW f \in Seq(A)
  PROVE  LET E == Ends(f)
             c == Cardinality(E)
         IN  /\ \A k \in 0 .. c : Rank(E, Cut(f)[k]) = k
             /\ \A k \in 1 .. c : Cut(f)[k] \in E
<1> DEFINE E == Ends(f)
           c == Cardinality(E)
<1>0. c \in Nat /\ E \in SUBSET (1 .. Len(f)) /\ E \in SUBSET Nat /\ IsFiniteSet(E)
  BY EndsFinite
<1>1. /\ Cut(f)[0] = 0
      /\ \A i \in 1 .. c : Cut(f)[i] = Ascending(E)[i]
  BY CutsInOrder
<1>2. \A i \in 1 .. c : Ascending(E)[i] \in E /\ Rank(E, Ascending(E)[i]) = i
  BY <1>0, AscendingOrder
<1>3. Rank(E, 0) = 0
  <2>1. {y \in E : y <= 0} = {}
    BY <1>0
  <2> QED BY <2>1, FS_EmptySet DEF Rank
<1>4. \A k \in 0 .. c : k = 0 \/ k \in 1 .. c
  BY <1>0
<1> HIDE DEF c, E
<1> QED BY <1>1, <1>2, <1>3, <1>4 DEF c, E

\* A position lies in the line its rank tells.
LEMMA LineAt ==
  ASSUME NEW A, NEW f \in Seq(A), NEW x \in 0 .. Len(f) - 1
  PROVE  LET k == Rank(Ends(f), x) + 1
         IN  /\ k \in 1 .. Cardinality(Ends(f)) /\ k - 1 \in 0 .. Cardinality(Ends(f))
             /\ Cut(f)[k - 1] <= x /\ x < Cut(f)[k]
<1> DEFINE E == Ends(f)
           c == Cardinality(E)
           r == Rank(E, x)
<1>0. /\ c \in Nat /\ E \in SUBSET Nat /\ IsFiniteSet(E) /\ Len(f) \in Nat
      /\ x \in Nat /\ x < Len(f)
  BY EndsFinite, NewlinesFinite
<1>1. /\ Cut(f)[0] = 0 /\ Cut(f)[c] = Len(f)
      /\ \A i \in 0 .. c : Cut(f)[i] \in Nat
  BY CutsInOrder, <1>0
<1>2. /\ \A k \in 0 .. c : Rank(E, Cut(f)[k]) = k
      /\ \A k \in 1 .. c : Cut(f)[k] \in E
  BY CutsByRank
<1>3. r \in Nat /\ r <= c
  BY <1>0, RankType
<1> HIDE DEF E, c
<1>4. r < c
  <2>1. c # 0 /\ c \in 1 .. c /\ c \in 0 .. c
    BY <1>0, <1>1
  <2>2. Len(f) \in E /\ Rank(E, Len(f)) = c
    BY <1>1, <1>2, <2>1
  <2> QED BY <1>0, <2>2, RankGrows
<1>5. r \in 0 .. c /\ r + 1 \in 1 .. c /\ r + 1 \in 0 .. c /\ (r + 1) - 1 = r
  BY <1>0, <1>3, <1>4
<1>6. Cut(f)[r] <= x
  <2>1. CASE r = 0
    BY <1>0, <1>1, <2>1
  <2>2. CASE r # 0
    <3>1. r \in 1 .. c
      BY <1>5, <2>2
    <3>2. Cut(f)[r] \in E /\ Rank(E, Cut(f)[r]) = r /\ Cut(f)[r] \in Nat
      BY <1>1, <1>2, <1>5, <3>1
    <3>3. x < Cut(f)[r] => r < r
      <4> HIDE DEF r
      <4> QED BY <1>0, <3>2, RankGrows DEF r
    <3> HIDE DEF r
    <3> QED BY <1>0, <1>3, <3>2, <3>3
  <2> QED BY <2>1, <2>2
<1>7. x < Cut(f)[r + 1]
  <2>1. Rank(E, Cut(f)[r + 1]) = r + 1 /\ Cut(f)[r + 1] \in Nat
    BY <1>1, <1>2, <1>5
  <2>2. Cut(f)[r + 1] <= x => r >= r + 1
    <3> HIDE DEF r
    <3>1. ASSUME Cut(f)[r + 1] <= x
          PROVE  /\ Cardinality(E \cap (Cut(f)[r + 1] + 1 .. x)) \in Nat
                 /\ Rank(E, x) = Rank(E, Cut(f)[r + 1]) + Cardinality(E \cap (Cut(f)[r + 1] + 1 .. x))
      BY <1>0, <2>1, <3>1, RankSplits
    <3> QED BY <1>3, <2>1, <3>1 DEF r
  <2> HIDE DEF r
  <2> QED BY <1>0, <1>3, <2>1, <2>2
<1> HIDE DEF r
<1> QED BY <1>5, <1>6, <1>7 DEF E, c, r

\* A position of a line has the rank of that line.
LEMMA LineOf ==
  ASSUME NEW A, NEW f \in Seq(A), NEW k \in 1 .. Cardinality(Ends(f)),
         NEW x \in Nat, Cut(f)[k - 1] <= x, x < Cut(f)[k]
  PROVE  Rank(Ends(f), x) = k - 1
<1> DEFINE E == Ends(f)
           c == Cardinality(E)
           p == Cut(f)[k - 1]
           M == E \cap (p + 1 .. x)
<1>0. c \in Nat /\ E \in SUBSET Nat /\ IsFiniteSet(E) /\ k - 1 \in 0 .. c /\ k \in 0 .. c
  BY EndsFinite
<1>1. p \in Nat
  <2>1. Cut(f) \in [0 .. c -> 0 .. Len(f)]
    BY CutsInOrder
  <2> QED BY <1>0, <2>1, NewlinesFinite
<1>2. Rank(E, p) = k - 1 /\ Rank(E, Cut(f)[k]) = k /\ Cut(f)[k] \in E
  BY <1>0, CutsByRank
<1>3. Cardinality(M) \in Nat /\ Rank(E, x) = Rank(E, p) + Cardinality(M)
  <2> HIDE DEF p
  <2>1. p <= x
    BY DEF p
  <2> QED BY <1>0, <1>1, <2>1, RankSplits
<1>4. Rank(E, x) < k
  BY <1>0, <1>2, RankGrows
<1>5. k \in Nat
  BY <1>0
<1> HIDE DEF E, M, p
<1> QED BY <1>2, <1>3, <1>4, <1>5 DEF E

\* A part of a file.
LEMMA PartType ==
  ASSUME NEW A, NEW f \in Seq(A), NEW h \in 0 .. Len(f)
  PROVE  SubSeq(f, 1, h) \in Seq(A) /\ Len(SubSeq(f, 1, h)) = h
<1>1. /\ 1 \in Int /\ h \in Int /\ \A i \in 1 .. h : i \in 1 .. Len(f)
      /\ (IF 1 <= h THEN h - 1 + 1 ELSE 0) = h
  BY NewlinesFinite
<1>2. \A i \in 1 .. h : f[i] \in A
  BY <1>1, ElementOfSeq
<1> QED BY <1>1, <1>2, SubSeqProperties

\* A part and the rest of the file behind it.
LEMMA PartsMeet ==
  ASSUME NEW A, NEW f \in Seq(A), NEW p \in 0 .. Len(f), NEW q \in p .. Len(f)
  PROVE  SubSeq(f, p + 1, q) \o SubSeq(f, q + 1, Len(f)) = SubSeq(f, p + 1, Len(f))
<1>1. Len(f) \in Nat
  BY NewlinesFinite
<1>2. p + 1 \in 1 .. Len(f) + 1 /\ q \in (p + 1) - 1 .. Len(f) /\ Len(f) \in q .. Len(f)
  BY <1>1
<1> QED BY <1>2, ConcatAdjacentSubSeq

------------------------------------------------------------------------------
(* Folds over sequences. *)

\* What is in a set and above all of it is its maximum.
LEMMA MaxIs ==
  ASSUME NEW S \in SUBSET Nat, NEW x \in S, \A y \in S : y <= x
  PROVE  Max(S) = x
<1>1. Max(S) \in S /\ \A y \in S : Max(S) >= y
  BY DEF Max
<1>2. PICK m \in S : m = Max(S) /\ m >= x /\ m <= x
  BY <1>1
<1>3. m \in Nat /\ x \in Nat
  OBVIOUS
<1> QED BY <1>2, <1>3

\* A set of numbers up to n has a greatest element, and Max is that: the one
\* that comes last in ascending order.
LEMMA GreatestOf ==
  ASSUME NEW n \in Nat, NEW S \in SUBSET (1 .. n), S # {}
  PROVE  Max(S) \in S /\ \A y \in S : y <= Max(S)
<1> DEFINE a == Ascending(S)
           c == Cardinality(S)
<1>1. S \in SUBSET Nat /\ IsFiniteSet(S)
  <2>1. IsFiniteSet(1 .. n)
    BY FS_Interval
  <2>2. IsFiniteSet(S)
    BY <2>1, FS_Subset
  <2> QED BY <2>2
<1>2. c \in Nat /\ c # 0 /\ c \in 1 .. c
  <2>1. c \in Nat
    BY <1>1, FS_CardinalityType
  <2>2. c # 0
    BY <1>1, FS_EmptySet
  <2> HIDE DEF c
  <2> QED BY <2>1, <2>2
<1>3. PICK x \in S : x = a[c] /\ Rank(S, x) = c
  BY <1>1, <1>2, AscendingOrder
<1>4. \A y \in S : y <= x
  <2> SUFFICES ASSUME NEW y \in S, ~ (y <= x) PROVE FALSE
    OBVIOUS
  <2>1. x \in Nat /\ y \in Nat /\ x < y
    BY <1>1
  <2>2. Rank(S, x) < Rank(S, y) /\ Rank(S, y) <= c /\ Rank(S, y) \in Nat
    BY <1>1, <2>1, RankGrows, RankType
  <2> QED BY <1>2, <1>3, <2>2
<1>5. Max(S) = x
  BY <1>1, <1>4, MaxIs
<1> QED BY <1>4, <1>5

\* The recursion that FoldLeft unfolds to, of a step that is a function.
IsFold(f, base, F, g) ==
  g = [s \in SUBSET DOMAIN f |->
         IF s = {} THEN base ELSE F[<<g[s \ {Max(s)}], f[Max(s)]>>]]

\* A fold defines a function: the sets of places below m + 1 follow from those
\* below m.
LEMMA FoldsEnd ==
  ASSUME NEW A, NEW f \in Seq(A), NEW X, NEW base \in X, NEW F \in [X \X A -> X]
  PROVE  \E g \in [SUBSET DOMAIN f -> X] : IsFold(f, base, F, g)
<1> DEFINE D == DOMAIN f
           Step(g, s) == IF s = {} THEN base ELSE F[<<g[s \ {Max(s)}], f[Max(s)]>>]
           Good(g, m) == \A s \in SUBSET (1 .. m) : g[s] \in X /\ g[s] = Step(g, s)
           M == {m \in Nat : m <= Len(f) => \E g : Good(g, m)}
<1>0. Len(f) \in Nat /\ D = 1 .. Len(f) /\ \A i \in 1 .. Len(f) : f[i] \in A
  BY NewlinesFinite, ElementOfSeq
<1>1. 0 \in M
  <2> DEFINE g == [s \in SUBSET (1 .. 0) |-> base]
  <2>1. \A s \in SUBSET (1 .. 0) : s = {}
    OBVIOUS
  <2>2. Good(g, 0)
    BY <2>1
  <2> HIDE DEF Good
  <2> QED BY <2>2
<1>2. ASSUME NEW m \in Nat, m \in M PROVE m + 1 \in M
  <2> SUFFICES ASSUME m + 1 <= Len(f) PROVE \E g : Good(g, m + 1)
    <3> HIDE DEF Good
    <3> QED OBVIOUS
  <2>1. m <= Len(f) /\ m + 1 \in 1 .. Len(f)
    BY <1>0
  <2>2. PICK g : Good(g, m)
    BY <1>2, <2>1
  <2> DEFINE h == [s \in SUBSET (1 .. m + 1) |->
                     IF s \in SUBSET (1 .. m) THEN g[s] ELSE F[<<g[s \ {m + 1}], f[m + 1]>>]]
  <2>3. ASSUME NEW s \in SUBSET (1 .. m + 1) PROVE h[s] \in X /\ h[s] = Step(h, s)
    <3>1. CASE s \in SUBSET (1 .. m)
      <4>1. h[s] = g[s] /\ g[s] \in X /\ g[s] = Step(g, s)
        BY <2>2, <3>1
      <4>2. CASE s = {}
        BY <4>1, <4>2
      <4>3. CASE s # {}
        <5>1. s \ {Max(s)} \in SUBSET (1 .. m) /\ s \ {Max(s)} \in SUBSET (1 .. m + 1)
          BY <3>1
        <5>2. h[s \ {Max(s)}] = g[s \ {Max(s)}]
          BY <5>1
        <5> HIDE DEF h
        <5> QED BY <4>1, <4>3, <5>2
      <4> QED BY <4>2, <4>3
    <3>2. CASE s \notin SUBSET (1 .. m)
      <4>1. m + 1 \in s /\ \A y \in s : y <= m + 1
        BY <3>2
      <4>2. Max(s) = m + 1
        <5>1. s \in SUBSET Nat
          OBVIOUS
        <5> QED BY <4>1, <5>1, MaxIs
      <4>3. s \ {m + 1} \in SUBSET (1 .. m) /\ s \ {m + 1} \in SUBSET (1 .. m + 1)
        OBVIOUS
      <4>4. h[s \ {m + 1}] = g[s \ {m + 1}] /\ g[s \ {m + 1}] \in X
        BY <2>2, <4>3
      <4>5. h[s] = F[<<g[s \ {m + 1}], f[m + 1]>>]
        BY <3>2
      <4>6. f[m + 1] \in A /\ s # {}
        BY <1>0, <2>1, <4>1
      <4> HIDE DEF h
      <4> QED BY <4>2, <4>4, <4>5, <4>6
    <3> QED BY <3>1, <3>2
  <2> HIDE DEF h
  <2>4. Good(h, m + 1)
    BY <2>3
  <2> HIDE DEF Good
  <2> QED BY <2>4
<1>3. PICK g : Good(g, Len(f))
  <2>1. Len(f) \in M
    <3> HIDE DEF M
    <3> QED BY <1>0, <1>1, <1>2, SetInduction
  <2> HIDE DEF Good
  <2> QED BY <1>0, <2>1
<1> DEFINE h == [s \in SUBSET D |-> g[s]]
<1>4. \A s \in SUBSET D : h[s] \in X /\ h[s] = Step(h, s)
  <2> SUFFICES ASSUME NEW s \in SUBSET D PROVE h[s] \in X /\ h[s] = Step(h, s)
    OBVIOUS
  <2>1. h[s] = g[s] /\ g[s] \in X /\ g[s] = Step(g, s)
    BY <1>0, <1>3
  <2>2. s \ {Max(s)} \in SUBSET D
    OBVIOUS
  <2>3. h[s \ {Max(s)}] = g[s \ {Max(s)}]
    BY <2>2
  <2> HIDE DEF h
  <2> QED BY <2>1, <2>3
<1>5. h = [s \in SUBSET D |-> h[s]]
  OBVIOUS
<1> HIDE DEF h
<1>6. h \in [SUBSET D -> X]
  BY <1>4, <1>5
<1>7. IsFold(f, base, F, h)
  BY <1>4, <1>5 DEF IsFold
<1> QED BY <1>6, <1>7

\* The places up to one of them, in the order of a fold.
LEMMA PlacesUpTo ==
  ASSUME NEW n \in Nat, NEW k \in 1 .. n
  PROVE  /\ 1 .. k \in SUBSET (1 .. n) /\ 1 .. k # {} /\ Max(1 .. k) = k
         /\ (1 .. k) \ {k} = 1 .. k - 1 /\ k \in 0 .. n /\ k - 1 \in 0 .. n
<1>1. k \in Nat /\ k >= 1 /\ k <= n /\ k - 1 \in Nat /\ k - 1 <= n
  OBVIOUS
<1>2. k \in 1 .. k /\ \A y \in 1 .. k : y \in 1 .. n /\ y <= k
  BY <1>1
<1>3. \A y : y \in 1 .. k /\ y # k <=> y \in 1 .. k - 1
  BY <1>1
<1>4. (1 .. k) \ {k} = 1 .. k - 1
  BY <1>3
<1>5. 1 .. k \in SUBSET Nat
  OBVIOUS
<1>6. Max(1 .. k) = k
  BY <1>2, <1>5, MaxIs
<1> QED BY <1>1, <1>2, <1>4, <1>6

\* st goes through the values of a fold, one per element.
GoesThrough(f, base, F, st) ==
  st[0] = base /\ \A k \in 1 .. Len(f) : st[k] = F[<<st[k - 1], f[k]>>]

\* There is such a way through the values of a fold over a sequence.
LEMMA FoldGoes ==
  ASSUME NEW A, NEW f \in Seq(A), NEW X, NEW base \in X, NEW F \in [X \X A -> X]
  PROVE  \E st \in [0 .. Len(f) -> X] : GoesThrough(f, base, F, st)
<1>0. Len(f) \in Nat /\ DOMAIN f = 1 .. Len(f)
  BY LenProperties
<1>g. PICK g \in [SUBSET DOMAIN f -> X] : IsFold(f, base, F, g)
  BY FoldsEnd
<1> DEFINE st == [k \in 0 .. Len(f) |-> g[1 .. k]]
<1>1. \A k \in 0 .. Len(f) : 1 .. k \in SUBSET DOMAIN f
  BY <1>0
<1>2. st \in [0 .. Len(f) -> X]
  BY <1>1, <1>g
<1>3. \A s \in SUBSET DOMAIN f :
        g[s] = IF s = {} THEN base ELSE F[<<g[s \ {Max(s)}], f[Max(s)]>>]
  BY <1>g, Zenon DEF IsFold
<1>4. st[0] = base
  <2>1. 1 .. 0 = {} /\ 0 \in 0 .. Len(f) /\ {} \in SUBSET DOMAIN f
    BY <1>0
  <2> QED BY <1>3, <2>1
<1>6. ASSUME NEW k \in 1 .. Len(f) PROVE st[k] = F[<<st[k - 1], f[k]>>]
  <2>1. /\ 1 .. k \in SUBSET DOMAIN f /\ 1 .. k # {} /\ Max(1 .. k) = k
        /\ (1 .. k) \ {k} = 1 .. k - 1 /\ k \in 0 .. Len(f) /\ k - 1 \in 0 .. Len(f)
    BY <1>0, PlacesUpTo
  <2>2. g[1 .. k] = F[<<g[(1 .. k) \ {Max(1 .. k)}], f[Max(1 .. k)]>>]
    BY <1>3, <2>1
  <2> QED BY <2>1, <2>2
<1> HIDE DEF st
<1> QED BY <1>2, <1>4, <1>6 DEF GoesThrough

\* st goes through the elements of seqs, putting each behind those before it.
Flattens(seqs, st) ==
  st[0] = <<>> /\ \A k \in 1 .. Len(seqs) : st[k] = st[k - 1] \o seqs[k]

\* Flattening a sequence of sequences does.
LEMMA FlattenSteps ==
  ASSUME NEW A, NEW seqs \in Seq(Seq(A))
  PROVE  \E st \in [0 .. Len(seqs) -> Seq(A)] :
           Flattens(seqs, st) /\ FlattenSeq(seqs) = st[Len(seqs)]
<1> DEFINE X == Seq(A)
           F == [p \in X \X X |-> p[1] \o p[2]]
           n == Len(seqs)
<1>0. n \in Nat /\ seqs \in Seq(X) /\ \A k \in 1 .. n : seqs[k] \in X
  BY LenProperties, ElementOfSeq
<1>1. <<>> \in X /\ \A x, y \in X : x \o y \in X /\ F[<<x, y>>] = x \o y
  BY EmptySeq, ConcatProperties
<1>2. F \in [X \X X -> X]
  <2> HIDE DEF X
  <2> QED BY <1>1
<1>3. PICK st \in [0 .. n -> X] :
        st[0] = <<>> /\ \A k \in 1 .. n : st[k] = F[<<st[k - 1], seqs[k]>>]
  <2> HIDE DEF F, X
  <2>1. PICK st \in [0 .. n -> X] : GoesThrough(seqs, <<>>, F, st)
    BY <1>0, <1>1, <1>2, FoldGoes
  <2> QED BY <2>1 DEF GoesThrough
<1> HIDE DEF F
<1>4. \A k \in 1 .. n : st[k] = st[k - 1] \o seqs[k]
  <2> SUFFICES ASSUME NEW k \in 1 .. n PROVE st[k] = st[k - 1] \o seqs[k]
    OBVIOUS
  <2>1. k - 1 \in 0 .. n
    BY <1>0
  <2>2. st[k - 1] \in X /\ seqs[k] \in X
    BY <1>0, <1>3, <2>1
  <2> HIDE DEF X
  <2> QED BY <1>1, <1>3, <2>2
<1>5. FlattenSeq(seqs) = st[n]
  <2>1. CASE n = 0
    <3>1. seqs = <<>>
      BY <2>1, EmptySeq
    <3> QED BY <1>3, <2>1, <3>1 DEF FlattenSeq
  <2>2. CASE n # 0
    <3> DEFINE Step(g, k) == IF k = 1 THEN seqs[k] ELSE g[k - 1] \o seqs[k]
               Flat(g) == g = [k \in 1 .. n |-> Step(g, k)]
               t == [k \in 1 .. n |-> st[k]]
    <3>1. ASSUME NEW k \in 1 .. n PROVE t[k] = Step(t, k)
      <4>1. CASE k = 1
        <5>1. st[1] = st[0] \o seqs[1]
          <6>1. 1 \in 1 .. n /\ 1 - 1 = 0
            BY <4>1
          <6> QED BY <1>4, <6>1
        <5>2. <<>> \o seqs[1] = seqs[1]
          BY <1>0, <4>1, ConcatEmptySeq
        <5> QED BY <1>3, <4>1, <5>1, <5>2
      <4>2. CASE k # 1
        <5>1. k - 1 \in 1 .. n
          BY <1>0, <4>2
        <5> QED BY <1>4, <4>2, <5>1
      <4> QED BY <4>1, <4>2
    <3>2. \E g : Flat(g)
      <4>1. Flat(t)
        <5>1. t = [k \in 1 .. n |-> t[k]]
          OBVIOUS
        <5> HIDE DEF t, Step
        <5> QED BY <3>1, <5>1
      <4> HIDE DEF Flat, t
      <4> QED BY <4>1
    <3> DEFINE h == CHOOSE g : Flat(g)
    <3>3. Flat(h)
      <4> HIDE DEF Flat
      <4> QED BY <3>2
    <3>4. FlattenSeq(seqs) = h[n]
      BY <2>2 DEF FlattenSeq
    <3> HIDE DEF h
    <3>5. \A k \in 1 .. n : h[k] = Step(h, k)
      <4> HIDE DEF Step
      <4> QED BY <3>3
    <3> DEFINE M == {m \in Nat : m + 1 <= n => h[m + 1] = st[m + 1]}
    <3>6. 0 \in M
      <4> SUFFICES ASSUME 0 + 1 <= n PROVE h[0 + 1] = st[0 + 1]
        OBVIOUS
      <4>1. 1 \in 1 .. n /\ 0 + 1 = 1
        BY <1>0
      <4>2. t[1] = Step(t, 1) /\ h[1] = Step(h, 1)
        BY <3>1, <3>5, <4>1
      <4> QED BY <4>1, <4>2
    <3>7. ASSUME NEW m \in Nat, m \in M PROVE m + 1 \in M
      <4> SUFFICES ASSUME (m + 1) + 1 <= n PROVE h[(m + 1) + 1] = st[(m + 1) + 1]
        OBVIOUS
      <4>1. (m + 1) + 1 \in 1 .. n /\ (m + 1) + 1 # 1 /\ ((m + 1) + 1) - 1 = m + 1 /\ m + 1 <= n
        BY <1>0
      <4>2. h[m + 1] = st[m + 1]
        BY <3>7, <4>1
      <4>3. h[(m + 1) + 1] = h[m + 1] \o seqs[(m + 1) + 1]
        BY <3>5, <4>1
      <4> QED BY <1>4, <4>1, <4>2, <4>3
    <3>8. h[n] = st[n]
      <4> HIDE DEF M
      <4>1. n - 1 \in Nat /\ (n - 1) + 1 = n
        BY <1>0, <2>2
      <4>2. n - 1 \in M
        BY <3>6, <3>7, <4>1, SetInduction
      <4> QED BY <4>1, <4>2 DEF M
    <3> QED BY <3>4, <3>8
  <2> QED BY <2>1, <2>2
<1>6. Flattens(seqs, st)
  BY <1>3, <1>4 DEF Flattens
<1> QED BY <1>3, <1>5, <1>6

------------------------------------------------------------------------------
(* Parts of sequences, what is picked from them, and the bytes of lines. *)

\* A function on 1 .. n is a sequence of that length.
LEMMA SeqOfLength ==
  ASSUME NEW A, NEW n \in Nat, NEW s \in [1 .. n -> A]
  PROVE  s \in Seq(A) /\ Len(s) = n /\ DOMAIN s = 1 .. n
<1>1. s \in Seq(A)
  BY SeqDef
<1>2. DOMAIN s = 1 .. n /\ DOMAIN s = 1 .. Len(s) /\ Len(s) \in Nat
  BY <1>1, LenProperties
<1>3. Len(s) = n
  BY <1>2
<1> QED BY <1>1, <1>2, <1>3

\* A part of a sequence from one place to another.
LEMMA BufPart ==
  ASSUME NEW A, NEW f \in Seq(A), NEW p \in Nat, p > 0, NEW q \in Nat, p <= q + 1, q <= Len(f)
  PROVE  /\ SubSeq(f, p, q) \in Seq(A) /\ Len(SubSeq(f, p, q)) = (q + 1) - p
         /\ \A i \in 1 .. (q + 1) - p : SubSeq(f, p, q)[i] = f[(p - 1) + i]
<1> DEFINE u == p - 1
           m == (q + 1) - p
<1>1. u \in Nat /\ m \in Nat /\ u + 1 = p /\ u + m = q /\ u + m <= Len(f)
  OBVIOUS
<1> HIDE DEF u, m
<1>0. u \in Nat /\ m \in Nat /\ u + m <= Len(f)
  BY <1>1
<1>2. LET s == SubSeq(f, u + 1, u + m)
      IN  s \in Seq(A) /\ Len(s) = m /\ \A i \in 1 .. m : s[i] = f[u + i]
  BY <1>0, Part, ZenonT(60)
<1>3. SubSeq(f, u + 1, u + m) = SubSeq(f, p, q)
  BY <1>1
<1>4. LET s == SubSeq(f, p, q)
      IN  s \in Seq(A) /\ Len(s) = m /\ \A i \in 1 .. m : s[i] = f[u + i]
  BY <1>2, <1>3, Zenon
<1> QED BY <1>4, Zenon DEF u, m

\* What is picked from a sequence.
LEMMA PickedType ==
  ASSUME NEW A, NEW s \in Seq(A), NEW S \in SUBSET (1 .. Len(s))
  PROVE  /\ S \in SUBSET Nat /\ IsFiniteSet(S) /\ Cardinality(S) \in Nat
         /\ Picked(s, S) \in Seq(A) /\ Len(Picked(s, S)) = Cardinality(S)
         /\ DOMAIN Picked(s, S) = 1 .. Cardinality(S)
         /\ \A k \in 1 .. Cardinality(S) :
              Ascending(S)[k] \in S /\ Picked(s, S)[k] = s[Ascending(S)[k]]
<1>1. Len(s) \in Nat /\ s \in [1 .. Len(s) -> A]
  BY LenProperties
<1>2. S \in SUBSET Nat /\ IsFiniteSet(S)
  <2>1. IsFiniteSet(1 .. Len(s))
    BY <1>1, FS_Interval
  <2>2. IsFiniteSet(S)
    BY <2>1, FS_Subset
  <2> QED BY <2>2
<1>3. Cardinality(S) \in Nat
  BY <1>2, FS_CardinalityType
<1>4. \A k \in 1 .. Cardinality(S) : Ascending(S)[k] \in S
  BY <1>2, AscendingOrder
<1>5. Picked(s, S) = [k \in 1 .. Cardinality(S) |-> s[Ascending(S)[k]]]
  BY DEF Picked
<1>6. Picked(s, S) \in [1 .. Cardinality(S) -> A]
  BY <1>1, <1>4, <1>5
<1>7. Picked(s, S) \in Seq(A) /\ Len(Picked(s, S)) = Cardinality(S)
  BY <1>3, <1>6, SeqDef
<1> QED BY <1>2, <1>3, <1>4, <1>5, <1>7

\* A sequence of sequences with one in front has its bytes more.
LEMMA FlattenLonger ==
  ASSUME NEW A, NEW s \in Seq(Seq(A)), NEW t \in Seq(Seq(A)), Len(t) = Len(s) + 1,
         \A k \in 1 .. Len(s) : t[k + 1] = s[k]
  PROVE  /\ FlattenSeq(s) \in Seq(A) /\ FlattenSeq(t) \in Seq(A)
         /\ Len(FlattenSeq(t)) = Len(t[1]) + Len(FlattenSeq(s))
<1> DEFINE n == Len(s)
<1>0. n \in Nat /\ t[1] \in Seq(A) /\ \A k \in 1 .. n : s[k] \in Seq(A)
  <2>1. n \in Nat /\ 1 \in 1 .. Len(t)
    BY LenProperties
  <2> QED BY <2>1, ElementOfSeq
<1>1. PICK st \in [0 .. n -> Seq(A)] : Flattens(s, st) /\ FlattenSeq(s) = st[n]
  BY FlattenSteps
<1>t. PICK su \in [0 .. Len(t) -> Seq(A)] : Flattens(t, su) /\ FlattenSeq(t) = su[Len(t)]
  BY FlattenSteps
<1>2. su \in [0 .. n + 1 -> Seq(A)] /\ Flattens(t, su) /\ FlattenSeq(t) = su[n + 1]
  BY <1>t
<1> DEFINE Longer(m) == Len(su[m + 1]) = Len(t[1]) + Len(st[m])
           M == {m \in Nat : m <= n => Longer(m)}
<1>3. 0 \in M
  <2>1. 1 \in 1 .. Len(t) /\ 1 - 1 = 0 /\ 0 + 1 = 1
    BY <1>0
  <2>2. su[1] = su[0] \o t[1] /\ su[0] = <<>> /\ st[0] = <<>>
    BY <1>1, <1>2, <2>1 DEF Flattens
  <2>3. su[1] = t[1]
    BY <1>0, <2>2, ConcatEmptySeq
  <2> QED BY <1>0, <2>1, <2>2, <2>3, LenProperties
<1>4. ASSUME NEW m \in Nat, m \in M PROVE m + 1 \in M
  <2> SUFFICES ASSUME m + 1 <= n PROVE Longer(m + 1)
    <3> HIDE DEF Longer
    <3> QED OBVIOUS
  <2>1. /\ m <= n /\ m + 1 \in 1 .. n /\ (m + 1) - 1 = m /\ m \in 0 .. n
        /\ (m + 1) + 1 \in 1 .. Len(t) /\ ((m + 1) + 1) - 1 = m + 1 /\ m + 1 \in 0 .. n + 1
    BY <1>0
  <2>2. su[(m + 1) + 1] = su[m + 1] \o t[(m + 1) + 1] /\ st[m + 1] = st[m] \o s[m + 1]
    BY <1>1, <1>2, <2>1 DEF Flattens
  <2>3. t[(m + 1) + 1] = s[m + 1] /\ s[m + 1] \in Seq(A)
    BY <1>0, <2>1
  <2>4. su[m + 1] \in Seq(A) /\ st[m] \in Seq(A)
    BY <1>1, <1>2, <2>1
  <2>5. Len(su[(m + 1) + 1]) = Len(su[m + 1]) + Len(s[m + 1])
        /\ Len(st[m + 1]) = Len(st[m]) + Len(s[m + 1])
    BY <2>2, <2>3, <2>4, ConcatProperties
  <2>6. Len(su[m + 1]) = Len(t[1]) + Len(st[m])
    BY <1>4, <2>1
  <2>7. Len(st[m]) \in Nat /\ Len(s[m + 1]) \in Nat /\ Len(t[1]) \in Nat
    BY <1>0, <2>3, <2>4, LenProperties
  <2> HIDE DEF M
  <2>8. Len(su[(m + 1) + 1]) = (Len(t[1]) + Len(st[m])) + Len(s[m + 1])
    BY <2>5, <2>6
  <2>9. (Len(t[1]) + Len(st[m])) + Len(s[m + 1]) = Len(t[1]) + (Len(st[m]) + Len(s[m + 1]))
    <3> DEFINE x == Len(t[1])
               y == Len(st[m])
               z == Len(s[m + 1])
    <3>1. x \in Nat /\ y \in Nat /\ z \in Nat
      BY <2>7
    <3> HIDE DEF x, y, z
    <3>2. (x + y) + z = x + (y + z)
      BY <3>1
    <3> QED BY <3>2 DEF x, y, z
  <2>10. Len(su[(m + 1) + 1]) = Len(t[1]) + Len(st[m + 1])
    BY <2>5, <2>8, <2>9
  <2> QED BY <2>10 DEF Longer
<1>5. n \in M
  <2> HIDE DEF M
  <2> QED BY <1>0, <1>3, <1>4, SetInduction
<1>6. st[n] \in Seq(A) /\ su[n + 1] \in Seq(A)
  <2>1. n \in 0 .. n /\ n + 1 \in 0 .. n + 1
    BY <1>0
  <2> HIDE DEF n
  <2> QED BY <1>1, <1>2, <2>1
<1> QED BY <1>0, <1>1, <1>2, <1>5, <1>6

\* What is left of a sequence from a place on.
LEMMA Rest ==
  ASSUME NEW A, NEW f \in Seq(A), NEW k \in 1 .. Len(f) + 1
  PROVE  LET s == SubSeq(f, k, Len(f))
         IN  /\ s \in Seq(A) /\ Len(s) = (Len(f) + 1) - k
             /\ \A i \in 1 .. (Len(f) + 1) - k : s[i] = f[(k - 1) + i]
<1> DEFINE p == k - 1
           q == (Len(f) + 1) - k
<1>1. /\ p \in Nat /\ q \in Nat /\ p + q <= Len(f) /\ p + q = Len(f) /\ p + 1 = k
  BY LenProperties
<1> HIDE DEF p, q
<1>2. LET s == SubSeq(f, p + 1, p + q)
      IN  s \in Seq(A) /\ Len(s) = q /\ \A i \in 1 .. q : s[i] = f[p + i]
  BY <1>1, Part, ZenonT(60)
<1>3. SubSeq(f, p + 1, p + q) = SubSeq(f, k, Len(f))
  BY <1>1
<1>4. LET s == SubSeq(f, k, Len(f))
      IN  s \in Seq(A) /\ Len(s) = q /\ \A i \in 1 .. q : s[i] = f[p + i]
  BY <1>2, <1>3, Zenon
<1> QED BY <1>4, Zenon DEF p, q

\* The bytes of the lines from the k-th on.
LEMMA TrailingBytes ==
  ASSUME NEW A, NEW w \in Seq(Seq(A)), NEW k \in 1 .. Len(w)
  PROVE  LET tail == SubSeq(w, k + 1, Len(w))
         IN  /\ Len(FlattenSeq(tail)) \in Nat /\ Len(w[k]) \in Nat
             /\ Len(FlattenSeq(SubSeq(w, k, Len(w)))) = Len(w[k]) + Len(FlattenSeq(tail))
<1> DEFINE B == Seq(A)
           s == SubSeq(w, k + 1, Len(w))
           t == SubSeq(w, k, Len(w))
           m == (Len(w) + 1) - (k + 1)
<1>0. /\ Len(w) \in Nat /\ w[k] \in Seq(A) /\ k \in 1 .. Len(w) + 1
      /\ k + 1 \in 1 .. Len(w) + 1 /\ m \in Nat /\ (Len(w) + 1) - k = m + 1
      /\ 1 \in 1 .. m + 1 /\ (k - 1) + 1 = k
      /\ \A i \in 1 .. m : i + 1 \in 1 .. m + 1 /\ (k - 1) + (i + 1) = ((k + 1) - 1) + i
  <2>1. Len(w) \in Nat
    BY LenProperties
  <2> QED BY <2>1, ElementOfSeq
<1>1. s \in Seq(B) /\ Len(s) = m /\ \A i \in 1 .. m : s[i] = w[((k + 1) - 1) + i]
  BY <1>0, Rest, ZenonT(60)
<1>2. t \in Seq(B) /\ Len(t) = m + 1 /\ \A i \in 1 .. m + 1 : t[i] = w[(k - 1) + i]
  <2>1. /\ t \in Seq(B) /\ Len(t) = (Len(w) + 1) - k
        /\ \A i \in 1 .. (Len(w) + 1) - k : t[i] = w[(k - 1) + i]
    BY <1>0, Rest, Zenon
  <2> HIDE DEF t, m, B
  <2> QED BY <1>0, <2>1
<1> HIDE DEF B, m, s, t
<1>3. t[1] = w[k] /\ \A i \in 1 .. m : t[i + 1] = s[i]
  <2>1. t[1] = w[(k - 1) + 1]
    BY <1>0, <1>2
  <2>2. ASSUME NEW i \in 1 .. m PROVE t[i + 1] = s[i]
    <3>1. i + 1 \in 1 .. m + 1 /\ (k - 1) + (i + 1) = ((k + 1) - 1) + i
      BY <1>0
    <3>2. t[i + 1] = w[(k - 1) + (i + 1)] /\ s[i] = w[((k + 1) - 1) + i]
      BY <1>1, <1>2, <3>1, Zenon
    <3> QED BY <3>1, <3>2, Zenon
  <2> QED BY <1>0, <2>1, <2>2, Zenon
<1>4. /\ FlattenSeq(s) \in Seq(A)
      /\ Len(FlattenSeq(t)) = Len(t[1]) + Len(FlattenSeq(s))
  BY <1>1, <1>2, <1>3, FlattenLonger DEF B
<1> QED BY <1>0, <1>3, <1>4, LenProperties DEF s, t

------------------------------------------------------------------------------
(* Windows, and what is found or counted in them. *)

\* The places among the elements of S of those that are in T.
PlacesIn(S, T) == {j \in 1 .. Cardinality(S) : Ascending(S)[j] \in T}

\* A part of a set is found at its places, in order.
LEMMA PlacesAre ==
  ASSUME NEW S \in SUBSET Nat, IsFiniteSet(S), NEW T \in SUBSET S
  PROVE  LET J == PlacesIn(S, T)
         IN  /\ J \in SUBSET (1 .. Cardinality(S)) /\ J \in SUBSET Nat /\ IsFiniteSet(J)
             /\ Cardinality(J) \in Nat /\ Cardinality(T) = Cardinality(J)
             /\ \A k \in 1 .. Cardinality(J) :
                  Ascending(J)[k] \in J /\ Ascending(T)[k] = Ascending(S)[Ascending(J)[k]]
<1> DEFINE c == Cardinality(S)
           a == Ascending(S)
           J == PlacesIn(S, T)
           m == Cardinality(J)
           b == Ascending(J)
<1>1. /\ c \in Nat /\ \A k \in 1 .. c : a[k] \in S
      /\ \A j, k \in 1 .. c : j < k => a[j] < a[k]
  BY AscendingOrder, FS_CardinalityType
<1>2. \A x \in S : \E j \in 1 .. c : a[j] = x
  BY AscendingAt
<1>3. J \in SUBSET (1 .. c) /\ \A j \in 1 .. c : j \in J <=> a[j] \in T
  BY DEF PlacesIn
<1> HIDE DEF J, a
<1>4. J \in SUBSET Nat /\ IsFiniteSet(J)
  <2>1. IsFiniteSet(1 .. c)
    BY <1>1, FS_Interval
  <2>2. IsFiniteSet(J)
    BY <1>3, <2>1, FS_Subset
  <2>3. 1 .. c \subseteq Nat
    BY <1>1
  <2> QED BY <1>3, <2>2, <2>3
<1>5. m \in Nat
  BY <1>4, FS_CardinalityType
<1>6. /\ \A k \in 1 .. m : b[k] \in J
      /\ \A j, k \in 1 .. m : j < k => b[j] < b[k]
  BY <1>4, AscendingOrder
<1>7. \A j \in J : \E k \in 1 .. m : b[k] = j
  BY <1>4, AscendingAt
<1> DEFINE d == [k \in 1 .. m |-> a[b[k]]]
<1> HIDE DEF b, c, m
<1>8. ListedBy(T, m, d)
  <2>1. \A k \in 1 .. m : b[k] \in 1 .. c /\ d[k] = a[b[k]] /\ d[k] \in T
    BY <1>3, <1>6
  <2>2. d \in [1 .. m -> Nat]
    BY <2>1
  <2>3. ASSUME NEW j \in 1 .. m, NEW k \in 1 .. m, j < k PROVE d[j] < d[k]
    <3>1. b[j] < b[k]
      BY <1>6, <2>3
    <3> QED BY <1>1, <2>1, <3>1
  <2>4. ASSUME NEW x \in T PROVE \E k \in 1 .. m : x = d[k]
    <3>1. PICK j \in 1 .. c : a[j] = x
      BY <1>2
    <3>2. PICK k \in 1 .. m : b[k] = j
      BY <1>3, <1>7, <3>1
    <3> QED BY <2>1, <3>1, <3>2
  <2> HIDE DEF d
  <2> QED BY <1>5, <2>1, <2>2, <2>3, <2>4 DEF ListedBy
<1>9. Cardinality(T) = m /\ \A k \in 1 .. m : Ascending(T)[k] = d[k]
  <2> HIDE DEF d
  <2> QED BY <1>8, AscendingIs
<1> QED BY <1>3, <1>4, <1>5, <1>6, <1>9 DEF J, m, b, c, a

\* What is picked of what was picked was picked.
LEMMA PickedAgain ==
  ASSUME NEW A, NEW s \in Seq(A), NEW S \in SUBSET (1 .. Len(s)), NEW T \in SUBSET S
  PROVE  Picked(Picked(s, S), PlacesIn(S, T)) = Picked(s, T)
<1> DEFINE J == PlacesIn(S, T)
           P == Picked(s, S)
<1>1. /\ S \in SUBSET Nat /\ IsFiniteSet(S)
      /\ \A k \in 1 .. Cardinality(S) : P[k] = s[Ascending(S)[k]]
  BY PickedType
<1>2. /\ J \in SUBSET (1 .. Cardinality(S)) /\ Cardinality(T) = Cardinality(J)
      /\ \A k \in 1 .. Cardinality(J) :
           Ascending(J)[k] \in J /\ Ascending(T)[k] = Ascending(S)[Ascending(J)[k]]
  BY <1>1, PlacesAre
<1> HIDE DEF P, J
<1>3. Picked(P, J) = [k \in 1 .. Cardinality(J) |-> P[Ascending(J)[k]]]
  BY DEF Picked
<1>4. Picked(s, T) = [k \in 1 .. Cardinality(T) |-> s[Ascending(T)[k]]]
  BY DEF Picked
<1>5. \A k \in 1 .. Cardinality(J) : P[Ascending(J)[k]] = s[Ascending(T)[k]]
  BY <1>1, <1>2
<1>6. Picked(P, J) = Picked(s, T)
  BY <1>2, <1>3, <1>4, <1>5
<1> QED BY <1>6 DEF P, J

\* A pattern of one byte asks for that byte.
LEMMA MatchByte ==
  ASSUME NEW A, NEW s \in Seq(A), NEW b
  PROVE  IsMatch(<<b>>, s) <=> \E k \in 1 .. Len(s) : s[k] = b
<1>1. Len(s) \in Nat /\ Len(<<b>>) = 1
  BY LenProperties
<1>2. ASSUME NEW k \in 0 .. Len(s) - 1
      PROVE  SubSeq(s, k + 1, k + 1) = <<b>> <=> s[k + 1] = b
  <2> DEFINE t == SubSeq(s, k + 1, k + 1)
  <2>1. k \in Nat /\ 1 \in Nat /\ k + 1 <= Len(s)
    BY <1>1
  <2>2. t \in Seq(A) /\ Len(t) = 1 /\ \A j \in 1 .. 1 : t[j] = s[k + j]
    BY <2>1, Part
  <2>3. t[1] = s[k + 1]
    BY <2>2
  <2> HIDE DEF t
  <2>4. t = <<t[1]>>
    BY <2>2
  <2>5. t = <<b>> <=> t[1] = b
    BY <2>4
  <2> QED BY <2>3, <2>5 DEF t
<1>3. ASSUME NEW k \in 0 .. Len(s) - 1, SubSeq(s, k + 1, k + 1) = <<b>>
      PROVE  \E j \in 1 .. Len(s) : s[j] = b
  <2>1. k + 1 \in 1 .. Len(s) /\ s[k + 1] = b
    BY <1>1, <1>2, <1>3
  <2> QED BY <2>1
<1>4. ASSUME NEW j \in 1 .. Len(s), s[j] = b
      PROVE  \E k \in 0 .. Len(s) - 1 : SubSeq(s, k + 1, k + 1) = <<b>>
  <2>1. j - 1 \in 0 .. Len(s) - 1 /\ (j - 1) + 1 = j
    BY <1>1
  <2>2. SubSeq(s, (j - 1) + 1, (j - 1) + 1) = <<b>>
    BY <1>2, <1>4, <2>1
  <2> QED BY <2>1, <2>2
<1>5. IsMatch(<<b>>, s) <=> \E k \in 0 .. Len(s) - 1 : SubSeq(s, k + 1, k + 1) = <<b>>
  BY <1>1 DEF IsMatch
<1> QED BY <1>3, <1>4, <1>5

\* The newline at the end of a line is no match for another byte.
LEMMA MatchChomped ==
  ASSUME NEW A, NEW s \in Seq(A), NEW b, b # NL
  PROVE  IsMatch(<<b>>, Chomp(s)) <=> IsMatch(<<b>>, s)
<1>1. CASE ~ (s # <<>> /\ Complete(s))
  BY <1>1 DEF Chomp
<1>2. CASE s # <<>> /\ Complete(s)
  <2> DEFINE n == Len(s)
             t == Front(s)
  <2>1. n \in Nat /\ n # 0 /\ s[n] = NL
    BY <1>2, LenProperties, EmptySeq DEF Complete, Last
  <2>2. t = SubSeq(s, 1, n - 1) /\ Chomp(s) = t
    BY <1>2 DEF Front, Chomp
  <2>3. t \in Seq(A) /\ Len(t) = n - 1 /\ \A k \in 1 .. n - 1 : t[k] = s[k]
    <3>1. 1 \in Nat /\ 1 > 0 /\ n - 1 \in Nat /\ 1 <= (n - 1) + 1 /\ n - 1 <= Len(s)
      BY <2>1
    <3>2. /\ SubSeq(s, 1, n - 1) \in Seq(A) /\ Len(SubSeq(s, 1, n - 1)) = ((n - 1) + 1) - 1
          /\ \A k \in 1 .. ((n - 1) + 1) - 1 : SubSeq(s, 1, n - 1)[k] = s[(1 - 1) + k]
      BY <3>1, BufPart, ZenonT(100)
    <3>3. ((n - 1) + 1) - 1 = n - 1 /\ \A k \in 1 .. n - 1 : (1 - 1) + k = k
      BY <2>1
    <3> HIDE DEF n, t
    <3> QED BY <2>2, <3>2, <3>3
  <2> HIDE DEF n, t
  <2>4. \A k \in 1 .. n : k = n \/ k \in 1 .. n - 1
    BY <2>1
  <2>5. \A k \in 1 .. n - 1 : k \in 1 .. n
    BY <2>1
  <2>6. IsMatch(<<b>>, t) <=> \E k \in 1 .. n - 1 : t[k] = b
    BY <2>3, MatchByte
  <2>7. IsMatch(<<b>>, s) <=> \E k \in 1 .. n : s[k] = b
    BY MatchByte DEF n
  <2> QED BY <2>1, <2>2, <2>3, <2>4, <2>5, <2>6, <2>7
<1> QED BY <1>1, <1>2

\* A line is no shorter than its stamp, and a complete one is longer.
LEMMA BodyAt ==
  ASSUME NEW A, NEW l \in Seq(A), ParseMsPrefix(l) # None
  PROVE  LET b == ParseMsPrefix(l).body
         IN  /\ b \in 0 .. Len(l)
             /\ l # <<>> /\ Complete(l) => b < Len(l)
<1> DEFINE closes == {j \in DOMAIN l : l[j] = "]"}
           n == Len(l)
           c == Min(closes)
<1>1. n \in Nat /\ DOMAIN l = 1 .. n
  BY LenProperties
<1>2. closes # {} /\ ParseMsPrefix(l).body = BodyStart(l, c)
  BY DEF ParseMsPrefix
<1>3. closes \in SUBSET Nat
  BY <1>1
<1>4. c \in closes
  <2> HIDE DEF closes
  <2> QED BY <1>2, <1>3, LeastOf
<1>5. c \in 1 .. n /\ l[c] = "]"
  BY <1>1, <1>4
<1>6. l # <<>> /\ Complete(l) => l[n] = NL
  BY DEF Complete, Last
<1> HIDE DEF n, c
<1>7. BodyStart(l, c) = IF c < n /\ l[c + 1] = " " THEN c + 1 ELSE c
  BY DEF BodyStart, n
<1>8. BodyStart(l, c) \in 0 .. n
  <2>1. CASE c < n /\ l[c + 1] = " "
    <3>1. BodyStart(l, c) = c + 1
      BY <1>7, <2>1
    <3>2. c + 1 \in 0 .. n
      <4>1. c \in 1 .. n /\ c < n /\ n \in Nat
        BY <1>1, <1>5, <2>1
      <4> HIDE DEF n, c
      <4> QED BY <4>1
    <3> QED BY <3>1, <3>2
  <2>2. CASE ~ (c < n /\ l[c + 1] = " ")
    <3>1. BodyStart(l, c) = c
      BY <1>7, <2>2
    <3>2. c \in 0 .. n
      BY <1>1, <1>5
    <3> QED BY <3>1, <3>2
  <2> QED BY <2>1, <2>2
<1>9. ASSUME l[n] = NL PROVE BodyStart(l, c) < n
  <2>1. c # n
    BY <1>5, <1>9 DEF NL
  <2>2. c < n
    BY <1>1, <1>5, <2>1
  <2>3. CASE l[c + 1] = " "
    <3>1. c + 1 # n
      BY <1>9, <2>3 DEF NL
    <3>2. c + 1 < n
      BY <1>1, <1>5, <2>2, <3>1
    <3> QED BY <1>7, <2>2, <2>3, <3>2
  <2>4. CASE l[c + 1] # " "
    BY <1>7, <2>2, <2>4
  <2> QED BY <2>3, <2>4
<1> QED BY <1>2, <1>6, <1>8, <1>9 DEF n

\* what the readers look for a match in
Body(l) == IF Stamped(l) THEN From(l, ParseMsPrefix(l).body) ELSE l

\* The body of a complete line ends with its newline.
LEMMA BodyIs ==
  ASSUME NEW A, NEW l \in Seq(A)
  PROVE  /\ Body(l) \in Seq(A)
         /\ l # <<>> /\ Complete(l) => \E k \in 1 .. Len(Body(l)) : Body(l)[k] = NL
<1> DEFINE n == Len(l)
           b == ParseMsPrefix(l).body
<1>1. n \in Nat
  BY LenProperties
<1>2. l # <<>> /\ Complete(l) => n # 0 /\ l[n] = NL
  BY EmptySeq DEF Complete, Last
<1>3. CASE ~ Stamped(l)
  <2>1. Body(l) = l
    BY <1>3 DEF Body
  <2>2. n # 0 => n \in 1 .. n
    BY <1>1
  <2> QED BY <1>2, <2>1, <2>2
<1>4. CASE Stamped(l)
  <2>1. b \in 0 .. n /\ (l # <<>> /\ Complete(l) => b < n)
    BY <1>4, BodyAt DEF Stamped
  <2>2. Body(l) = SubSeq(l, b + 1, Len(l))
    BY <1>4 DEF Body, From
  <2> DEFINE t == SubSeq(l, b + 1, Len(l))
  <2> HIDE DEF b
  <2>3. b + 1 \in 1 .. Len(l) + 1 /\ ((b + 1) - 1) = b /\ (Len(l) + 1) - (b + 1) = n - b
    BY <1>1, <2>1
  <2>4. /\ t \in Seq(A) /\ Len(t) = (Len(l) + 1) - (b + 1)
        /\ \A k \in 1 .. (Len(l) + 1) - (b + 1) : t[k] = l[((b + 1) - 1) + k]
    BY <2>3, Rest
  <2> HIDE DEF t, n
  <2>5. Len(t) = n - b /\ \A k \in 1 .. n - b : t[k] = l[b + k]
    BY <2>3, <2>4
  <2>6. ASSUME l # <<>>, Complete(l) PROVE \E k \in 1 .. Len(t) : t[k] = NL
    <3>1. n - b \in 1 .. n - b /\ b + (n - b) = n
      BY <1>1, <2>1, <2>6
    <3>2. t[n - b] = NL
      BY <1>2, <2>5, <2>6, <3>1
    <3> QED BY <2>5, <3>1, <3>2
  <2> QED BY <2>2, <2>4, <2>6 DEF t
<1> QED BY <1>3, <1>4

\* Of complete lines, summary counts those with an error, and the others as warnings.
LEMMA Classified ==
  ASSUME NEW A, NEW w \in Seq(A), NEW C \in SUBSET (1 .. Len(w)), NEW err, NEW warn,
         \A k \in C : IsMatch(warn, w[k])
  PROVE  LET M == {k \in C : IsMatch(err, w[k])}
         IN  /\ Cardinality(C) \in Nat /\ Cardinality(M) \in Nat
             /\ Classify(Picked(w, C), err, warn) =
                  [lines_scanned |-> Cardinality(C), errors |-> Cardinality(M),
                   warnings |-> Cardinality(C) - Cardinality(M)]
<1> DEFINE M == {k \in C : IsMatch(err, w[k])}
           b == Picked(w, C)
           n == Cardinality(C)
           J == PlacesIn(C, M)
           U == DOMAIN b \ J
<1>1. /\ C \in SUBSET Nat /\ IsFiniteSet(C) /\ n \in Nat /\ Len(b) = n /\ DOMAIN b = 1 .. n
      /\ \A k \in 1 .. n : Ascending(C)[k] \in C /\ b[k] = w[Ascending(C)[k]]
  BY PickedType
<1>2. M \in SUBSET C
  OBVIOUS
<1>3. /\ J \in SUBSET (1 .. n) /\ IsFiniteSet(J) /\ Cardinality(J) \in Nat
      /\ Cardinality(M) = Cardinality(J)
  <2> HIDE DEF M
  <2> QED BY <1>1, <1>2, PlacesAre
<1>4. J = {k \in DOMAIN b : IsMatch(err, b[k])}
  <2>1. \A k \in 1 .. n : k \in J <=> Ascending(C)[k] \in M
    BY DEF PlacesIn
  <2>2. \A k \in 1 .. n : k \in J <=> IsMatch(err, b[k])
    BY <1>1, <2>1
  <2> HIDE DEF J, b, n
  <2> QED BY <1>1, <1>3, <2>2
<1> HIDE DEF M, b, n, J
<1>5. {k \in U : IsMatch(warn, b[k])} = U
  BY <1>1
<1>6. Cardinality(U) = n - Cardinality(J)
  <2>1. IsFiniteSet(1 .. n) /\ Cardinality(1 .. n) = n
    <3>1. 1 \in Int /\ n \in Int /\ (IF 1 > n THEN 0 ELSE n - 1 + 1) = n
      BY <1>1
    <3> QED BY <3>1, FS_Interval
  <2>2. Cardinality((1 .. n) \ J) = Cardinality(1 .. n) - Cardinality((1 .. n) \cap J)
    BY <2>1, FS_Difference
  <2>3. (1 .. n) \cap J = J
    BY <1>3
  <2> QED BY <1>1, <2>1, <2>2, <2>3
<1>7. Classify(b, err, warn) =
        [lines_scanned |-> Len(b), errors |-> Cardinality(J), warnings |-> Cardinality(U)]
  BY <1>4, <1>5 DEF Classify
<1> QED BY <1>1, <1>3, <1>6, <1>7 DEF M, b, n

\* Lines are not empty.
LEMMA LineFull ==
  ASSUME NEW A, NEW f \in Seq(A), NEW k \in 1 .. Cardinality(Ends(f))
  PROVE  SplitLines(f)[k] \in Seq(A) /\ SplitLines(f)[k] # <<>>
<1> DEFINE c == Cardinality(Ends(f))
           l == SplitLines(f)[k]
<1>1. Len(f) \in Nat /\ c \in Nat
  BY EndsFinite, LenProperties
<1>2. k \in 0 .. c /\ k - 1 \in 0 .. c
  BY <1>1
<1>3. PICK p \in 0 .. Len(f), e \in 0 .. Len(f) : p = Cut(f)[k - 1] /\ e = Cut(f)[k] /\ p < e
  <2>1. Cut(f)[k - 1] \in 0 .. Len(f) /\ Cut(f)[k] \in 0 .. Len(f) /\ Cut(f)[k - 1] < Cut(f)[k]
    BY <1>2, CutsInOrder
  <2> QED BY <2>1
<1>4. PICK m \in Nat : e = p + m /\ 1 <= m /\ p \in Nat /\ e <= Len(f)
  <2>1. p \in Nat /\ e \in Nat /\ p < e /\ e <= Len(f)
    BY <1>1, <1>3
  <2>2. e - p \in Nat /\ e = p + (e - p) /\ 1 <= e - p
    BY <2>1
  <2> QED BY <2>1, <2>2
<1>5. l = SubSeq(f, p + 1, p + m)
  BY <1>3, <1>4, LinesAre
<1>6. p \in Nat /\ p + m <= Len(f)
  BY <1>4
<1>7. l \in Seq(A) /\ Len(l) = m
  BY <1>5, <1>6, Part
<1>8. l # <<>>
  BY <1>4, <1>7, EmptySeq
<1> QED BY <1>7, <1>8

\* the lines that summary counts
Counted(f, since) ==
  LET L == SplitLines(f)
  IN  {k \in DOMAIN L : /\ Complete(L[k])
                        /\ Stamped(L[k]) => ~ Early(ParseMsPrefix(L[k]).ts, since)}

Erroneous(f, since, err) ==
  {k \in Counted(f, since) : IsMatch(err, Body(SplitLines(f)[k]))}

Tally(f, since, err) ==
  [lines_scanned |-> Cardinality(Counted(f, since)),
   errors |-> Cardinality(Erroneous(f, since, err)),
   warnings |-> Cardinality(Counted(f, since)) - Cardinality(Erroneous(f, since, err))]

\* What summary says of the part of the log that it reads.
LEMMA ScanTallies ==
  ASSUME NEW A, NEW f \in Seq(A), NEW since, NEW n, NEW err,
         NEW g \in Seq(A), g = From(f, IF n >= Len(f) THEN 0 ELSE Len(f) - n)
  PROVE  /\ ScanRecent(f, since, n, err, <<NL>>) = Tally(g, since, err)
         /\ Cardinality(Counted(g, since)) \in Nat /\ Cardinality(Erroneous(g, since, err)) \in Nat
<1> DEFINE L == SplitLines(g)
           C == Counted(g, since)
           B == Seq(A)
           w == [k \in 1 .. Len(L) |-> Body(L[k])]
           M == {k \in C : IsMatch(err, w[k])}
           a == Ascending(C)
<1>1. L \in Seq(B) /\ Len(L) = Cardinality(Ends(g))
  BY LinesAre
<1> HIDE DEF B
<1>2. Len(L) \in Nat /\ DOMAIN L = 1 .. Len(L)
  <2> HIDE DEF L
  <2> QED BY <1>1, LenProperties
<1>3. \A k \in 1 .. Len(L) : L[k] \in Seq(A) /\ L[k] # <<>>
  BY <1>1, LineFull
<1>4. w \in [1 .. Len(L) -> B] /\ \A k \in 1 .. Len(L) : w[k] = Body(L[k])
  <2>1. \A k \in 1 .. Len(L) : Body(L[k]) \in B
    BY <1>3, BodyIs DEF B
  <2> QED BY <2>1
<1>5. w \in Seq(B) /\ Len(w) = Len(L)
  <2> HIDE DEF w, L
  <2> QED BY <1>2, <1>4
<1>6. C \in SUBSET (1 .. Len(w)) /\ \A k \in C : Complete(L[k])
  BY <1>2, <1>5 DEF Counted
<1>7. ASSUME NEW k \in C PROVE IsMatch(<<NL>>, w[k])
  <2>1. k \in 1 .. Len(L) /\ Complete(L[k])
    BY <1>5, <1>6
  <2>2. L[k] \in Seq(A) /\ L[k] # <<>> /\ w[k] = Body(L[k])
    BY <1>3, <1>4, <2>1
  <2> HIDE DEF w, L
  <2>3. Body(L[k]) \in Seq(A) /\ \E j \in 1 .. Len(Body(L[k])) : Body(L[k])[j] = NL
    BY <2>1, <2>2, BodyIs
  <2> QED BY <2>2, <2>3, MatchByte
<1>8. ScanRecent(f, since, n, err, <<NL>>) =
        Classify([k \in DOMAIN a |-> Body(L[a[k]])], err, <<NL>>)
  BY DEF ScanRecent, Counted, Body
<1>9. [k \in DOMAIN a |-> Body(L[a[k]])] = Picked(w, C)
  <2>1. /\ C \in SUBSET Nat /\ IsFiniteSet(C) /\ \A k \in 1 .. Cardinality(C) : a[k] \in C
    <3> HIDE DEF w, C
    <3> QED BY <1>5, <1>6, PickedType
  <2>2. DOMAIN a = 1 .. Cardinality(C)
    <3> HIDE DEF C
    <3> QED BY <2>1, AscendingOrder
  <2>3. \A k \in 1 .. Cardinality(C) : w[a[k]] = Body(L[a[k]])
    BY <1>4, <1>5, <1>6, <2>1
  <2> HIDE DEF w, C, L
  <2>4. Picked(w, C) = [k \in 1 .. Cardinality(C) |-> w[a[k]]]
    BY DEF Picked
  <2> QED BY <2>2, <2>3, <2>4
<1>10. /\ Cardinality(C) \in Nat /\ Cardinality(M) \in Nat
       /\ Classify(Picked(w, C), err, <<NL>>) =
            [lines_scanned |-> Cardinality(C), errors |-> Cardinality(M),
             warnings |-> Cardinality(C) - Cardinality(M)]
  <2> HIDE DEF w, C
  <2> QED BY <1>5, <1>6, <1>7, Classified
<1>11. M = Erroneous(g, since, err)
  BY <1>4, <1>5, <1>6 DEF Erroneous
<1> HIDE DEF M, w, L, a
<1> QED BY <1>8, <1>9, <1>10, <1>11 DEF Tally

\* the lines of a time window
WindowLines(f, since, until) ==
  LET L == SplitLines(f)
  IN  {k \in StampedLines(f) \cap UpToLate(L, since, until) :
         ~ Early(ParseMsPrefix(L[k]).ts, since)}

LEMMA WindowIs ==
  ASSUME NEW A, NEW f \in Seq(A), NEW since, NEW until
  PROVE  LET L == SplitLines(f)
             W == WindowLines(f, since, until)
         IN  /\ W \in SUBSET (1 .. Len(L)) /\ Len(L) \in Nat /\ DOMAIN L = 1 .. Len(L)
             /\ L \in Seq(Seq(A)) /\ Len(L) = Cardinality(Ends(f))
             /\ FilterTimeWindow(f, since, until, TRUE) = Picked(L, W)
<1> DEFINE L == SplitLines(f)
           W == WindowLines(f, since, until)
           B == Seq(A)
<1>1. L \in Seq(B) /\ Len(L) = Cardinality(Ends(f))
  BY LinesAre
<1>2. Len(L) \in Nat /\ DOMAIN L = 1 .. Len(L)
  <2> HIDE DEF L, B
  <2> QED BY <1>1, LenProperties
<1>3. W \in SUBSET (1 .. Len(L))
  BY <1>2 DEF WindowLines, StampedLines
<1> DEFINE P == Picked(L, W)
<1>4. FilterTimeWindow(f, since, until, TRUE) = [k \in DOMAIN P |-> P[k]]
  BY DEF FilterTimeWindow, WindowLines
<1>5. [k \in DOMAIN P |-> P[k]] = P
  BY DEF Picked
<1> HIDE DEF P
<1>6. FilterTimeWindow(f, since, until, TRUE) = P
  BY <1>4, <1>5
<1> QED BY <1>1, <1>2, <1>3, <1>6 DEF P

\* Without an end to the window, no line is after it.
LEMMA NoneLate ==
  ASSUME NEW lines, NEW since
  PROVE  UpToLate(lines, since, None) = DOMAIN lines
BY DEF UpToLate, Late

\* The lines that summary counts are those of the window and those without a stamp.
LEMMA CountedAre ==
  ASSUME NEW A, NEW f \in Seq(A), NEW since
  PROVE  LET L == SplitLines(f)
             W == WindowLines(f, since, None)
             bare == {k \in DOMAIN L : Complete(L[k]) /\ ~ Stamped(L[k])}
         IN  Counted(f, since) = W \cup bare /\ W \cap bare = {}
<1> DEFINE L == SplitLines(f)
<1>1. UpToLate(L, since, None) = DOMAIN L
  BY NoneLate
<1>2. WindowLines(f, since, None) =
        {k \in DOMAIN L : Complete(L[k]) /\ Stamped(L[k]) /\ ~ Early(ParseMsPrefix(L[k]).ts, since)}
  BY <1>1 DEF WindowLines, StampedLines
<1> HIDE DEF L
<1> QED BY <1>2 DEF Counted, L

\* Two disjoint sets of lines.
LEMMA CountBoth ==
  ASSUME NEW n \in Nat, NEW S \in SUBSET (1 .. n), NEW T \in SUBSET (1 .. n), S \cap T = {}
  PROVE  /\ Cardinality(S) \in Nat /\ Cardinality(T) \in Nat
         /\ Cardinality(S \cup T) = Cardinality(S) + Cardinality(T)
<1>1. IsFiniteSet(1 .. n)
  BY FS_Interval
<1>2. IsFiniteSet(S) /\ IsFiniteSet(T)
  BY <1>1, FS_Subset
<1>3. Cardinality(S) \in Nat /\ Cardinality(T) \in Nat
  BY <1>2, FS_CardinalityType
<1>4. Cardinality(S \cup T) = Cardinality(S) + Cardinality(T) - Cardinality(S \cap T)
  BY <1>2, FS_Union
<1>5. Cardinality(S \cap T) = 0
  BY FS_EmptySet
<1> QED BY <1>3, <1>4, <1>5

\* P shows the elements W of s, and those of M among them
Shows(P, s, W, M) ==
  /\ Len(P) = Cardinality(W)
  /\ PlacesIn(W, M) \in SUBSET DOMAIN P
  /\ \A k \in DOMAIN P : k \in PlacesIn(W, M) <=> Ascending(W)[k] \in M
  /\ \A k \in DOMAIN P : Ascending(W)[k] \in W /\ P[k] = s[Ascending(W)[k]]
  /\ Cardinality(PlacesIn(W, M)) = Cardinality(M)

\* What is counted of a window is counted of what it shows.
LEMMA CountShown ==
  ASSUME NEW A, NEW s \in Seq(A), NEW W \in SUBSET (1 .. Len(s)), NEW M \in SUBSET W,
         NEW P, P = Picked(s, W)
  PROVE  Shows(P, s, W, M)
<1>1. /\ W \in SUBSET Nat /\ IsFiniteSet(W) /\ Len(P) = Cardinality(W)
      /\ DOMAIN P = 1 .. Cardinality(W)
      /\ \A k \in 1 .. Cardinality(W) : Ascending(W)[k] \in W /\ P[k] = s[Ascending(W)[k]]
  BY PickedType
<1>2. Cardinality(PlacesIn(W, M)) = Cardinality(M)
  BY <1>1, PlacesAre
<1>3. /\ PlacesIn(W, M) \in SUBSET DOMAIN P
      /\ \A k \in DOMAIN P : k \in PlacesIn(W, M) <=> Ascending(W)[k] \in M
  BY <1>1 DEF PlacesIn
<1> QED BY <1>1, <1>2, <1>3 DEF Shows

\* the complete lines without a stamp
Bare(f) ==
  LET lines == SplitLines(f) IN {k \in DOMAIN lines : Complete(lines[k]) /\ ~ Stamped(lines[k])}

\* the lines that match among those shown, and among those without a stamp
Matching(f, shown, pattern) ==
  Cardinality({k \in DOMAIN shown : IsMatch(pattern, From(shown[k], ParseMsPrefix(shown[k]).body))})
    + Cardinality({k \in Bare(f) : IsMatch(pattern, SplitLines(f)[k])})

\* Of a log that it reads all of, summary says what tail shows.
LEMMA WholeTallies ==
  ASSUME NEW A, NEW f \in Seq(A), NEW since, NEW shown,
         shown = FilterTimeWindow(f, since, None, TRUE), NEW pattern
  PROVE  /\ Cardinality(Counted(f, since)) = Len(shown) + Cardinality(Bare(f))
         /\ Cardinality(Erroneous(f, since, pattern)) = Matching(f, shown, pattern)
<1> DEFINE L == SplitLines(f)
           W == WindowLines(f, since, None)
           bare == {k \in DOMAIN L : Complete(L[k]) /\ ~ Stamped(L[k])}
           WM == {k \in W : IsMatch(pattern, Body(L[k]))}
           BM == {k \in bare : IsMatch(pattern, L[k])}
           SM == {k \in DOMAIN shown : IsMatch(pattern, From(shown[k], ParseMsPrefix(shown[k]).body))}
<1>1. /\ W \in SUBSET (1 .. Len(L)) /\ Len(L) \in Nat /\ DOMAIN L = 1 .. Len(L)
      /\ L \in Seq(Seq(A)) /\ shown = Picked(L, W)
  BY WindowIs, ZenonT(100)
<1>2. Counted(f, since) = W \cup bare /\ W \cap bare = {}
  BY CountedAre
<1>3. \A k \in W : Stamped(L[k])
  BY DEF WindowLines, StampedLines
<1>4. bare \in SUBSET (1 .. Len(L)) /\ WM \in SUBSET W
  BY <1>1
<1>5. Erroneous(f, since, pattern) = WM \cup BM
  BY <1>2 DEF Erroneous, Body
<1>6. WM \in SUBSET (1 .. Len(L)) /\ BM \in SUBSET (1 .. Len(L)) /\ WM \cap BM = {}
  BY <1>1, <1>2, <1>4
<1> HIDE DEF bare, BM
<1>7. /\ Len(shown) = Cardinality(W)
      /\ PlacesIn(W, WM) \in SUBSET DOMAIN shown
      /\ \A k \in DOMAIN shown : k \in PlacesIn(W, WM) <=> Ascending(W)[k] \in WM
      /\ \A k \in DOMAIN shown : Ascending(W)[k] \in W /\ shown[k] = L[Ascending(W)[k]]
      /\ Cardinality(PlacesIn(W, WM)) = Cardinality(WM)
  <2> DEFINE B == Seq(A)
  <2>1. L \in Seq(B)
    BY <1>1
  <2>2. W \in SUBSET (1 .. Len(L)) /\ WM \in SUBSET W /\ shown = Picked(L, W)
    BY <1>1, <1>4
  <2> HIDE DEF B, L, W, WM, SM
  <2>3. Shows(shown, L, W, WM)
    BY <2>1, <2>2, CountShown
  <2> QED BY <2>3 DEF Shows
<1>8. SM = PlacesIn(W, WM)
  <2>1. ASSUME NEW k \in DOMAIN shown
        PROVE  Ascending(W)[k] \in WM
                 <=> IsMatch(pattern, From(shown[k], ParseMsPrefix(shown[k]).body))
    <3>1. Ascending(W)[k] \in W /\ shown[k] = L[Ascending(W)[k]]
      BY <1>7
    <3>2. Body(shown[k]) = From(shown[k], ParseMsPrefix(shown[k]).body)
      BY <1>3, <3>1 DEF Body
    <3> QED BY <3>1, <3>2
  <2> HIDE DEF WM, L, W
  <2> QED BY <1>7, <2>1
<1> HIDE DEF WM, W, L, SM
<1>9. Cardinality(W \cup bare) = Cardinality(W) + Cardinality(bare)
  <2>1. /\ Len(L) \in Nat /\ W \in SUBSET (1 .. Len(L)) /\ bare \in SUBSET (1 .. Len(L))
        /\ W \cap bare = {}
    BY <1>1, <1>2, <1>4
  <2> QED BY <2>1, CountBoth, ZenonT(100)
<1>10. Cardinality(WM \cup BM) = Cardinality(WM) + Cardinality(BM)
  <2>1. /\ Len(L) \in Nat /\ WM \in SUBSET (1 .. Len(L)) /\ BM \in SUBSET (1 .. Len(L))
        /\ WM \cap BM = {}
    BY <1>1, <1>6
  <2> QED BY <2>1, CountBoth, ZenonT(100)
<1>11. Cardinality(Counted(f, since)) = Len(shown) + Cardinality(bare)
  BY <1>2, <1>7, <1>9
<1>12. Cardinality(Erroneous(f, since, pattern)) = Cardinality(SM) + Cardinality(BM)
  BY <1>5, <1>7, <1>8, <1>10
<1> QED BY <1>11, <1>12 DEF SM, BM, bare, L, Bare, Matching
=============================================================================
