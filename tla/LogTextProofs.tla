----------------------------- MODULE LogTextProofs -----------------------------
(***************************************************************************)
(* The bounded reads of tail and slice, wait, grep and the escape stripper,*)
(* of every log over every alphabet and with every size of the chunks of a *)
(* read: each loop of LogText is shown to end where it should.             *)
(***************************************************************************)
EXTENDS MCLogText, LogTextLemmas

------------------------------------------------------------------------------
(* Chunks. *)

\* A forward read moves on.
LEMMA ChunkEnd ==
  ASSUME NEW len \in Nat, NEW pos \in 0 .. len, pos # len
  PROVE  Min({pos + Chunk, len}) \in pos + 1 .. len
<1>1. Chunk \in Nat /\ Chunk > 0
  BY ChunkAssumption
<1>2. Min({pos + Chunk, len}) = IF pos + Chunk <= len THEN pos + Chunk ELSE len
  BY <1>1, MinOfTwo
<1> QED BY <1>1, <1>2

\* The newlines of a chunk, in order.
LEMMA ChunkNewlines ==
  ASSUME NEW N \in SUBSET Nat, IsFiniteSet(N), NEW p \in Nat, NEW q \in Nat, p <= q,
         NEW k \in 1 .. Cardinality(N \cap (p + 1 .. q))
  PROVE  /\ Ascending(N \cap (p + 1 .. q))[k] \in N \cap (p + 1 .. q)
         /\ Rank(N, Ascending(N \cap (p + 1 .. q))[k]) = Rank(N, p) + k
<1> DEFINE M == N \cap (p + 1 .. q)
           x == Ascending(M)[k]
<1>1. M \in SUBSET Nat /\ IsFiniteSet(M)
  BY RankSplits
<1>2. x \in M /\ Rank(M, x) = k
  BY <1>1, AscendingOrder
<1>3. {y \in M : y <= x} = N \cap (p + 1 .. x)
  <2>1. x \in p + 1 .. q
    BY <1>2
  <2> HIDE DEF x
  <2>2. \A y \in N : y \in p + 1 .. q /\ y <= x <=> y \in p + 1 .. x
    BY <2>1
  <2> QED BY <2>2, Zenon
<1>4. Rank(N, x) = Rank(N, p) + Cardinality(N \cap (p + 1 .. x))
  <2>1. x \in Nat /\ p <= x
    BY <1>2
  <2> HIDE DEF x
  <2> QED BY <2>1, RankSplits
<1> QED BY <1>2, <1>3, <1>4 DEF Rank

------------------------------------------------------------------------------
(* The head loop. *)

HeadStep(f, n, read, pos, k) ==
  LET end == Min({pos + Chunk, Len(f)})
      nls == Ascending(Newlines(f) \cap (pos + 1 .. end))
  IN  IF pos = Len(f) THEN pos
      ELSE IF n - k \in DOMAIN nls THEN nls[n - k]
      ELSE IF k + Len(nls) >= n THEN end
      ELSE read[<<end, k + Len(nls)>>]

HeadReads(f, n, read) ==
  read = [at \in (0 .. Len(f)) \X (0 .. n) |-> HeadStep(f, n, read, at[1], at[2])]

\* The chunk that a step reads.
LEMMA HeadChunk ==
  ASSUME NEW A, NEW f \in Seq(A), NEW pos \in 0 .. Len(f), pos # Len(f)
  PROVE  LET end == Min({pos + Chunk, Len(f)})
             nls == Ascending(Newlines(f) \cap (pos + 1 .. end))
         IN  /\ end \in pos + 1 .. Len(f)
             /\ Len(nls) \in Nat /\ DOMAIN nls = 1 .. Len(nls)
             /\ Rank(Newlines(f), end) = Rank(Newlines(f), pos) + Len(nls)
             /\ \A i \in 1 .. Len(nls) :
                  /\ nls[i] \in Newlines(f) /\ nls[i] \in pos + 1 .. end
                  /\ Rank(Newlines(f), nls[i]) = Rank(Newlines(f), pos) + i
<1> DEFINE end == Min({pos + Chunk, Len(f)})
           N == Newlines(f)
           M == N \cap (pos + 1 .. end)
<1>1. N \in SUBSET Nat /\ IsFiniteSet(N) /\ Len(f) \in Nat
  BY NewlinesFinite
<1>2. end \in pos + 1 .. Len(f) /\ pos \in Nat /\ end \in Nat /\ pos <= end
  BY <1>1, ChunkEnd
<1> HIDE DEF end, N
<1>3. /\ M \in SUBSET Nat /\ IsFiniteSet(M) /\ Cardinality(M) \in Nat
      /\ Rank(N, end) = Rank(N, pos) + Cardinality(M)
  BY <1>1, <1>2, RankSplits
<1>4. Len(Ascending(M)) = Cardinality(M) /\ DOMAIN Ascending(M) = 1 .. Cardinality(M)
  BY <1>3, AscendingOrder
<1>5. \A i \in 1 .. Cardinality(M) :
        Ascending(M)[i] \in M /\ Rank(N, Ascending(M)[i]) = Rank(N, pos) + i
  BY <1>1, <1>2, ChunkNewlines
<1> QED BY <1>2, <1>3, <1>4, <1>5 DEF end, N

\* The recursion of HeadLoop defines a function.
LEMMA HeadDefined ==
  ASSUME NEW A, NEW f \in Seq(A), NEW n \in Nat
  PROVE  \E read : HeadReads(f, n, read)
<1> DEFINE L == Len(f)
           D == (0 .. L) \X (0 .. n)
           End(at) == Min({at[1] + Chunk, L})
           Nls(at) == Ascending(Newlines(f) \cap (at[1] + 1 .. End(at)))
           Stop == {at \in D : at[1] = L \/ at[2] + Len(Nls(at)) >= n}
           depth == [at \in D |-> L - at[1]]
           value == [at \in D |-> HeadStep(f, n, <<>>, at[1], at[2])]
           next == [at \in D \ Stop |-> <<End(at), at[2] + Len(Nls(at))>>]
<1>0. L \in Nat
  BY NewlinesFinite
<1>1. ASSUME NEW at \in D, at[1] # L
      PROVE  /\ End(at) \in at[1] + 1 .. L /\ Len(Nls(at)) \in Nat
             /\ DOMAIN Nls(at) = 1 .. Len(Nls(at))
  <2>1. at[1] \in 0 .. L
    OBVIOUS
  <2> QED BY <1>1, <2>1, HeadChunk
<1>2. ASSUME NEW at \in D \ Stop
      PROVE  next[at] \in D /\ next[at][1] > at[1]
  <2>1. at \in D /\ at[1] \in 0 .. L /\ at[2] \in 0 .. n /\ at[1] # L
    OBVIOUS
  <2>2. End(at) \in at[1] + 1 .. L /\ Len(Nls(at)) \in Nat
    BY <1>1, <2>1
  <2>3. at[2] + Len(Nls(at)) < n
    BY <2>1, <2>2
  <2> HIDE DEF End, Nls
  <2>4. <<End(at), at[2] + Len(Nls(at))>> \in D /\ End(at) > at[1]
    BY <1>0, <2>1, <2>2, <2>3
  <2> QED BY <2>4
<1>3. PICK read : Runs(D, Stop, value, next, read)
  <2>1. depth \in [D -> 0 .. L]
    BY <1>0
  <2>2. Stop \in SUBSET D /\ next \in [D \ Stop -> D]
    BY <1>2
  <2>3. \A at \in D \ Stop : depth[next[at]] < depth[at]
    <3> SUFFICES ASSUME NEW at \in D \ Stop PROVE depth[next[at]] < depth[at]
      OBVIOUS
    <3>1. next[at] \in D /\ next[at][1] > at[1] /\ next[at][1] \in 0 .. L /\ at[1] \in 0 .. L
      BY <1>2
    <3> HIDE DEF next, Stop
    <3> QED BY <1>0, <3>1
  <2> HIDE DEF L, D, depth, Stop, value, next
  <2>4. IsLoop(D, L, depth, Stop, value, next)
    BY <1>0, <2>1, <2>2, <2>3 DEF IsLoop
  <2> QED BY <2>4, LoopsEnd
<1>r. /\ read = [at \in D |-> read[at]]
      /\ \A at \in D : read[at] = IF at \in Stop THEN value[at] ELSE read[next[at]]
  <2> HIDE DEF D, Stop, value, next
  <2> QED BY <1>3 DEF Runs
<1>4. ASSUME NEW at \in D PROVE read[at] = HeadStep(f, n, read, at[1], at[2])
  <2>1. CASE at \in Stop
    <3>1. HeadStep(f, n, <<>>, at[1], at[2]) = HeadStep(f, n, read, at[1], at[2])
      BY <2>1 DEF HeadStep
    <3> QED BY <1>r, <2>1, <3>1
  <2>2. CASE at \notin Stop
    <3>1. /\ at[1] # L /\ at[2] \in 0 .. n
          /\ Len(Nls(at)) \in Nat /\ DOMAIN Nls(at) = 1 .. Len(Nls(at))
      BY <1>1, <2>2
    <3>2. ~ (at[2] + Len(Nls(at)) >= n)
      BY <2>2
    <3>3. n - at[2] \notin DOMAIN Nls(at)
      <4> HIDE DEF Nls
      <4> QED BY <3>1, <3>2
    <3>4. HeadStep(f, n, read, at[1], at[2]) = read[<<End(at), at[2] + Len(Nls(at))>>]
      BY <3>1, <3>2, <3>3 DEF HeadStep
    <3>5. read[at] = read[next[at]] /\ next[at] = <<End(at), at[2] + Len(Nls(at))>>
      BY <1>r, <2>2
    <3> QED BY <3>4, <3>5
  <2> QED BY <2>1, <2>2
<1>5. read = [at \in D |-> HeadStep(f, n, read, at[1], at[2])]
  BY <1>r, <1>4
<1> QED BY <1>5 DEF HeadReads

\* HeadLoop starts it with nothing read and nothing counted.
LEMMA HeadRead ==
  ASSUME NEW A, NEW f \in Seq(A), NEW n \in Nat
  PROVE  \E g : /\ HeadLoop(f, n) = g[<<0, 0>>]
                /\ \A p \in 0 .. Len(f) : \A j \in 0 .. n :
                     g[<<p, j>>] = HeadStep(f, n, g, p, j)
<1> DEFINE g == CHOOSE read : HeadReads(f, n, read)
<1>1. HeadReads(f, n, g)
  BY HeadDefined, Zenon
<1>2. HeadLoop(f, n) = g[<<0, 0>>]
  BY DEF HeadLoop, HeadReads, HeadStep
<1> HIDE DEF g
<1>3. \A p \in 0 .. Len(f) : \A j \in 0 .. n : g[<<p, j>>] = HeadStep(f, n, g, p, j)
  BY <1>1 DEF HeadReads
<1> QED BY <1>2, <1>3

\* The n-th newline, or the end.
LEMMA HeadFinds ==
  ASSUME NEW A, NEW f \in Seq(A), NEW n \in Nat \ {0}
  PROVE  HeadLoop(f, n) = IF n <= Cardinality(Newlines(f)) THEN Ascending(Newlines(f))[n]
                          ELSE Len(f)
<1> DEFINE N == Newlines(f)
           L == Len(f)
           Goal == IF n <= Cardinality(N) THEN Ascending(N)[n] ELSE L
<1>1. PICK g : /\ HeadLoop(f, n) = g[<<0, 0>>]
               /\ \A p \in 0 .. L : \A j \in 0 .. n : g[<<p, j>>] = HeadStep(f, n, g, p, j)
  BY HeadRead
<1> DEFINE M == {m \in Nat : \A p \in 0 .. L :
                   p + m >= L /\ Rank(N, p) < n => g[<<p, Rank(N, p)>>] = Goal}
<1>0. /\ L \in Nat /\ N \in SUBSET Nat /\ IsFiniteSet(N) /\ Cardinality(N) \in Nat
      /\ Rank(N, 0) = 0 /\ Rank(N, L) = Cardinality(N)
  BY NewlinesFinite
<1>2. ASSUME Cardinality(N) < n
      PROVE  g[<<L, Rank(N, L)>>] = Goal
  <2>1. g[<<L, Cardinality(N)>>] = HeadStep(f, n, g, L, Cardinality(N))
    BY <1>0, <1>1, <1>2
  <2> QED BY <1>0, <1>2, <2>1 DEF HeadStep
<1>3. 0 \in M
  BY <1>0, <1>2
<1>4. ASSUME NEW m \in Nat, m \in M PROVE m + 1 \in M
  <2> SUFFICES ASSUME NEW p \in 0 .. L, p + (m + 1) >= L, Rank(N, p) < n
               PROVE  g[<<p, Rank(N, p)>>] = Goal
    OBVIOUS
  <2>1. CASE p = L
    BY <1>0, <1>2, <2>1
  <2>2. CASE p # L
    <3> DEFINE k == Rank(N, p)
               end == Min({p + Chunk, L})
               nls == Ascending(N \cap (p + 1 .. end))
    <3>1. /\ end \in p + 1 .. L /\ Len(nls) \in Nat /\ DOMAIN nls = 1 .. Len(nls)
          /\ Rank(N, end) = k + Len(nls)
          /\ \A i \in 1 .. Len(nls) : nls[i] \in N /\ Rank(N, nls[i]) = k + i
      <4> HIDE DEF M, Goal
      <4>1. /\ end \in p + 1 .. L /\ Len(nls) \in Nat /\ DOMAIN nls = 1 .. Len(nls)
            /\ Rank(N, end) = k + Len(nls)
            /\ \A i \in 1 .. Len(nls) : /\ nls[i] \in N /\ nls[i] \in p + 1 .. end
                                         /\ Rank(N, nls[i]) = k + i
        BY <2>2, HeadChunk, Zenon
      <4> QED BY <4>1
    <3>2. k \in 0 .. n
      BY <1>0, RankType
    <3>3. g[<<p, k>>] = IF n - k \in 1 .. Len(nls) THEN nls[n - k]
                        ELSE IF k + Len(nls) >= n THEN end
                        ELSE g[<<end, k + Len(nls)>>]
      BY <1>1, <2>2, <3>1, <3>2 DEF HeadStep
    <3> HIDE DEF k, end, nls
    <3>4. CASE n - k \in 1 .. Len(nls)
      <4>1. PICK x \in N : x = nls[n - k] /\ Rank(N, x) = n
        BY <3>1, <3>2, <3>4
      <4>2. n <= Cardinality(N) /\ Ascending(N)[n] = nls[n - k]
        BY <1>0, <4>1, AscendingAt
      <4> QED BY <3>3, <3>4, <4>2 DEF k
    <3>5. CASE n - k \notin 1 .. Len(nls)
      <4>1. k + Len(nls) < n
        BY <3>1, <3>2, <3>5, <2>2 DEF k
      <4>2. end \in 0 .. L /\ end + m >= L /\ Rank(N, end) < n
        BY <1>0, <3>1, <4>1
      <4>3. g[<<end, Rank(N, end)>>] = Goal
        BY <1>4, <4>2
      <4> QED BY <3>1, <3>2, <3>3, <3>5, <4>1, <4>3 DEF k
    <3> QED BY <3>4, <3>5
  <2> QED BY <2>1, <2>2
<1>5. L \in M
  BY <1>0, <1>3, <1>4, SetInduction
<1>6. g[<<0, Rank(N, 0)>>] = Goal
  BY <1>0, <1>5
<1> QED BY <1>0, <1>1, <1>6

\* The head ends inside the file.
LEMMA HeadWithin ==
  ASSUME NEW A, NEW f \in Seq(A), NEW n \in Nat
  PROVE  HeadLoop(f, n) \in 0 .. Len(f)
<1>0. /\ Len(f) \in Nat /\ Newlines(f) \in SUBSET (1 .. Len(f))
      /\ Newlines(f) \in SUBSET Nat /\ IsFiniteSet(Newlines(f))
  BY NewlinesFinite
<1>1. CASE n # 0
  <2>1. n <= Cardinality(Newlines(f)) => Ascending(Newlines(f))[n] \in Newlines(f)
    BY <1>0, <1>1, AscendingOrder, FS_CardinalityType
  <2> QED BY <1>0, <1>1, <2>1, HeadFinds
<1>2. CASE n = 0
  <2>1. PICK g : HeadLoop(f, 0) = g[<<0, 0>>] /\ g[<<0, 0>>] = HeadStep(f, 0, g, 0, 0)
    <3>1. PICK g : /\ HeadLoop(f, 0) = g[<<0, 0>>]
                   /\ \A p \in 0 .. Len(f) : \A j \in 0 .. 0 :
                        g[<<p, j>>] = HeadStep(f, 0, g, p, j)
      BY HeadRead
    <3> QED BY <1>0, <3>1
  <2>2. CASE Len(f) = 0
    BY <1>2, <2>1, <2>2 DEF HeadStep
  <2>3. CASE Len(f) # 0
    <3> DEFINE end == Min({0 + Chunk, Len(f)})
               nls == Ascending(Newlines(f) \cap (0 + 1 .. end))
    <3>1. end \in 0 + 1 .. Len(f) /\ Len(nls) \in Nat /\ DOMAIN nls = 1 .. Len(nls)
      BY <1>0, <2>3, HeadChunk
    <3>2. HeadStep(f, 0, g, 0, 0) = end
      BY <2>3, <3>1 DEF HeadStep
    <3> HIDE DEF end
    <3> QED BY <1>0, <1>2, <2>1, <3>1, <3>2
  <2> QED BY <2>2, <2>3
<1> QED BY <1>1, <1>2

------------------------------------------------------------------------------
(* The backward scan for the last lines. *)

Separators(f) == Newlines(f) \ {Len(f)}

SeekStep(f, n, scan, pos, k) ==
  LET start == IF pos > Chunk THEN pos - Chunk ELSE 0
      seps == Ascending((Newlines(f) \ {Len(f)}) \cap (start + 1 .. pos))
  IN  IF pos = 0 THEN 0
      ELSE IF k + Len(seps) >= n THEN seps[Len(seps) - (n - k) + 1]
      ELSE scan[<<start, k + Len(seps)>>]

SeekScans(f, n, scan) ==
  scan = [at \in (0 .. Len(f)) \X (0 .. n) |-> SeekStep(f, n, scan, at[1], at[2])]

\* The newlines that separate lines are finitely many, too.
LEMMA SeparatorsFinite ==
  ASSUME NEW A, NEW f \in Seq(A)
  PROVE  /\ Separators(f) \in SUBSET Nat /\ IsFiniteSet(Separators(f))
         /\ Cardinality(Separators(f)) \in Nat
         /\ Rank(Separators(f), 0) = 0
         /\ Rank(Separators(f), Len(f)) = Cardinality(Separators(f))
<1>1. Separators(f) \in SUBSET Newlines(f)
  BY DEF Separators
<1>2. /\ Newlines(f) \in SUBSET (1 .. Len(f)) /\ Newlines(f) \in SUBSET Nat
      /\ IsFiniteSet(Newlines(f)) /\ Len(f) \in Nat
  BY NewlinesFinite
<1>3. IsFiniteSet(Separators(f)) /\ Cardinality(Separators(f)) \in Nat
  BY <1>1, <1>2, FS_Subset, FS_CardinalityType, Zenon
<1>4. {y \in Separators(f) : y <= 0} = {}
      /\ {y \in Separators(f) : y <= Len(f)} = Separators(f)
  BY <1>1, <1>2
<1> QED BY <1>1, <1>2, <1>3, <1>4, FS_EmptySet DEF Rank

\* The chunk before a position, its separators in order.
LEMMA SeekChunk ==
  ASSUME NEW A, NEW f \in Seq(A), NEW pos \in 0 .. Len(f), pos # 0
  PROVE  LET start == IF pos > Chunk THEN pos - Chunk ELSE 0
             seps == Ascending(Separators(f) \cap (start + 1 .. pos))
         IN  /\ start \in 0 .. pos - 1 /\ Len(seps) \in Nat
             /\ Rank(Separators(f), pos) = Rank(Separators(f), start) + Len(seps)
             /\ \A i \in 1 .. Len(seps) :
                  /\ seps[i] \in Separators(f)
                  /\ Rank(Separators(f), seps[i]) = Rank(Separators(f), start) + i
<1> DEFINE start == IF pos > Chunk THEN pos - Chunk ELSE 0
           N == Separators(f)
           M == N \cap (start + 1 .. pos)
<1>1. N \in SUBSET Nat /\ IsFiniteSet(N)
  BY SeparatorsFinite
<1>2. start \in 0 .. pos - 1 /\ pos \in Nat /\ start \in Nat /\ start <= pos
  BY ChunkAssumption, NewlinesFinite
<1> HIDE DEF start, N
<1>3. /\ M \in SUBSET Nat /\ IsFiniteSet(M) /\ Cardinality(M) \in Nat
      /\ Rank(N, pos) = Rank(N, start) + Cardinality(M)
  BY <1>1, <1>2, RankSplits
<1>4. Len(Ascending(M)) = Cardinality(M)
  BY <1>3, AscendingOrder
<1>5. \A i \in 1 .. Cardinality(M) :
        Ascending(M)[i] \in M /\ Rank(N, Ascending(M)[i]) = Rank(N, start) + i
  BY <1>1, <1>2, ChunkNewlines
<1> QED BY <1>2, <1>3, <1>4, <1>5 DEF start, N

\* The recursion of SeekToLastLines defines a function.
LEMMA SeekDefined ==
  ASSUME NEW A, NEW f \in Seq(A), NEW n \in Nat
  PROVE  \E scan : SeekScans(f, n, scan)
<1> DEFINE L == Len(f)
           D == (0 .. L) \X (0 .. n)
           Start(at) == IF at[1] > Chunk THEN at[1] - Chunk ELSE 0
           Seps(at) == Ascending((Newlines(f) \ {Len(f)}) \cap (Start(at) + 1 .. at[1]))
           Stop == {at \in D : at[1] = 0 \/ at[2] + Len(Seps(at)) >= n}
           depth == [at \in D |-> at[1]]
           value == [at \in D |-> SeekStep(f, n, <<>>, at[1], at[2])]
           next == [at \in D \ Stop |-> <<Start(at), at[2] + Len(Seps(at))>>]
<1>0. L \in Nat
  BY NewlinesFinite
<1>1. ASSUME NEW at \in D, at[1] # 0
      PROVE  Start(at) \in 0 .. at[1] - 1 /\ Len(Seps(at)) \in Nat
  <2>1. at[1] \in 0 .. L
    OBVIOUS
  <2> QED BY <1>1, <2>1, SeekChunk DEF Separators
<1>2. ASSUME NEW at \in D \ Stop
      PROVE  next[at] \in D /\ next[at][1] < at[1]
  <2>1. at \in D /\ at[1] \in 0 .. L /\ at[2] \in 0 .. n /\ at[1] # 0
    OBVIOUS
  <2>2. Start(at) \in 0 .. at[1] - 1 /\ Len(Seps(at)) \in Nat
    BY <1>1, <2>1
  <2>3. at[2] + Len(Seps(at)) < n
    BY <2>1, <2>2
  <2> HIDE DEF Start, Seps
  <2>4. <<Start(at), at[2] + Len(Seps(at))>> \in D /\ Start(at) < at[1]
    BY <1>0, <2>1, <2>2, <2>3
  <2> QED BY <2>4
<1>3. PICK scan : Runs(D, Stop, value, next, scan)
  <2>1. depth \in [D -> 0 .. L]
    BY <1>0
  <2>2. Stop \in SUBSET D /\ next \in [D \ Stop -> D]
    BY <1>2
  <2>3. \A at \in D \ Stop : depth[next[at]] < depth[at]
    <3> SUFFICES ASSUME NEW at \in D \ Stop PROVE depth[next[at]] < depth[at]
      OBVIOUS
    <3>1. next[at] \in D /\ next[at][1] < at[1]
      BY <1>2
    <3> HIDE DEF next, Stop
    <3> QED BY <1>0, <3>1
  <2> HIDE DEF L, D, depth, Stop, value, next
  <2>4. IsLoop(D, L, depth, Stop, value, next)
    BY <1>0, <2>1, <2>2, <2>3 DEF IsLoop
  <2> QED BY <2>4, LoopsEnd
<1>4. /\ scan = [at \in D |-> scan[at]]
      /\ \A at \in D : scan[at] = IF at \in Stop THEN value[at] ELSE scan[next[at]]
  <2> HIDE DEF D, Stop, value, next
  <2> QED BY <1>3 DEF Runs
<1>5. ASSUME NEW at \in D PROVE scan[at] = SeekStep(f, n, scan, at[1], at[2])
  <2>1. CASE at \in Stop
    <3>1. SeekStep(f, n, <<>>, at[1], at[2]) = SeekStep(f, n, scan, at[1], at[2])
      BY <2>1 DEF SeekStep
    <3> QED BY <1>4, <2>1, <3>1
  <2>2. CASE at \notin Stop
    <3>1. at[1] # 0 /\ ~ (at[2] + Len(Seps(at)) >= n)
      BY <2>2
    <3>2. SeekStep(f, n, scan, at[1], at[2]) = scan[<<Start(at), at[2] + Len(Seps(at))>>]
      BY <3>1 DEF SeekStep
    <3>3. scan[at] = scan[next[at]] /\ next[at] = <<Start(at), at[2] + Len(Seps(at))>>
      BY <1>4, <2>2
    <3> QED BY <3>2, <3>3
  <2> QED BY <2>1, <2>2
<1>6. scan = [at \in D |-> SeekStep(f, n, scan, at[1], at[2])]
  BY <1>4, <1>5
<1> QED BY <1>6 DEF SeekScans

\* SeekToLastLines starts it at the end with nothing counted.
LEMMA SeekScan ==
  ASSUME NEW A, NEW f \in Seq(A), NEW n \in Nat \ {0}, f # <<>>
  PROVE  \E g : /\ SeekToLastLines(f, n) = g[<<Len(f), 0>>]
                /\ \A p \in 0 .. Len(f) : \A j \in 0 .. n :
                     g[<<p, j>>] = SeekStep(f, n, g, p, j)
<1> DEFINE g == CHOOSE scan : SeekScans(f, n, scan)
<1>1. SeekScans(f, n, g)
  BY SeekDefined
<1>2. SeekToLastLines(f, n) = g[<<Len(f), 0>>]
  BY DEF SeekToLastLines, SeekScans, SeekStep
<1> HIDE DEF g
<1>3. \A p \in 0 .. Len(f) : \A j \in 0 .. n : g[<<p, j>>] = SeekStep(f, n, g, p, j)
  BY <1>1 DEF SeekScans
<1> QED BY <1>2, <1>3

\* The n-th separator from the end, or the start of the file.
LEMMA SeekFindsLines ==
  ASSUME NEW A, NEW f \in Seq(A), NEW n \in Nat \ {0}, f # <<>>
  PROVE  LET c == Cardinality(Separators(f))
         IN  SeekToLastLines(f, n) = IF n <= c THEN Ascending(Separators(f))[c - n + 1] ELSE 0
<1> DEFINE N == Separators(f)
           L == Len(f)
           c == Cardinality(N)
           Goal == IF n <= c THEN Ascending(N)[c - n + 1] ELSE 0
           Behind(p) == c - Rank(N, p)
<1>1. PICK g : /\ SeekToLastLines(f, n) = g[<<L, 0>>]
               /\ \A p \in 0 .. L : \A j \in 0 .. n : g[<<p, j>>] = SeekStep(f, n, g, p, j)
  BY SeekScan
<1> DEFINE M == {m \in Nat : \A p \in 0 .. L :
                   p <= m /\ Behind(p) < n => g[<<p, Behind(p)>>] = Goal}
<1>0. /\ L \in Nat /\ N \in SUBSET Nat /\ IsFiniteSet(N) /\ c \in Nat
      /\ Rank(N, 0) = 0 /\ Rank(N, L) = c
  BY NewlinesFinite, SeparatorsFinite
<1>2. ASSUME Behind(0) < n
      PROVE  g[<<0, Behind(0)>>] = Goal
  <2>1. g[<<0, c>>] = SeekStep(f, n, g, 0, c)
    BY <1>0, <1>1, <1>2
  <2> QED BY <1>0, <1>2, <2>1 DEF SeekStep
<1>3. 0 \in M
  BY <1>0, <1>2
<1>4. ASSUME NEW m \in Nat, m \in M PROVE m + 1 \in M
  <2> SUFFICES ASSUME NEW p \in 0 .. L, p <= m + 1, Behind(p) < n
               PROVE  g[<<p, Behind(p)>>] = Goal
    OBVIOUS
  <2>1. CASE p = 0
    BY <1>0, <1>2, <2>1
  <2>2. CASE p # 0
    <3> DEFINE k == Behind(p)
               start == IF p > Chunk THEN p - Chunk ELSE 0
               seps == Ascending(N \cap (start + 1 .. p))
               i == Len(seps) - (n - k) + 1
    <3>1. /\ start \in 0 .. p - 1 /\ Len(seps) \in Nat
          /\ Rank(N, p) = Rank(N, start) + Len(seps)
          /\ \A j \in 1 .. Len(seps) :
               seps[j] \in N /\ Rank(N, seps[j]) = Rank(N, start) + j
      BY <2>2, SeekChunk
    <3>2. k \in 0 .. n /\ Rank(N, p) \in 0 .. c /\ Rank(N, start) \in Nat
      <4>1. p \in Nat /\ start \in Nat
        BY <1>0, <3>1
      <4>2. Rank(N, p) \in Nat /\ Rank(N, p) <= c /\ Rank(N, start) \in Nat
        <5> HIDE DEF N, start
        <5> QED BY <1>0, <4>1, RankType
      <4> HIDE DEF N, c, start
      <4> QED BY <1>0, <4>2
    <3>3. g[<<p, k>>] = IF k + Len(seps) >= n THEN seps[i]
                        ELSE g[<<start, k + Len(seps)>>]
      BY <1>1, <2>2, <3>1, <3>2 DEF SeekStep, Separators
    <3>4. k = c - Rank(N, p) /\ k < n /\ c \in Nat /\ p <= m + 1 /\ p \in 0 .. L /\ L \in Nat
      BY <1>0
    <3> HIDE DEF N, c, L, start, seps, k
    <3>5. CASE k + Len(seps) >= n
      <4>1. i \in 1 .. Len(seps) /\ Rank(N, start) + i = c - n + 1
        <5>1. Len(seps) \in Nat /\ Rank(N, p) = Rank(N, start) + Len(seps)
          BY <3>1
        <5>2. k \in Nat /\ Rank(N, start) \in Nat /\ Rank(N, p) \in Nat
          BY <3>2
        <5>3. c \in Nat /\ k = c - Rank(N, p) /\ k < n
          BY <3>4
        <5> HIDE DEF M, Goal, Behind, i
        <5>4. i = Len(seps) - (n - k) + 1
          BY DEF i
        <5>5. n \in Nat
          OBVIOUS
        <5>6. /\ Len(seps) - (n - k) + 1 \in 1 .. Len(seps)
              /\ Rank(N, start) + (Len(seps) - (n - k) + 1) = c - n + 1
          <6>1. PICK l \in Nat, s \in Nat, r \in Nat, j \in Nat, b \in Nat :
                  /\ l = Len(seps) /\ s = Rank(N, start) /\ r = Rank(N, p)
                  /\ j = k /\ b = c
            BY <5>1, <5>2, <5>3
          <6>2. r = s + l /\ j = b - r /\ j < n /\ j + l >= n
            BY <3>5, <5>1, <5>3, <6>1
          <6>3. l - (n - j) + 1 \in 1 .. l /\ s + (l - (n - j) + 1) = b - n + 1
            BY ONLY n \in Nat, l \in Nat, s \in Nat, r \in Nat, j \in Nat, b \in Nat, <6>2
          <6> QED BY <6>1, <6>3
        <5> QED BY <5>4, <5>6, Zenon
      <4>2. PICK x \in N : x = seps[i] /\ Rank(N, x) = c - n + 1
        BY <3>1, <4>1
      <4>3. Rank(N, x) \in 1 .. c /\ Ascending(N)[Rank(N, x)] = x
        BY <1>0, AscendingAt DEF c
      <4> QED BY <3>3, <3>4, <3>5, <4>2, <4>3
    <3>6. CASE k + Len(seps) < n
      <4>1. start \in 0 .. L /\ start <= m /\ c - Rank(N, start) = k + Len(seps)
        BY <3>1, <3>2, <3>4
      <4>2. g[<<start, c - Rank(N, start)>>] = Goal
        BY <1>4, <3>6, <4>1
      <4>3. g[<<p, k>>] = Goal
        <5>1. Len(seps) \in Nat /\ k \in Nat /\ n \in Nat
          BY <3>1, <3>2
        <5>2. ~ (k + Len(seps) >= n)
          BY <3>6, <5>1
        <5>3. g[<<p, k>>] = g[<<start, k + Len(seps)>>]
          <6> HIDE DEF M, Goal, Behind, i
          <6> QED BY <3>3, <5>2
        <5> HIDE DEF Goal
        <5> QED BY <4>1, <4>2, <5>3
      <4> QED BY <3>4, <4>3
    <3> QED BY <3>1, <3>2, <3>5, <3>6
  <2> QED BY <2>1, <2>2
<1>5. L \in M
  BY <1>0, <1>3, <1>4, SetInduction
<1>6. g[<<L, Behind(L)>>] = Goal
  BY <1>0, <1>5
<1> QED BY <1>0, <1>1, <1>6

------------------------------------------------------------------------------
(* The forward probe for the last bytes. *)

ProbeStep(f, raw, probe, pos) ==
  IF pos = Len(f) THEN raw
  ELSE LET end == Min({pos + Chunk, Len(f)})
           nls == Newlines(f) \cap (pos + 1 .. end)
       IN  IF nls # {} THEN Min(nls) ELSE probe[end]

Probes(f, raw, probe) == probe = [pos \in 0 .. Len(f) |-> ProbeStep(f, raw, probe, pos)]

\* The recursion of SeekToLastBytes defines a function.
LEMMA ProbeDefined ==
  ASSUME NEW A, NEW f \in Seq(A), NEW raw
  PROVE  \E probe : Probes(f, raw, probe)
<1> DEFINE L == Len(f)
           D == 0 .. L
           End(at) == Min({at + Chunk, L})
           Stop == {at \in D : at = L \/ Newlines(f) \cap (at + 1 .. End(at)) # {}}
           depth == [at \in D |-> L - at]
           value == [at \in D |-> ProbeStep(f, raw, <<>>, at)]
           next == [at \in D \ Stop |-> End(at)]
<1>0. L \in Nat
  BY NewlinesFinite
<1>1. ASSUME NEW at \in D \ Stop
      PROVE  next[at] \in D /\ next[at] > at
  <2>1. at \in 0 .. L /\ at # L
    OBVIOUS
  <2>2. End(at) \in at + 1 .. L
    BY <1>0, <2>1, ChunkEnd
  <2> HIDE DEF End
  <2>3. End(at) \in D /\ End(at) > at
    BY <1>0, <2>1, <2>2
  <2> QED BY <2>3
<1>2. PICK probe : Runs(D, Stop, value, next, probe)
  <2>1. depth \in [D -> 0 .. L]
    BY <1>0
  <2>2. Stop \in SUBSET D /\ next \in [D \ Stop -> D]
    BY <1>1
  <2>3. \A at \in D \ Stop : depth[next[at]] < depth[at]
    <3> SUFFICES ASSUME NEW at \in D \ Stop PROVE depth[next[at]] < depth[at]
      OBVIOUS
    <3>1. next[at] \in D /\ next[at] > at
      BY <1>1
    <3> HIDE DEF next, Stop
    <3> QED BY <1>0, <3>1
  <2> HIDE DEF L, D, depth, Stop, value, next
  <2>4. IsLoop(D, L, depth, Stop, value, next)
    BY <1>0, <2>1, <2>2, <2>3 DEF IsLoop
  <2> QED BY <2>4, LoopsEnd
<1>3. /\ probe = [at \in D |-> probe[at]]
      /\ \A at \in D : probe[at] = IF at \in Stop THEN value[at] ELSE probe[next[at]]
  <2> HIDE DEF D, Stop, value, next
  <2> QED BY <1>2 DEF Runs
<1>4. ASSUME NEW at \in D PROVE probe[at] = ProbeStep(f, raw, probe, at)
  <2>1. CASE at \in Stop
    <3>1. ProbeStep(f, raw, <<>>, at) = ProbeStep(f, raw, probe, at)
      BY <2>1 DEF ProbeStep
    <3> QED BY <1>3, <2>1, <3>1
  <2>2. CASE at \notin Stop
    <3>1. at # L /\ ~ (Newlines(f) \cap (at + 1 .. End(at)) # {})
      BY <2>2
    <3>2. ProbeStep(f, raw, probe, at) = probe[End(at)]
      BY <3>1 DEF ProbeStep
    <3>3. probe[at] = probe[next[at]] /\ next[at] = End(at)
      BY <1>3, <2>2
    <3> QED BY <3>2, <3>3
  <2> QED BY <2>1, <2>2
<1>5. probe = [at \in D |-> ProbeStep(f, raw, probe, at)]
  BY <1>3, <1>4
<1> QED BY <1>5 DEF Probes

\* The first newline after a position, or else the position the probe began at.
LEMMA ProbeFinds ==
  ASSUME NEW A, NEW f \in Seq(A), NEW raw \in 0 .. Len(f), NEW probe, Probes(f, raw, probe)
  PROVE  LET later == {i \in Newlines(f) : i > raw}
         IN  probe[raw] = IF later = {} THEN raw ELSE Min(later)
<1> DEFINE L == Len(f)
           Later(p) == {i \in Newlines(f) : i > p}
           Goal(p) == IF Later(p) = {} THEN raw ELSE Min(Later(p))
           M == {m \in Nat : \A p \in 0 .. L : p + m >= L => probe[p] = Goal(p)}
<1>0. /\ L \in Nat /\ Newlines(f) \in SUBSET (1 .. L) /\ Newlines(f) \in SUBSET Nat
      /\ \A p \in 0 .. L : probe[p] = ProbeStep(f, raw, probe, p)
  BY NewlinesFinite DEF Probes
<1>1. probe[L] = Goal(L)
  <2>1. Later(L) = {}
    BY <1>0
  <2>2. ProbeStep(f, raw, probe, L) = raw
    BY DEF ProbeStep
  <2>3. L \in 0 .. L
    BY <1>0
  <2>4. probe[L] = raw
    BY <1>0, <2>2, <2>3
  <2> QED BY <2>1, <2>4
<1>2. 0 \in M
  <2> SUFFICES ASSUME NEW p \in 0 .. L, p + 0 >= L PROVE probe[p] = Goal(p)
    OBVIOUS
  <2>1. p = L
    BY <1>0
  <2> QED BY <1>1, <2>1
<1>3. ASSUME NEW m \in Nat, m \in M PROVE m + 1 \in M
  <2> SUFFICES ASSUME NEW p \in 0 .. L, p + (m + 1) >= L PROVE probe[p] = Goal(p)
    <3> HIDE DEF Goal, L
    <3> QED OBVIOUS
  <2>1. CASE p = L
    BY <1>1, <2>1
  <2>2. CASE p # L
    <3> DEFINE end == Min({p + Chunk, L})
               nls == Newlines(f) \cap (p + 1 .. end)
    <3>1. end \in p + 1 .. L
      BY <1>0, <2>2, ChunkEnd
    <3>2. probe[p] = IF nls # {} THEN Min(nls) ELSE probe[end]
      BY <1>0, <2>2 DEF ProbeStep
    <3> HIDE DEF end
    <3>3. CASE nls # {}
      <4>1. nls \in SUBSET Nat /\ Min(nls) \in nls /\ \A i \in nls : Min(nls) <= i
        BY <1>0, <3>3, LeastOf
      <4>2. Later(p) \in SUBSET Nat /\ Later(p) # {}
        BY <1>0, <3>1, <3>3
      <4>3. Min(Later(p)) \in Later(p) /\ \A i \in Later(p) : Min(Later(p)) <= i
        BY <4>2, LeastOf
      <4>4. Min(nls) \in Later(p) /\ Min(nls) <= end
        <5>1. Min(nls) \in Newlines(f) /\ Min(nls) \in p + 1 .. end /\ end \in Nat /\ p \in Nat
          BY <1>0, <3>1, <4>1
        <5> HIDE DEF nls
        <5> QED BY <5>1
      <4>5. PICK x \in Later(p) : x = Min(Later(p)) /\ \A i \in Later(p) : x <= i
        BY <4>3
      <4>6. PICK y \in nls : y = Min(nls) /\ \A i \in nls : y <= i
        BY <4>1
      <4>7. x \in Nat /\ y \in Nat /\ end \in Nat /\ x <= y /\ y <= end /\ x > p /\ x \in Newlines(f)
        BY <1>0, <3>1, <4>4, <4>5, <4>6
      <4>8. x \in nls
        <5>1. p \in Nat /\ x \in p + 1 .. end
          BY <1>0, <4>7
        <5> QED BY <4>7, <5>1
      <4>9. x = y
        <5>1. y <= x
          BY <4>6, <4>8
        <5> HIDE DEF nls
        <5> QED BY <4>7, <5>1
      <4> QED BY <3>2, <3>3, <4>2, <4>5, <4>6, <4>9
    <3>4. CASE nls = {}
      <4>1. Later(p) = Later(end)
        <5>1. ASSUME NEW i \in Newlines(f) PROVE i > p <=> i > end
          BY <1>0, <3>1, <3>4
        <5> QED BY <5>1
      <4>2. end \in 0 .. L /\ end + m >= L
        BY <1>0, <3>1
      <4>3. probe[end] = Goal(end)
        BY <1>3, <4>2
      <4> QED BY <3>2, <3>4, <4>1, <4>3
    <3> QED BY <3>3, <3>4
  <2> QED BY <2>1, <2>2
<1>4. L \in M
  <2> HIDE DEF M
  <2> QED BY <1>0, <1>2, <1>3, SetInduction
<1>5. \A p \in 0 .. L : probe[p] = Goal(p)
  <2> HIDE DEF Goal, L
  <2>1. \A p \in 0 .. L : p + L >= L
    BY <1>0
  <2> QED BY <1>4, <2>1
<1> QED BY <1>5

\* Inside a line, SeekToLastBytes goes on to the next line, if one begins.
LEMMA BytesProbe ==
  ASSUME NEW A, NEW f \in Seq(A), NEW n \in Nat, n < Len(f), f[Len(f) - n] # NL
  PROVE  LET later == {i \in Newlines(f) : i > Len(f) - n}
         IN  SeekToLastBytes(f, n) = IF later = {} THEN Len(f) - n ELSE Min(later)
<1> DEFINE raw == Len(f) - n
           g == CHOOSE probe : Probes(f, raw, probe)
<1>0. Len(f) \in Nat /\ raw \in 0 .. Len(f) /\ ~ (Len(f) <= n)
  BY NewlinesFinite
<1>1. Probes(f, raw, g)
  BY ProbeDefined, Zenon
<1>2. SeekToLastBytes(f, n) = g[raw]
  <2>1. f[raw] # NL
    OBVIOUS
  <2> QED BY <1>0, <2>1 DEF SeekToLastBytes, Probes, ProbeStep
<1> HIDE DEF g, raw
<1>3. LET later == {i \in Newlines(f) : i > raw}
      IN  g[raw] = IF later = {} THEN raw ELSE Min(later)
  BY <1>0, <1>1, ProbeFinds
<1> QED BY <1>2, <1>3 DEF raw

\* The first start of a line among the last n bytes.
LEMMA BytesFindALine ==
  ASSUME NEW A, NEW f \in Seq(A), NEW n \in Nat
  PROVE  LET raw == IF n >= Len(f) THEN 0 ELSE Len(f) - n
             lines == {b \in Boundaries(f) : b >= raw}
         IN  SeekToLastBytes(f, n) = IF lines = {} THEN raw ELSE Min(lines)
<1> DEFINE raw == IF n >= Len(f) THEN 0 ELSE Len(f) - n
           lines == {b \in Boundaries(f) : b >= raw}
<1>0. Len(f) \in Nat /\ Newlines(f) \in SUBSET (1 .. Len(f)) /\ DOMAIN f = 1 .. Len(f)
  BY NewlinesFinite
<1>1. lines \in SUBSET Nat
  BY <1>0 DEF Boundaries
<1>3. CASE n >= Len(f)
  <2>1. 0 \in lines
    BY <1>3 DEF Boundaries
  <2>2. \A x \in lines : 0 <= x
    BY <1>1
  <2>3. Min(lines) = 0
    <3> HIDE DEF lines
    <3> QED BY <1>1, <2>1, <2>2, MinIs
  <2>4. SeekToLastBytes(f, n) = 0
    BY <1>0, <1>3 DEF SeekToLastBytes
  <2> QED BY <2>1, <2>3, <2>4
<1>4. CASE n < Len(f)
  <2>1. raw = Len(f) - n /\ raw \in 1 .. Len(f)
    BY <1>0, <1>4
  <2>2. lines = {i \in Newlines(f) : i >= raw}
    <3> HIDE DEF raw
    <3>1. 0 \notin lines
      BY <2>1
    <3> QED BY <3>1 DEF Boundaries
  <2>3. CASE f[raw] = NL
    <3>0. raw \in Newlines(f) /\ raw \in Nat
      <4> HIDE DEF raw
      <4> QED BY <1>0, <2>1, <2>3 DEF Newlines
    <3>1. raw \in lines /\ \A x \in lines : raw <= x
      <4> HIDE DEF raw
      <4> QED BY <1>0, <2>2, <3>0
    <3>2. Min(lines) = raw
      <4> HIDE DEF raw, lines
      <4> QED BY <1>1, <3>1, MinIs
    <3>3. SeekToLastBytes(f, n) = raw
      BY <1>0, <1>4, <2>1, <2>3 DEF SeekToLastBytes
    <3> QED BY <3>1, <3>2, <3>3
  <2>4. CASE f[raw] # NL
    <3>1. lines = {i \in Newlines(f) : i > raw}
      <4>1. raw \notin Newlines(f)
        BY <2>4 DEF Newlines
      <4> HIDE DEF raw
      <4>2. \A i \in Newlines(f) : i >= raw <=> i > raw
        BY <1>0, <2>1, <4>1
      <4> QED BY <2>2, <4>2
    <3>2. LET later == {i \in Newlines(f) : i > Len(f) - n}
          IN  SeekToLastBytes(f, n) = IF later = {} THEN Len(f) - n ELSE Min(later)
      BY <1>4, <2>1, <2>4, BytesProbe
    <3> QED BY <2>1, <3>1, <3>2
  <2> QED BY <2>3, <2>4
<1> QED BY <1>0, <1>3, <1>4

------------------------------------------------------------------------------
(* The bounded reads print lines. *)

\* The ends of the first lines are the first newlines.
LEMMA FirstEnds ==
  ASSUME NEW A, NEW f \in Seq(A)
  PROVE  LET N == Newlines(f)
             E == Ends(f)
         IN  /\ Cardinality(N) <= Cardinality(E) /\ Cardinality(E) <= Cardinality(N) + 1
             /\ \A k \in 1 .. Cardinality(N) : Ascending(E)[k] = Ascending(N)[k]
<1> DEFINE N == Newlines(f)
           E == Ends(f)
<1>0. /\ N \in SUBSET (1 .. Len(f)) /\ N \in SUBSET Nat /\ IsFiniteSet(N)
      /\ Cardinality(N) \in Nat
      /\ E \in SUBSET (1 .. Len(f)) /\ E \in SUBSET Nat /\ IsFiniteSet(E)
      /\ Cardinality(E) \in Nat /\ Len(f) \in Nat
  BY NewlinesFinite, EndsFinite
<1>1. N \in SUBSET E /\ E \in SUBSET (N \cup {Len(f)})
  BY DEF Ends
<1> HIDE DEF N, E
<1>2. Cardinality(N) <= Cardinality(E)
  BY <1>0, <1>1, FS_Subset, Zenon
<1>3. Cardinality(E) <= Cardinality(N) + 1
  <2>1. /\ IsFiniteSet(N \cup {Len(f)})
        /\ Cardinality(N \cup {Len(f)}) =
             IF Len(f) \in N THEN Cardinality(N) ELSE Cardinality(N) + 1
    BY <1>0, FS_AddElement, Zenon
  <2>2. Cardinality(E) <= Cardinality(N \cup {Len(f)})
    BY <1>1, <2>1, FS_Subset, Zenon
  <2> QED BY <1>0, <2>1, <2>2
<1>4. ASSUME NEW k \in 1 .. Cardinality(N) PROVE Ascending(E)[k] = Ascending(N)[k]
  <2>1. PICK x \in N : x = Ascending(N)[k] /\ Rank(N, x) = k
    BY <1>0, AscendingOrder
  <2>2. {y \in E : y <= x} = {y \in N : y <= x}
    <3>1. x \in N /\ x <= Len(f)
      BY <1>0
    <3>2. \A y \in E : y <= x => y \in N
      BY <1>0, <1>1, <3>1
    <3> QED BY <1>1, <3>2
  <2>3. Rank(E, x) = k /\ x \in E
    BY <1>1, <2>1, <2>2 DEF Rank
  <2>4. Ascending(E)[Rank(E, x)] = x
    BY <1>0, <2>3, AscendingAt
  <2> QED BY <2>1, <2>3, <2>4
<1> QED BY <1>2, <1>3, <1>4 DEF N, E

\* What HeadLoop ends at is the end of the first n lines (tail.rs:205-255).
LEMMA HeadPrintsLines ==
  ASSUME NEW A, NEW f \in Seq(A), NEW n \in Nat \ {0}
  PROVE  SubSeq(f, 1, HeadLoop(f, n)) =
           FlattenSeq(SubSeq(SplitLines(f), 1, Min({n, Len(SplitLines(f))})))
<1> DEFINE N == Newlines(f)
           c == Cardinality(Ends(f))
           b == Min({n, c})
<1>0. Cardinality(N) \in Nat /\ c \in Nat /\ Len(f) \in Nat
  BY NewlinesFinite, EndsFinite
<1>1. Len(SplitLines(f)) = c
  BY LinesAre
<1>2. b = IF n <= c THEN n ELSE c
  BY <1>0, MinOfTwo
<1>3. b \in 0 .. c
  BY <1>0, <1>2
<1>4. FlattenSeq(SubSeq(SplitLines(f), 0 + 1, b)) = SubSeq(f, Cut(f)[0] + 1, Cut(f)[b])
  <2>1. 0 \in 0 .. c /\ b \in 0 .. c
    BY <1>0, <1>3
  <2> HIDE DEF b
  <2> QED BY <2>1, LinesFlatten
<1>5. /\ Cut(f)[0] = 0 /\ Cut(f)[c] = Len(f)
      /\ \A k \in 1 .. c : Cut(f)[k] = Ascending(Ends(f))[k]
  BY CutsInOrder
<1>6. Cut(f)[b] = HeadLoop(f, n)
  <2>1. /\ Cardinality(N) <= c /\ c <= Cardinality(N) + 1
        /\ \A k \in 1 .. Cardinality(N) : Ascending(Ends(f))[k] = Ascending(N)[k]
    BY FirstEnds
  <2>2. HeadLoop(f, n) = IF n <= Cardinality(N) THEN Ascending(N)[n] ELSE Len(f)
    BY HeadFinds
  <2> HIDE DEF c, N, b
  <2>3. CASE n <= Cardinality(N)
    <3>1. n \in 1 .. Cardinality(N) /\ n \in 1 .. c /\ b = n
      BY <1>0, <1>2, <2>1, <2>3
    <3>2. Cut(f)[n] = Ascending(N)[n]
      BY <1>5, <2>1, <3>1
    <3> QED BY <2>2, <2>3, <3>1, <3>2
  <2>4. CASE ~ (n <= Cardinality(N))
    <3>1. b = c
      BY <1>0, <1>2, <2>1, <2>4
    <3> QED BY <1>5, <2>2, <2>4, <3>1
  <2> QED BY <2>3, <2>4
<1>7. 0 + 1 = 1
  OBVIOUS
<1> HIDE DEF b
<1> QED BY <1>1, <1>4, <1>5, <1>6, <1>7 DEF b

\* All ends but the last are separators.
LEMMA LastEnds ==
  ASSUME NEW A, NEW f \in Seq(A), f # <<>>
  PROVE  LET S == Separators(f)
             E == Ends(f)
         IN  /\ Cardinality(E) = Cardinality(S) + 1
             /\ \A k \in 1 .. Cardinality(S) : Ascending(E)[k] = Ascending(S)[k]
<1> DEFINE S == Separators(f)
           E == Ends(f)
<1>0. /\ S \in SUBSET Nat /\ IsFiniteSet(S) /\ Cardinality(S) \in Nat
      /\ E \in SUBSET Nat /\ IsFiniteSet(E) /\ Len(f) \in Nat
      /\ Newlines(f) \in SUBSET (1 .. Len(f)) /\ DOMAIN f = 1 .. Len(f)
  BY NewlinesFinite, SeparatorsFinite, EndsFinite
<1>1. Len(f) # 0
  BY EmptySeq
<1>2. E = S \cup {Len(f)} /\ Len(f) \notin S
  BY <1>0, <1>1 DEF Ends, Separators
<1>3. \A x \in S : x < Len(f)
  BY <1>0 DEF Separators
<1> HIDE DEF S, E
<1>4. Cardinality(E) = Cardinality(S) + 1
  BY <1>0, <1>2, FS_AddElement, Zenon
<1>5. ASSUME NEW k \in 1 .. Cardinality(S) PROVE Ascending(E)[k] = Ascending(S)[k]
  <2>1. PICK x \in S : x = Ascending(S)[k] /\ Rank(S, x) = k
    BY <1>0, AscendingOrder
  <2>2. {y \in E : y <= x} = {y \in S : y <= x}
    <3>1. x \in Nat /\ x < Len(f)
      BY <1>0, <1>3
    <3>2. ~ (Len(f) <= x)
      BY <1>0, <3>1
    <3> QED BY <1>2, <3>2
  <2>3. Rank(E, x) = k /\ x \in E
    BY <1>2, <2>1, <2>2 DEF Rank
  <2>4. Ascending(E)[Rank(E, x)] = x
    BY <1>0, <2>3, AscendingAt
  <2> QED BY <2>1, <2>3, <2>4
<1> QED BY <1>4, <1>5 DEF S, E

\* What SeekToLastLines finds is the start of the last n lines (tail.rs:1147).
LEMMA LinesPrintLines ==
  ASSUME NEW A, NEW f \in Seq(A), NEW n \in Nat
  PROVE  From(f, SeekToLastLines(f, n)) = FlattenSeq(LastOf(SplitLines(f), n))
<1> DEFINE c == Cardinality(Ends(f))
           a == IF n >= c THEN 0 ELSE c - n
<1>0. c \in Nat /\ Len(f) \in Nat
  BY NewlinesFinite, EndsFinite
<1>1. Len(SplitLines(f)) = c
  BY LinesAre
<1>2. a \in 0 .. c /\ c \in a .. c
  BY <1>0
<1>3. FlattenSeq(SubSeq(SplitLines(f), a + 1, c)) = SubSeq(f, Cut(f)[a] + 1, Cut(f)[c])
  <2> HIDE DEF a, c
  <2> QED BY <1>2, LinesFlatten DEF c
<1>4. /\ Cut(f)[0] = 0 /\ Cut(f)[c] = Len(f)
      /\ \A k \in 1 .. c : Cut(f)[k] = Ascending(Ends(f))[k]
  BY CutsInOrder
<1>5. LastOf(SplitLines(f), n) = SubSeq(SplitLines(f), a + 1, c)
  <2>1. a + 1 = IF n >= c THEN 1 ELSE c - n + 1
    BY <1>0
  <2> QED BY <1>1, <2>1 DEF LastOf
<1>6. Cut(f)[a] = SeekToLastLines(f, n)
  <2>1. CASE f = <<>>
    <3>1. Len(f) = 0
      BY <2>1
    <3>2. c = 0
      <4>1. Ends(f) \in SUBSET (1 .. 0)
        BY <3>1, EndsFinite
      <4>2. Ends(f) = {}
        BY <4>1
      <4> QED BY <4>2, FS_EmptySet
    <3> QED BY <1>0, <1>4, <2>1, <3>1, <3>2 DEF SeekToLastLines
  <2>2. CASE n = 0
    <3>1. a = c
      BY <1>0, <2>2
    <3> QED BY <1>4, <2>2, <3>1 DEF SeekToLastLines
  <2>3. CASE f # <<>> /\ n # 0
    <3> DEFINE S == Separators(f)
               s == Cardinality(S)
    <3>1. s \in Nat /\ c = s + 1 /\ \A k \in 1 .. s : Ascending(Ends(f))[k] = Ascending(S)[k]
      BY <2>3, LastEnds, SeparatorsFinite
    <3>2. SeekToLastLines(f, n) = IF n <= s THEN Ascending(S)[s - n + 1] ELSE 0
      BY <2>3, SeekFindsLines
    <3> HIDE DEF s, S, c
    <3>3. CASE n <= s
      <4>1. a = s - n + 1 /\ a \in 1 .. s /\ a \in 1 .. c
        BY <2>3, <3>1, <3>3
      <4>2. Cut(f)[a] = Ascending(S)[a]
        <5> HIDE DEF a
        <5> QED BY <1>4, <3>1, <4>1
      <4> QED BY <3>2, <3>3, <4>1, <4>2
    <3>4. CASE ~ (n <= s)
      <4>1. a = 0
        BY <2>3, <3>1, <3>4
      <4> QED BY <1>4, <3>2, <3>4, <4>1
    <3> QED BY <3>3, <3>4
  <2> QED BY <2>1, <2>2, <2>3
<1> HIDE DEF a, c
<1> QED BY <1>3, <1>4, <1>5, <1>6 DEF From

------------------------------------------------------------------------------
(* Reversal keeps the lines. *)

\* f with its lines in the opposite order
Mirror(f) ==
  [q \in 1 .. Len(f) |->
     LET k == Rank(Ends(f), Len(f) - q) + 1
     IN  f[Cut(f)[k - 1] + (q - (Len(f) - Cut(f)[k]))]]

\* The mirrored file is as long as the file.
LEMMA MirrorType ==
  ASSUME NEW A, NEW f \in Seq(A)
  PROVE  /\ Mirror(f) \in Seq(A) /\ Len(Mirror(f)) = Len(f)
         /\ DOMAIN Mirror(f) = 1 .. Len(f)
<1> DEFINE L == Len(f)
           k(q) == Rank(Ends(f), L - q) + 1
           at(q) == Cut(f)[k(q) - 1] + (q - (L - Cut(f)[k(q)]))
<1>0. L \in Nat /\ \A i \in 0 .. Cardinality(Ends(f)) : Cut(f)[i] \in 0 .. L
  BY NewlinesFinite, CutsInOrder
<1>1. ASSUME NEW q \in 1 .. L PROVE f[at(q)] \in A
  <2>1. L - q \in 0 .. L - 1
    BY <1>0
  <2>2. /\ k(q) \in 1 .. Cardinality(Ends(f)) /\ k(q) - 1 \in 0 .. Cardinality(Ends(f))
        /\ Cut(f)[k(q) - 1] <= L - q /\ L - q < Cut(f)[k(q)]
    BY <2>1, LineAt
  <2>3. Cut(f)[k(q) - 1] \in 0 .. L /\ Cut(f)[k(q)] \in 0 .. L
    <3>1. k(q) \in 0 .. Cardinality(Ends(f))
      BY <2>2, EndsFinite
    <3> HIDE DEF k
    <3> QED BY <1>0, <2>2, <3>1
  <2> HIDE DEF k
  <2>4. \A u, v \in 0 .. L : u <= L - q /\ L - q < v => u + (q - (L - v)) \in 1 .. L
    BY <1>0
  <2>5. at(q) \in 1 .. L
    BY <2>2, <2>3, <2>4
  <2> HIDE DEF at
  <2> QED BY <2>5, ElementOfSeq
<1>2. Mirror(f) = [q \in 1 .. L |-> f[at(q)]]
  BY DEF Mirror
<1> HIDE DEF at
<1>3. Mirror(f) \in [1 .. L -> A]
  BY <1>1, <1>2
<1> QED BY <1>0, <1>3, SeqDef

\* A line of f is found at the mirrored place.
LEMMA MirrorLine ==
  ASSUME NEW A, NEW f \in Seq(A), NEW k \in 1 .. Cardinality(Ends(f)),
         NEW j \in 1 .. Cut(f)[k] - Cut(f)[k - 1]
  PROVE  /\ Len(f) - Cut(f)[k] + j \in 1 .. Len(f)
         /\ Mirror(f)[Len(f) - Cut(f)[k] + j] = f[Cut(f)[k - 1] + j]
<1> DEFINE L == Len(f)
           u == Cut(f)[k - 1]
           v == Cut(f)[k]
           q == L - v + j
<1>0. L \in Nat /\ u \in 0 .. L /\ v \in 0 .. L /\ u < v
  <2>1. k \in 0 .. Cardinality(Ends(f)) /\ k - 1 \in 0 .. Cardinality(Ends(f))
    BY EndsFinite
  <2> QED BY <2>1, NewlinesFinite, CutsInOrder
<1> HIDE DEF L, u, v
<1>1. q \in 1 .. L /\ L - q \in Nat /\ u <= L - q /\ L - q < v
  <2>1. j \in 1 .. v - u
    BY DEF u, v
  <2> QED BY <1>0, <2>1
<1>2. Rank(Ends(f), L - q) = k - 1
  <2> HIDE DEF q
  <2> QED BY <1>1, LineOf DEF u, v
<1>3. (k - 1) + 1 = k /\ u + (q - (L - v)) = u + j
  BY <1>0, EndsFinite DEF u, v
<1>4. Mirror(f)[q] = f[u + (q - (L - v))]
  <2> HIDE DEF q
  <2> QED BY <1>1, <1>2, <1>3 DEF Mirror, L, u, v
<1> QED BY <1>1, <1>3, <1>4 DEF L, u, v

\* So is each part of a line that begins with it.
LEMMA MirrorPart ==
  ASSUME NEW A, NEW f \in Seq(A), NEW k \in 1 .. Cardinality(Ends(f)),
         NEW m \in 0 .. Cut(f)[k] - Cut(f)[k - 1]
  PROVE  SubSeq(Mirror(f), Len(f) - Cut(f)[k] + 1, Len(f) - Cut(f)[k] + m) =
           SubSeq(f, Cut(f)[k - 1] + 1, Cut(f)[k - 1] + m)
<1> DEFINE L == Len(f)
           R == Mirror(f)
           u == Cut(f)[k - 1]
           v == Cut(f)[k]
           w == L - v
           s == SubSeq(R, w + 1, w + m)
           t == SubSeq(f, u + 1, u + m)
<1>0. L \in Nat /\ u \in 0 .. L /\ v \in 0 .. L /\ u < v /\ w \in 0 .. L /\ m \in 0 .. v - u
  <2>1. k \in 0 .. Cardinality(Ends(f)) /\ k - 1 \in 0 .. Cardinality(Ends(f))
    BY EndsFinite
  <2>2. L \in Nat /\ u \in 0 .. L /\ v \in 0 .. L /\ u < v
    BY <2>1, NewlinesFinite, CutsInOrder
  <2> HIDE DEF L, v
  <2>3. w \in 0 .. L
    BY <2>2
  <2> QED BY <2>2, <2>3 DEF v
<1>1. \A j \in 1 .. m : /\ w + j \in 1 .. L /\ u + j \in 1 .. L
                        /\ R[w + j] = f[u + j]
  <2> SUFFICES ASSUME NEW j \in 1 .. m
               PROVE  w + j \in 1 .. L /\ u + j \in 1 .. L /\ R[w + j] = f[u + j]
    OBVIOUS
  <2>1. j \in 1 .. v - u
    BY <1>0
  <2>2. u + j \in 1 .. L
    BY <1>0, <2>1
  <2> QED BY <2>1, <2>2, MirrorLine
<1>2. R \in Seq(A) /\ Len(R) = L
  BY MirrorType
<1> HIDE DEF L, R, u, v, w
<1>3. m \in Nat /\ w \in Nat /\ u \in Nat /\ w + m <= L /\ u + m <= L
  BY <1>0 DEF w
<1>4. s \in Seq(A) /\ Len(s) = m /\ \A j \in 1 .. m : s[j] = R[w + j]
  BY <1>2, <1>3, Part
<1>5. t \in Seq(A) /\ Len(t) = m /\ \A j \in 1 .. m : t[j] = f[u + j]
  BY <1>3, Part DEF L
<1> HIDE DEF s, t
<1>6. s = t
  BY <1>1, <1>4, <1>5, SeqEqual
<1> QED BY <1>6 DEF s, t, L, R, u, v, w

\* A newline of the mirrored file ends a line of f.
LEMMA MirrorNewlines ==
  ASSUME NEW A, NEW f \in Seq(A), Ends(f) = Newlines(f)
  PROVE  Newlines(Mirror(f)) = {Len(f) - Cut(f)[k - 1] : k \in 1 .. Cardinality(Ends(f))}
<1> DEFINE L == Len(f)
           c == Cardinality(Ends(f))
           R == Mirror(f)
           N == Newlines(f)
<1>0. /\ L \in Nat /\ DOMAIN f = 1 .. L /\ \A i \in 0 .. c : Cut(f)[i] \in 0 .. L
      /\ \A i \in 1 .. c : Cut(f)[i - 1] < Cut(f)[i] /\ i \in 0 .. c /\ i - 1 \in 0 .. c
  BY NewlinesFinite, CutsInOrder, EndsFinite
<1>1. DOMAIN R = 1 .. L
  BY MirrorType
<1>2. ASSUME NEW k \in 1 .. c PROVE L - Cut(f)[k - 1] \in Newlines(R)
  <2> DEFINE j == Cut(f)[k] - Cut(f)[k - 1]
  <2>1. /\ Cut(f)[k] \in 0 .. L /\ Cut(f)[k - 1] \in 0 .. L /\ Cut(f)[k - 1] < Cut(f)[k]
    BY <1>0
  <2>2. /\ j \in 1 .. Cut(f)[k] - Cut(f)[k - 1]
        /\ L - Cut(f)[k] + j = L - Cut(f)[k - 1] /\ Cut(f)[k - 1] + j = Cut(f)[k]
    BY <1>0, <2>1
  <2>3. R[L - Cut(f)[k - 1]] = f[Cut(f)[k]] /\ L - Cut(f)[k - 1] \in 1 .. L
    <3> HIDE DEF j
    <3>1. /\ L - Cut(f)[k] + j \in 1 .. L
          /\ R[L - Cut(f)[k] + j] = f[Cut(f)[k - 1] + j]
      BY <2>2, MirrorLine
    <3> QED BY <2>2, <3>1
  <2>4. f[Cut(f)[k]] = NL
    BY CutsByRank DEF Newlines
  <2> QED BY <1>1, <2>3, <2>4 DEF Newlines
<1>3. ASSUME NEW q \in Newlines(R) PROVE \E k \in 1 .. c : q = L - Cut(f)[k - 1]
  <2>1. q \in 1 .. L /\ R[q] = NL
    BY <1>1 DEF Newlines
  <2>2. PICK k \in 1 .. c : Cut(f)[k - 1] <= L - q /\ L - q < Cut(f)[k]
    <3>1. L - q \in 0 .. L - 1
      BY <1>0, <2>1
    <3> QED BY <3>1, LineAt
  <2> DEFINE j == q - (L - Cut(f)[k])
             p == Cut(f)[k - 1] + j
  <2>3. Cut(f)[k] \in 0 .. L /\ Cut(f)[k - 1] \in 0 .. L /\ k \in 0 .. c /\ k - 1 \in 0 .. c
    BY <1>0
  <2>4. /\ j \in 1 .. Cut(f)[k] - Cut(f)[k - 1] /\ L - Cut(f)[k] + j = q
        /\ p \in 1 .. L /\ p <= Cut(f)[k] /\ Cut(f)[k - 1] <= p - 1 /\ p - 1 \in Nat
        /\ Cut(f)[k - 1] < p /\ (p = Cut(f)[k] => q = L - Cut(f)[k - 1])
    <3>1. PICK u \in 0 .. L, v \in 0 .. L : /\ u = Cut(f)[k - 1] /\ v = Cut(f)[k]
                                           /\ u <= L - q /\ L - q < v
      BY <2>2, <2>3
    <3>2. j = q - (L - v) /\ p = u + (q - (L - v))
      BY <3>1
    <3>3. L \in Nat /\ q \in Nat /\ q >= 1 /\ q <= L /\ u \in Nat /\ v \in Nat /\ v <= L
          /\ u <= L - q /\ L - q < v
      BY <1>0, <2>1, <3>1
    <3> HIDE DEF L, c, R, N, j, p
    <3>4. j \in Int /\ j = q - L + v /\ p = u + j
      BY <3>2, <3>3
    <3>5. j >= 1 /\ j <= v - u
      BY <3>3, <3>4
    <3>6. L - v + j = q /\ p >= 1 /\ p <= v /\ u <= p - 1 /\ (p = v => q = L - u)
      BY <3>3, <3>4, <3>5
    <3>7. p \in 1 .. L /\ p - 1 \in Nat /\ u < p /\ j \in 1 .. v - u
      BY <3>3, <3>4, <3>5, <3>6
    <3> QED BY <3>1, <3>6, <3>7
  <2>5. R[q] = f[p]
    <3> HIDE DEF j
    <3> QED BY <2>4, MirrorLine
  <2>6. p \in N
    <3> HIDE DEF p
    <3> QED BY <1>0, <2>1, <2>4, <2>5 DEF Newlines
  <2>7. p = Cut(f)[k]
    <3> SUFFICES ASSUME p # Cut(f)[k] PROVE FALSE
      OBVIOUS
    <3>1. p < Cut(f)[k]
      BY <2>3, <2>4
    <3>2. Rank(Ends(f), p) = k - 1
      <4> HIDE DEF p
      <4>1. p \in Nat /\ Cut(f)[k - 1] <= p
        BY <2>3, <2>4
      <4> QED BY <3>1, <4>1, LineOf
    <3>3. Rank(Ends(f), Cut(f)[k - 1]) = k - 1 /\ Cut(f)[k - 1] \in Nat
      BY <1>0, <2>3, CutsByRank
    <3>4. Rank(Ends(f), Cut(f)[k - 1]) < Rank(Ends(f), p)
      <4> HIDE DEF p
      <4> QED BY <2>4, <2>6, <3>3, RankGrows, EndsFinite
    <3>5. k - 1 \in Nat
      BY <1>0
    <3> QED BY <3>2, <3>3, <3>4, <3>5
  <2>8. q = L - Cut(f)[k - 1]
    BY <2>4, <2>7
  <2> QED BY <2>8
<1> QED BY <1>2, <1>3

\* The lines of the mirrored file are those of f in the opposite order.
LEMMA MirrorCuts ==
  ASSUME NEW A, NEW f \in Seq(A), f # <<>>, Ends(f) = Newlines(f)
  PROVE  LET c == Cardinality(Ends(f))
         IN  /\ Ends(Mirror(f)) = Newlines(Mirror(f))
             /\ Cardinality(Ends(Mirror(f))) = c
             /\ \A k \in 0 .. c : Cut(Mirror(f))[k] = Len(f) - Cut(f)[c - k]
<1> DEFINE L == Len(f)
           c == Cardinality(Ends(f))
           R == Mirror(f)
           d == [i \in 1 .. c |-> L - Cut(f)[c - i]]
<1>0. /\ L \in Nat /\ c \in Nat /\ L # 0 /\ Cut(f)[0] = 0 /\ Cut(f)[c] = L
      /\ \A i \in 0 .. c : Cut(f)[i] \in 0 .. L
  BY NewlinesFinite, EmptySeq, EndsFinite, CutsInOrder
<1>1. c \in 1 .. c /\ c # 0
  BY <1>0
<1>2. d \in [1 .. c -> Nat]
  <2> SUFFICES ASSUME NEW i \in 1 .. c PROVE L - Cut(f)[c - i] \in Nat
    OBVIOUS
  <2>1. c - i \in 0 .. c
    BY <1>0
  <2>2. Cut(f)[c - i] \in 0 .. L
    BY <1>0, <2>1
  <2> HIDE DEF L
  <2> QED BY <1>0, <2>2
<1>3. \A i, j \in 1 .. c : i < j => d[i] < d[j]
  <2> SUFFICES ASSUME NEW i \in 1 .. c, NEW j \in 1 .. c, i < j PROVE d[i] < d[j]
    OBVIOUS
  <2>1. c - i \in 0 .. c /\ c - j \in 0 .. c /\ c - j < c - i
    BY <1>0
  <2>2. Cut(f)[c - j] < Cut(f)[c - i]
    BY <2>1, CutsGrow
  <2>3. PICK x \in 0 .. L, y \in 0 .. L : x = Cut(f)[c - j] /\ y = Cut(f)[c - i] /\ x < y
    BY <1>0, <2>1, <2>2
  <2>4. L - y < L - x
    BY <1>0, <2>3
  <2> QED BY <2>3, <2>4
<1>4. Newlines(R) = {d[i] : i \in 1 .. c}
  <2>1. Newlines(R) = {L - Cut(f)[k - 1] : k \in 1 .. c}
    BY MirrorNewlines
  <2>2. \A k \in 1 .. c : c - (k - 1) \in 1 .. c /\ c - (c - (k - 1)) = k - 1
                          /\ c - k = (c - k + 1) - 1 /\ c - k + 1 \in 1 .. c
    BY <1>0
  <2>3. \A k \in 1 .. c : \E i \in 1 .. c : L - Cut(f)[k - 1] = d[i]
    <3> SUFFICES ASSUME NEW k \in 1 .. c PROVE \E i \in 1 .. c : L - Cut(f)[k - 1] = d[i]
      OBVIOUS
    <3>1. d[c - (k - 1)] = L - Cut(f)[k - 1]
      BY <2>2
    <3> QED BY <2>2, <3>1
  <2>4. \A i \in 1 .. c : \E k \in 1 .. c : d[i] = L - Cut(f)[k - 1]
    <3> SUFFICES ASSUME NEW i \in 1 .. c PROVE \E k \in 1 .. c : d[i] = L - Cut(f)[k - 1]
      OBVIOUS
    <3>1. d[i] = L - Cut(f)[(c - i + 1) - 1]
      BY <2>2
    <3> QED BY <2>2, <3>1
  <2> HIDE DEF d, L, c, R
  <2>5. ASSUME NEW q \in Newlines(R) PROVE q \in {d[i] : i \in 1 .. c}
    <3>1. PICK k \in 1 .. c : q = L - Cut(f)[k - 1]
      BY <2>1
    <3>2. PICK i \in 1 .. c : q = d[i]
      BY <2>3, <3>1, Zenon
    <3> QED BY <3>2
  <2>6. ASSUME NEW i \in 1 .. c PROVE d[i] \in Newlines(R)
    <3>1. PICK k \in 1 .. c : d[i] = L - Cut(f)[k - 1]
      BY <2>4, Zenon
    <3> QED BY <2>1, <3>1, Zenon
  <2> QED BY <2>5, <2>6, Zenon
<1>5. /\ Cardinality(Newlines(R)) = c
      /\ \A i \in 1 .. c : Ascending(Newlines(R))[i] = d[i]
  <2> HIDE DEF d, c
  <2>1. ListedBy(Newlines(R), c, d)
    BY <1>0, <1>2, <1>3, <1>4 DEF ListedBy
  <2> QED BY <2>1, AscendingIs
<1>6. Ends(R) = Newlines(R)
  <2>1. d[c] = L
    <3>1. c - c = 0 /\ L - 0 = L
      BY <1>0
    <3>2. d[c] = L - Cut(f)[c - c]
      BY <1>1
    <3> HIDE DEF d, c, L
    <3> QED BY <1>0, <3>1, <3>2
  <2>2. L \in Newlines(R)
    <3> HIDE DEF d, c, L, R
    <3> QED BY <1>1, <1>4, <2>1
  <2>3. Len(R) = L
    BY MirrorType
  <2> QED BY <2>2, <2>3 DEF Ends
<1>7. ASSUME NEW k \in 0 .. c PROVE Cut(R)[k] = L - Cut(f)[c - k]
  <2>1. CASE k = 0
    <3>1. Cut(R)[0] = 0
      BY MirrorType, CutsInOrder
    <3>2. c - 0 = c /\ L - L = 0
      BY <1>0
    <3> QED BY <1>0, <2>1, <3>1, <3>2
  <2>2. CASE k # 0
    <3>1. k \in 1 .. c
      BY <1>0, <2>2
    <3>2. Cut(R)[k] = Ascending(Ends(R))[k]
      BY <1>5, <1>6, <3>1, MirrorType, CutsInOrder
    <3>3. d[k] = L - Cut(f)[c - k]
      BY <3>1
    <3> QED BY <1>5, <1>6, <3>1, <3>2, <3>3
  <2> QED BY <2>1, <2>2
<1> QED BY <1>5, <1>6, <1>7

\* The lines of the mirrored file, as lists.
LEMMA MirrorLines ==
  ASSUME NEW A, NEW f \in Seq(A), f # <<>>, Ends(f) = Newlines(f)
  PROVE  SplitLines(Mirror(f)) = Reverse(SplitLines(f))
<1> DEFINE L == Len(f)
           c == Cardinality(Ends(f))
           R == Mirror(f)
           s == SplitLines(f)
           t == SplitLines(R)
<1>0. /\ L \in Nat /\ c \in Nat /\ \A i \in 0 .. c : Cut(f)[i] \in 0 .. L
      /\ R \in Seq(A)
  BY NewlinesFinite, EndsFinite, CutsInOrder, MirrorType
<1>1. Cardinality(Ends(R)) = c /\ \A k \in 0 .. c : Cut(R)[k] = L - Cut(f)[c - k]
  BY MirrorCuts
<1>2. /\ t \in Seq(Seq(A)) /\ Len(t) = c
      /\ \A k \in 1 .. c : t[k] = SubSeq(R, Cut(R)[k - 1] + 1, Cut(R)[k])
  BY <1>0, <1>1, LinesAre
<1>3. /\ s \in Seq(Seq(A)) /\ Len(s) = c
      /\ \A k \in 1 .. c : s[k] = SubSeq(f, Cut(f)[k - 1] + 1, Cut(f)[k])
  BY LinesAre
<1>4. ASSUME NEW k \in 1 .. c PROVE t[k] = s[c - k + 1]
  <2> DEFINE i == c - k + 1
             m == Cut(f)[i] - Cut(f)[i - 1]
  <2>1. /\ i \in 1 .. c /\ i \in 0 .. c /\ i - 1 \in 0 .. c /\ k \in 0 .. c /\ k - 1 \in 0 .. c
        /\ c - (k - 1) = i /\ c - k = i - 1
    BY <1>0
  <2>2. Cut(f)[i - 1] < Cut(f)[i] /\ Cut(f)[i - 1] \in 0 .. L /\ Cut(f)[i] \in 0 .. L
    <3> HIDE DEF i
    <3> QED BY <1>0, <2>1, CutsInOrder
  <2>3. t[k] = SubSeq(R, L - Cut(f)[i] + 1, L - Cut(f)[i - 1])
    <3> HIDE DEF i, t, R, L
    <3> QED BY <1>1, <1>2, <2>1
  <2>4. s[i] = SubSeq(f, Cut(f)[i - 1] + 1, Cut(f)[i])
    <3> HIDE DEF i, s
    <3> QED BY <1>3, <2>1
  <2> HIDE DEF i
  <2>5. /\ m \in 0 .. Cut(f)[i] - Cut(f)[i - 1]
        /\ L - Cut(f)[i] + m = L - Cut(f)[i - 1] /\ Cut(f)[i - 1] + m = Cut(f)[i]
    BY <1>0, <2>2
  <2> HIDE DEF m
  <2>6. SubSeq(R, L - Cut(f)[i] + 1, L - Cut(f)[i] + m) =
          SubSeq(f, Cut(f)[i - 1] + 1, Cut(f)[i - 1] + m)
    <3>1. i \in 1 .. Cardinality(Ends(f)) /\ m \in 0 .. Cut(f)[i] - Cut(f)[i - 1]
      BY <2>1, <2>5
    <3> QED BY <3>1, MirrorPart, Zenon
  <2>7. t[k] = s[i]
    BY <2>3, <2>4, <2>5, <2>6
  <2> QED BY <2>7 DEF i
<1>5. DOMAIN t = 1 .. c /\ t = [k \in 1 .. c |-> t[k]]
  <2> HIDE DEF t
  <2> QED BY <1>2, LenProperties
<1>6. Reverse(s) = [k \in 1 .. c |-> s[(c - k) + 1]]
  <2> HIDE DEF s
  <2> QED BY <1>3 DEF Reverse
<1> HIDE DEF s, t
<1>7. \A k \in 1 .. c : t[k] = s[(c - k) + 1]
  BY <1>4
<1>8. t = Reverse(s)
  BY <1>5, <1>6, <1>7
<1> QED BY <1>8 DEF s, t

\* What ReverseLinesOn cuts a file without its last newline into.
LEMMA ReversePieces ==
  ASSUME NEW A, NEW f \in Seq(A), f # <<>>, Ends(f) = Newlines(f)
  PROVE  LET c == Cardinality(Ends(f))
             g == Front(f)
             cuts == Ascending(Newlines(g) \cup {0, Len(g) + 1})
         IN  Len(cuts) = c + 1 /\ \A k \in 1 .. c + 1 : cuts[k] = Cut(f)[k - 1]
<1> DEFINE L == Len(f)
           c == Cardinality(Ends(f))
           g == Front(f)
           Z == Newlines(g) \cup {0, Len(g) + 1}
           d == [k \in 1 .. c + 1 |-> Cut(f)[k - 1]]
<1>0. /\ L \in Nat /\ c \in Nat /\ L # 0 /\ Cut(f)[0] = 0 /\ Cut(f)[c] = L
      /\ \A i \in 0 .. c : Cut(f)[i] \in Nat
      /\ DOMAIN f = 1 .. L /\ Newlines(f) \in SUBSET (1 .. L)
      /\ \A k \in 1 .. c + 1 : k - 1 \in 0 .. c
  BY NewlinesFinite, EmptySeq, EndsFinite, CutsInOrder
<1>1. Len(g) = L - 1 /\ DOMAIN g = 1 .. L - 1 /\ \A i \in 1 .. L - 1 : g[i] = f[i]
  <2>1. \A i \in 1 .. L - 1 : f[i] \in A
    BY <1>0, ElementOfSeq
  <2>2. /\ 1 \in Int /\ L - 1 \in Int /\ (L - 1) - 1 + 1 = L - 1
        /\ (IF 1 <= L - 1 THEN (L - 1) - 1 + 1 ELSE 0) = L - 1
        /\ \A i \in 1 .. L - 1 : 1 + i - 1 = i
    BY <1>0
  <2>3. /\ SubSeq(f, 1, L - 1) \in Seq(A)
        /\ Len(SubSeq(f, 1, L - 1)) = (IF 1 <= L - 1 THEN (L - 1) - 1 + 1 ELSE 0)
        /\ \A i \in 1 .. (L - 1) - 1 + 1 : SubSeq(f, 1, L - 1)[i] = f[1 + i - 1]
    BY <2>1, <2>2, SubSeqProperties
  <2>4. g = SubSeq(f, 1, L - 1)
    BY DEF Front
  <2>5. L - 1 \in Nat
    BY <1>0
  <2> HIDE DEF g, L
  <2>6. g \in Seq(A) /\ Len(g) = L - 1
    BY <2>2, <2>3, <2>4
  <2>7. DOMAIN g = 1 .. L - 1
    BY <2>6, LenProperties
  <2>8. ASSUME NEW i \in 1 .. L - 1 PROVE g[i] = f[i]
    <3>1. i \in 1 .. (L - 1) - 1 + 1 /\ 1 + i - 1 = i
      BY <2>2
    <3> QED BY <2>3, <2>4, <3>1
  <2> QED BY <2>6, <2>7, <2>8
<1>2. Newlines(g) = Newlines(f) \ {L}
  <2> HIDE DEF g, L
  <2>0. L \in Nat
    BY <1>0
  <2>1. \A i \in 1 .. L : i \in 1 .. L - 1 <=> i # L
    BY <2>0
  <2>2. \A i \in 1 .. L - 1 : i \in 1 .. L
    BY <2>0
  <2> QED BY <1>0, <1>1, <2>1, <2>2 DEF Newlines
<1>3. L \in Newlines(f)
  <2>1. L \in DOMAIN f
    BY <1>0
  <2> QED BY <2>1 DEF Ends
<1>4. Z = {0} \cup Ends(f)
  <2>1. (L - 1) + 1 = L
    BY <1>0
  <2> HIDE DEF g, L
  <2> QED BY <1>1, <1>2, <1>3, <2>1
<1>5. Ends(f) = {Cut(f)[i] : i \in 1 .. c}
  <2>1. Ends(f) \in SUBSET Nat /\ IsFiniteSet(Ends(f))
    BY EndsFinite
  <2>2. \A x \in Ends(f) : Rank(Ends(f), x) \in 1 .. c /\ Ascending(Ends(f))[Rank(Ends(f), x)] = x
    BY <2>1, AscendingAt
  <2>3. \A i \in 1 .. c : Cut(f)[i] = Ascending(Ends(f))[i] /\ Cut(f)[i] \in Ends(f)
    BY CutsInOrder, CutsByRank
  <2>4. \A x \in Ends(f) : \E i \in 1 .. c : x = Cut(f)[i]
    BY <2>2, <2>3
  <2> HIDE DEF c
  <2> QED BY <2>3, <2>4
<1>6. d \in [1 .. c + 1 -> Nat]
  BY <1>0
<1>7. \A i, j \in 1 .. c + 1 : i < j => d[i] < d[j]
  <2> SUFFICES ASSUME NEW i \in 1 .. c + 1, NEW j \in 1 .. c + 1, i < j PROVE d[i] < d[j]
    OBVIOUS
  <2>1. i - 1 \in 0 .. c /\ j - 1 \in 0 .. c /\ i - 1 < j - 1
    BY <1>0
  <2>2. Cut(f)[i - 1] < Cut(f)[j - 1]
    BY <2>1, CutsGrow
  <2> QED BY <2>2
<1>8. Z = {d[i] : i \in 1 .. c + 1}
  <2>1. d[1] = 0 /\ 1 \in 1 .. c + 1
    BY <1>0
  <2>2. \A i \in 1 .. c : i + 1 \in 1 .. c + 1 /\ d[i + 1] = Cut(f)[i]
    <3>1. \A i \in 1 .. c : i + 1 \in 1 .. c + 1 /\ (i + 1) - 1 = i
      BY <1>0
    <3> QED BY <3>1
  <2>3. \A i \in 1 .. c + 1 : i = 1 \/ (i - 1 \in 1 .. c /\ d[i] = Cut(f)[i - 1])
    BY <1>0
  <2> HIDE DEF d, c, Z
  <2> QED BY <1>4, <1>5, <2>1, <2>2, <2>3
<1>9. c + 1 \in Nat
  BY <1>0
<1> HIDE DEF Z
<1>10. /\ Z \in SUBSET Nat /\ IsFiniteSet(Z) /\ Cardinality(Z) = c + 1
       /\ \A i \in 1 .. c + 1 : Ascending(Z)[i] = d[i]
  <2> HIDE DEF d, c
  <2>1. ListedBy(Z, c + 1, d)
    BY <1>6, <1>7, <1>8, <1>9 DEF ListedBy
  <2> QED BY <2>1, AscendingIs
<1>11. Len(Ascending(Z)) = c + 1
  BY <1>10, AscendingOrder
<1> QED BY <1>10, <1>11 DEF Z

\* ReverseLines puts the mirrored file together, line by line.
LEMMA ReverseIsMirror ==
  ASSUME NEW A, NEW f \in Seq(A), f # <<>>, Last(f) = NL
  PROVE  Ends(f) = Newlines(f) /\ ReverseLines(f) = Mirror(f)
<1> DEFINE L == Len(f)
           c == Cardinality(Ends(f))
           R == Mirror(f)
           g == Front(f)
           cuts == Ascending(Newlines(g) \cup {0, Len(g) + 1})
           pieces == [k \in 1 .. Len(cuts) - 1 |-> SubSeq(g, cuts[k] + 1, cuts[k + 1] - 1)]
           joined == [k \in DOMAIN pieces |->
                        (IF k > 1 THEN <<NL>> ELSE <<>>) \o Reverse(pieces)[k]]
           e == [i \in 0 .. c |-> IF i = 0 THEN 0 ELSE L - Cut(f)[c - i] - 1]
<1>0. /\ L \in Nat /\ c \in Nat /\ L # 0 /\ Cut(f)[0] = 0 /\ Cut(f)[c] = L
      /\ \A i \in 0 .. c : Cut(f)[i] \in 0 .. L
      /\ \A i \in 1 .. c : Cut(f)[i - 1] < Cut(f)[i]
  BY NewlinesFinite, EmptySeq, EndsFinite, CutsInOrder
<1>1. f[L] = NL /\ NL \in A
  BY <1>0, ElementOfSeq DEF Last
<1>2. Ends(f) = Newlines(f)
  BY <1>0, <1>1, NewlinesFinite DEF Ends, Newlines
<1>3. Len(cuts) = c + 1 /\ \A k \in 1 .. c + 1 : cuts[k] = Cut(f)[k - 1]
  BY <1>2, ReversePieces
<1>4. R \in Seq(A) /\ Len(R) = L /\ DOMAIN R = 1 .. L
  BY MirrorType
<1>5. \A k \in 1 .. c : L - Cut(f)[k - 1] \in 1 .. L /\ R[L - Cut(f)[k - 1]] = NL
  <2>1. Newlines(R) = {L - Cut(f)[k - 1] : k \in 1 .. c}
    BY <1>2, MirrorNewlines
  <2>2. \A k \in 1 .. c : L - Cut(f)[k - 1] \in Newlines(R)
    BY <2>1
  <2> HIDE DEF R, L, c
  <2> QED BY <1>4, <2>2 DEF Newlines
<1>6. DOMAIN pieces = 1 .. c
  <2>1. (c + 1) - 1 = c
    BY <1>0
  <2> HIDE DEF cuts, g, c
  <2> QED BY <1>3, <2>1
<1>7. \A k \in 1 .. c : pieces[k] = SubSeq(R, L - Cut(f)[k] + 1, L - Cut(f)[k - 1] - 1)
  <2> SUFFICES ASSUME NEW k \in 1 .. c
               PROVE  pieces[k] = SubSeq(R, L - Cut(f)[k] + 1, L - Cut(f)[k - 1] - 1)
    OBVIOUS
  <2>1. k \in 1 .. c + 1 /\ k + 1 \in 1 .. c + 1 /\ (k + 1) - 1 = k
        /\ k \in 0 .. c /\ k - 1 \in 0 .. c
    BY <1>0
  <2>2. cuts[k] = Cut(f)[k - 1] /\ cuts[k + 1] = Cut(f)[k]
    <3> HIDE DEF cuts, c
    <3> QED BY <1>3, <2>1
  <2>3. PICK u \in 0 .. L, v \in 0 .. L : u = Cut(f)[k - 1] /\ v = Cut(f)[k] /\ u < v
    BY <1>0, <2>1
  <2>4. pieces[k] = SubSeq(g, u + 1, v - 1)
    <3>1. pieces[k] = SubSeq(g, cuts[k] + 1, cuts[k + 1] - 1)
      BY <1>6
    <3> HIDE DEF pieces, cuts, g
    <3> QED BY <2>2, <2>3, <3>1
  <2>5. SubSeq(g, u + 1, v - 1) = SubSeq(f, u + 1, v - 1)
    <3>1. g = SubSeq(f, 1, L - 1)
      BY DEF Front
    <3>2. CASE u + 1 <= v - 1
      <4>1. /\ 1 \in 1 .. L /\ L - 1 \in 1 .. L
            /\ u + 1 \in 1 .. (L - 1) - 1 + 1 /\ v - 1 \in 1 .. (L - 1) - 1 + 1
            /\ 1 + (u + 1) - 1 = u + 1 /\ 1 + (v - 1) - 1 = v - 1
        BY <1>0, <3>2
      <4> HIDE DEF g, L
      <4>2. SubSeq(SubSeq(f, 1, L - 1), u + 1, v - 1) =
              SubSeq(f, 1 + (u + 1) - 1, 1 + (v - 1) - 1)
        BY <4>1, SubSeqOfSubSeq DEF L
      <4> QED BY <3>1, <4>1, <4>2
    <3>3. CASE ~ (u + 1 <= v - 1)
      <4>1. u + 1 \in Int /\ v - 1 \in Int /\ v - 1 < u + 1
        BY <1>0, <3>3
      <4>2. SubSeq(g, u + 1, v - 1) = <<>> /\ SubSeq(f, u + 1, v - 1) = <<>>
        <5> HIDE DEF g
        <5> QED BY <4>1, SubSeqEmpty
      <4> QED BY <4>2
    <3> QED BY <3>2, <3>3
  <2> DEFINE m == v - u - 1
  <2>6. m \in 0 .. v - u /\ L - v + m = L - u - 1 /\ u + m = v - 1
    <3>1. L \in Nat /\ u \in Nat /\ v \in Nat /\ u < v
      BY <1>0, <2>3
    <3> HIDE DEF L
    <3> QED BY <3>1
  <2>7. SubSeq(R, L - v + 1, L - v + m) = SubSeq(f, u + 1, u + m)
    <3> HIDE DEF m
    <3> QED BY <2>3, <2>6, MirrorPart
  <2> HIDE DEF m, pieces, R, g, L
  <2>8. SubSeq(R, L - v + 1, L - u - 1) = SubSeq(f, u + 1, v - 1)
    BY <2>6, <2>7
  <2>9. pieces[k] = SubSeq(R, L - v + 1, L - u - 1)
    BY <2>4, <2>5, <2>8
  <2> QED BY <2>3, <2>9
<1>8. DOMAIN joined = 1 .. c
  BY <1>6
<1>9. Len(pieces) = c /\ Len(joined) = c
  <2> HIDE DEF pieces, joined, c
  <2> QED BY <1>0, <1>6, <1>8
<1>10. \A i \in 1 .. c : joined[i] = (IF i > 1 THEN <<NL>> ELSE <<>>) \o pieces[c - i + 1]
  <2> SUFFICES ASSUME NEW i \in 1 .. c
               PROVE  joined[i] = (IF i > 1 THEN <<NL>> ELSE <<>>) \o pieces[c - i + 1]
    OBVIOUS
  <2>1. Reverse(pieces)[i] = pieces[c - i + 1]
    <3> HIDE DEF pieces
    <3> QED BY <1>9 DEF Reverse
  <2>2. joined[i] = (IF i > 1 THEN <<NL>> ELSE <<>>) \o Reverse(pieces)[i]
    BY <1>6
  <2> HIDE DEF pieces, joined
  <2> QED BY <2>1, <2>2
<1> HIDE DEF pieces, joined
<1>11. ASSUME NEW i \in 1 .. c
       PROVE  e[i - 1] <= e[i] /\ joined[i] = SubSeq(R, e[i - 1] + 1, e[i])
  <2> DEFINE k == c - i + 1
  <2>1. /\ k \in 1 .. c /\ k \in 0 .. c /\ k - 1 \in 0 .. c /\ c - i = k - 1 /\ c - (i - 1) = k
        /\ i \in 0 .. c /\ i - 1 \in 0 .. c /\ i # 0
        /\ (i = 1 => k = c) /\ (i # 1 => i > 1 /\ i - 1 # 0 /\ k + 1 \in 1 .. c /\ (k + 1) - 1 = k)
    BY <1>0
  <2> HIDE DEF k
  <2>2. PICK u \in 0 .. L, v \in 0 .. L : u = Cut(f)[k - 1] /\ v = Cut(f)[k] /\ u < v
    BY <1>0, <2>1
  <2>3. e[i] = L - u - 1
    BY <2>1, <2>2
  <2>4. joined[i] = (IF i > 1 THEN <<NL>> ELSE <<>>) \o SubSeq(R, L - v + 1, L - u - 1)
    <3> HIDE DEF R, L
    <3> QED BY <1>7, <1>10, <2>1, <2>2 DEF k
  <2>5. SubSeq(R, L - v + 1, L - u - 1) \in Seq(A)
    <3>1. L - v + 1 \in Int /\ L - u - 1 \in Int /\ \A j \in L - v + 1 .. L - u - 1 : j \in 1 .. L
      BY <1>0
    <3>2. \A j \in L - v + 1 .. L - u - 1 : R[j] \in A
      <4> HIDE DEF R, L
      <4> QED BY <1>4, <3>1, ElementOfSeq
    <3> HIDE DEF R, L
    <3> QED BY <3>1, <3>2, SubSeqProperties
  <2>6. CASE i = 1
    <3>1. v = L /\ e[i - 1] = 0 /\ L - v + 1 = 1 /\ 0 + 1 = 1
      BY <1>0, <2>1, <2>2, <2>6
    <3>2. 0 <= L - u - 1
      BY <1>0, <2>2, <3>1
    <3>3. joined[i] = SubSeq(R, L - v + 1, L - u - 1)
      <4> HIDE DEF R, L
      <4> QED BY <2>4, <2>5, <2>6, ConcatEmptySeq
    <3> HIDE DEF R, e, L
    <3> QED BY <2>3, <3>1, <3>2, <3>3
  <2>7. CASE i # 1
    <3>1. e[i - 1] = L - v - 1 /\ e[i - 1] + 1 = L - v /\ L - v - 1 <= L - u - 1
      <4>1. e[i - 1] = L - v - 1
        BY <2>1, <2>2, <2>7
      <4> HIDE DEF e, L
      <4>2. L \in Nat
        BY <1>0
      <4> QED BY <2>2, <4>1, <4>2
    <3>2. R[L - v] = NL /\ L - v \in 1 .. L /\ L - u - 1 \in L - v .. L
      <4>1. R[L - v] = NL /\ L - v \in 1 .. L
        <5> HIDE DEF R, L
        <5> QED BY <1>5, <2>1, <2>2, <2>7
      <4> HIDE DEF R, L, e, joined
      <4>2. L \in Nat /\ u \in Nat /\ v \in Nat /\ u < v /\ v <= L
        BY <1>0, <2>2
      <4> QED BY <4>1, <4>2
    <3> HIDE DEF R, e, L
    <3>3. SubSeq(R, L - v, L - u - 1) = <<R[L - v]>> \o SubSeq(R, L - v + 1, L - u - 1)
      BY <1>4, <3>2, SubSeqRecursiveFirst
    <3> QED BY <2>1, <2>3, <2>4, <2>7, <3>1, <3>2, <3>3
  <2> QED BY <2>6, <2>7
<1>12. c # 0 /\ e[c] = L - 1 /\ e[0] = 0
  <2>1. c # 0 /\ c - c = 0 /\ c \in 0 .. c /\ 0 \in 0 .. c /\ L - 0 - 1 = L - 1
    BY <1>0
  <2> HIDE DEF c, L
  <2> QED BY <1>0, <2>1
<1>13. e \in [0 .. c -> 0 .. L]
  <2> SUFFICES ASSUME NEW i \in 0 .. c, i # 0 PROVE L - Cut(f)[c - i] - 1 \in 0 .. L
    BY <1>0
  <2>1. c - i \in 0 .. c /\ c \in 0 .. c /\ c - i < c
    BY <1>0
  <2>2. Cut(f)[c - i] < Cut(f)[c]
    BY <2>1, CutsGrow
  <2>3. PICK x \in 0 .. L : x = Cut(f)[c - i] /\ x < L
    BY <1>0, <2>1, <2>2
  <2> QED BY <1>0, <2>3
<1>14. ArePieces(R, c, e, joined)
  <2> HIDE DEF R, e, c, L
  <2> QED BY <1>0, <1>4, <1>9, <1>11, <1>12, <1>13 DEF ArePieces
<1>15. FlattenSeq(joined) = SubSeq(R, 1, L - 1)
  <2>1. FlattenSeq(joined) = SubSeq(R, e[0] + 1, e[c])
    <3> HIDE DEF R, e, c
    <3> QED BY <1>4, <1>14, PiecesFlatten
  <2>2. 0 + 1 = 1
    OBVIOUS
  <2> HIDE DEF R, e, c, L
  <2> QED BY <1>12, <2>1, <2>2
<1>16. Append(SubSeq(R, 1, L - 1), NL) = R
  <2>1. 1 \in 1 .. L /\ L \in 1 .. L /\ L - 0 = L /\ 1 \in 1 .. c /\ 1 - 1 = 0
    BY <1>0, <1>12
  <2>2. R[L] = NL
    <3> HIDE DEF R, L, c
    <3> QED BY <1>0, <1>5, <2>1
  <2>3. SubSeq(R, 1, L) = SubSeq(R, 1, L - 1) \o <<R[L]>>
    <3> HIDE DEF R, L
    <3> QED BY <1>4, <2>1, SubSeqRecursiveSecond
  <2>4. SubSeq(R, 1, L) = R
    <3> HIDE DEF R, L
    <3> QED BY <1>4, SubSeqFull
  <2>5. SubSeq(R, 1, L - 1) \in Seq(A)
    <3>1. \A j \in 1 .. L - 1 : j \in 1 .. L
      BY <1>0
    <3>2. \A j \in 1 .. L - 1 : R[j] \in A
      <4> HIDE DEF R, L
      <4> QED BY <1>4, <3>1, ElementOfSeq
    <3>3. 1 \in Int /\ L - 1 \in Int
      BY <1>0
    <3> HIDE DEF R, L
    <3> QED BY <3>2, <3>3, SubSeqProperties
  <2> HIDE DEF R, L
  <2> QED BY <1>1, <2>2, <2>3, <2>4, <2>5, AppendIsConcat
<1>17. ReverseLinesOn(g) = FlattenSeq(joined)
  BY DEF ReverseLinesOn, joined, pieces
<1>18. ReverseLines(f) = Append(ReverseLinesOn(g), NL)
  BY DEF ReverseLines
<1> HIDE DEF R, g, L
<1> QED BY <1>2, <1>15, <1>16, <1>17, <1>18 DEF R

\* A log that ends in a newline, reversed, has its lines in the opposite order.
LEMMA ReverseLists ==
  ASSUME NEW A, NEW f \in Seq(A), f # <<>>, Last(f) = NL
  PROVE  SplitLines(ReverseLines(f)) = Reverse(SplitLines(f))
  BY ReverseIsMirror, MirrorLines

------------------------------------------------------------------------------
(* The theorems. *)

BytesOnly == log \in Seq(Alphabet)

\* The log never holds anything but letters.
LEMMA LogIsBytes == Spec => []BytesOnly
<1>1. Init => BytesOnly
  BY EmptySeq DEF Init, BytesOnly
<1>2. BytesOnly /\ [Next]_log => BytesOnly'
  <2> SUFFICES ASSUME BytesOnly, Next PROVE BytesOnly'
    BY DEF BytesOnly
  <2>1. PICK b \in Alphabet : WriteRaw(b)
    BY DEF Next
  <2> QED BY <2>1, AppendProperties DEF WriteRaw, BytesOnly
<1> QED BY <1>1, <1>2, PTL DEF Spec

\* Every bounded read and the reversal give the lines they are asked for, of
\* whatever file and with whatever chunks (tail.rs:205-404, 874-898).
THEOREM ReadsInvariance == Spec => []ReadsMatchLines
<1> USE BoundsAssumption DEF BytesOnly
<1>1. BytesOnly => LastLinesAreLast
  BY LinesPrintLines DEF LastLinesAreLast, Counts
<1>2. BytesOnly => LastBytesFromFirstLine
  BY BytesFindALine DEF LastBytesFromFirstLine, Counts
<1>3. BytesOnly => HeadIsFirst
  <2>1. \A n \in Counts \ {0} : n \in Nat \ {0}
    BY DEF Counts
  <2> QED BY <2>1, HeadPrintsLines DEF HeadIsFirst
<1>4. BytesOnly => ReverseKeepsLines
  BY ReverseLists DEF ReverseKeepsLines
<1>5. BytesOnly => ReadsMatchLines
  BY <1>1, <1>2, <1>3, <1>4 DEF ReadsMatchLines
<1> QED BY <1>5, LogIsBytes, PTL

\* An envelope counts what the call prints.
LEMMA EnvelopesHold == BytesOnly => EnvelopeHoldsWhatIsPrinted
<1> SUFFICES ASSUME BytesOnly, NEW o \in CallsOn(log), o.head # 0
             PROVE  Envelope(log, o).content = Plain(log, o)
  BY DEF EnvelopeHoldsWhatIsPrinted
<1>1. Valid(o) /\ o.reverse \in BOOLEAN /\ o.strip \in BOOLEAN
  BY DEF CallsOn, Calls
<1>2. /\ o.cursor # None => o.head = None /\ o.reverse = FALSE
      /\ o.head # None => o.lines = None /\ o.bytes = None /\ o.reverse = FALSE
  BY <1>1 DEF Valid
<1>3. Envelope(log, o).content =
        LET clean == Cleaned(SubSeq(log, ReadStart(log, o) + 1, ReadEnd(log, o)), o)
        IN  IF o.reverse THEN ReverseLines(clean) ELSE clean
  BY DEF Envelope, EnvelopeOf
<1>4. CASE o.cursor # None
  BY <1>2, <1>3, <1>4 DEF Plain, ReadStart, ReadEnd, From
<1>5. CASE o.cursor = None /\ o.head # None
  <2>1. SeekStart(log, o) = 0 /\ 0 + 1 = 1
    BY <1>2, <1>5 DEF SeekStart
  <2> QED BY <1>2, <1>3, <1>5, <2>1 DEF Plain, ReadStart, ReadEnd
<1>6. CASE o.cursor = None /\ o.head = None /\ o.reverse
  BY <1>3, <1>6 DEF Plain, ReadStart, ReadEnd, From
<1>7. CASE o.cursor = None /\ o.head = None /\ ~ o.reverse
  BY <1>3, <1>7 DEF Plain, ReadStart, ReadEnd, From
<1> QED BY <1>4, <1>5, <1>6, <1>7

\* A head and the cursor it leaves part the file.
LEMMA HeadMeetsCursor == BytesOnly => HeadThenCursor
<1> SUFFICES ASSUME BytesOnly, NEW h \in CallsOn(log), h.head # None, ~ h.strip
             PROVE  LET first == Envelope(log, h)
                        rest == Envelope(log, [h EXCEPT !.head = None,
                                                        !.cursor = first.cursor])
                    IN  first.content \o rest.content = log
  BY DEF HeadThenCursor
<1> DEFINE H == HeadLoop(log, h.head)
           first == Envelope(log, h)
           o == [h EXCEPT !.head = None, !.cursor = first.cursor]
<1>1. /\ h \in [lines : Optional, bytes : Optional, head : Optional, cursor : Optional,
               reverse : BOOLEAN, strip : BOOLEAN, json : {FALSE}, follow : {FALSE},
               window : {FALSE}]
      /\ Valid(h)
  BY DEF CallsOn, Calls
<1>2. h.head \in Nat
  BY <1>1 DEF Optional
<1>3. h.cursor = None /\ h.lines = None /\ h.bytes = None /\ h.reverse = FALSE /\ h.strip = FALSE
  BY <1>1 DEF Valid
<1>4. H \in 0 .. Len(log) /\ H \in Nat /\ Len(log) \in Nat
  <2> HIDE DEF first, o
  <2>1. Len(log) \in Nat
    BY NewlinesFinite DEF BytesOnly
  <2>2. H \in 0 .. Len(log)
    BY <1>2, HeadWithin DEF BytesOnly
  <2> HIDE DEF H
  <2> QED BY <2>1, <2>2
<1>5. first.content = SubSeq(log, 1, H) /\ first.cursor = H
  <2>1. ReadStart(log, h) = 0 /\ ReadEnd(log, h) = H
    BY <1>3 DEF ReadStart, ReadEnd, SeekStart
  <2>2. first.content = SubSeq(log, 0 + 1, H) /\ first.cursor = 0 + Len(SubSeq(log, 0 + 1, H))
    BY <1>3, <2>1 DEF Envelope, EnvelopeOf, Cleaned
  <2>3. Len(SubSeq(log, 1, H)) = H /\ 0 + 1 = 1 /\ 0 + H = H
    <3> HIDE DEF H
    <3> QED BY <1>4, PartType DEF BytesOnly
  <2> HIDE DEF H, first
  <2> QED BY <2>2, <2>3
<1> HIDE DEF first, H
<1>6. /\ o.head = None /\ o.cursor = H /\ o.lines = None /\ o.bytes = None
      /\ o.reverse = FALSE /\ o.strip = FALSE
  BY <1>1, <1>3, <1>5
<1>7. H # None
  BY <1>4, NoneAssumption
<1> HIDE DEF o
<1>8. Envelope(log, o).content = SubSeq(log, H + 1, Len(log))
  BY <1>6, <1>7 DEF Envelope, EnvelopeOf, Cleaned, ReadStart, ReadEnd
<1>9. SubSeq(log, 1, H) \o SubSeq(log, H + 1, Len(log)) = log
  <2>1. /\ 0 \in 0 .. Len(log) /\ H \in 0 .. Len(log) /\ 0 + 1 = 1
    BY <1>4
  <2>2. SubSeq(log, 0 + 1, H) \o SubSeq(log, H + 1, Len(log)) = SubSeq(log, 0 + 1, Len(log))
    BY <2>1, PartsMeet DEF BytesOnly
  <2> QED BY <2>1, <2>2, SubSeqFull DEF BytesOnly
<1> QED BY <1>5, <1>8, <1>9 DEF first, o

\* Slices that adjoin print what one slice of both prints.
LEMMA SlicesAdjoin == BytesOnly => SlicesMeet
<1> SUFFICES ASSUME BytesOnly, NEW from \in 0 .. Len(log), NEW mid \in 0 .. Len(log), from <= mid
             PROVE  CursorSlice(log, from, mid) \o CursorSlice(log, mid, None) = From(log, from)
  BY DEF SlicesMeet
<1>1. /\ Len(log) \in Nat /\ from \in Nat /\ mid \in Nat /\ from # None /\ mid # None
      /\ mid \in from .. Len(log)
  BY NewlinesFinite, NoneAssumption DEF BytesOnly
<1>2. Min({from, Len(log)}) = from /\ Min({mid, Len(log)}) = mid
  BY <1>1, MinOfTwo
<1>3. /\ CursorSlice(log, from, mid) = SubSeq(log, from + 1, mid)
      /\ CursorSlice(log, mid, None) = SubSeq(log, mid + 1, Len(log))
  BY <1>1, <1>2 DEF CursorSlice
<1> QED BY <1>1, <1>3, PartsMeet DEF From, BytesOnly

\* The JSON forms hold what the plain ones print, and reads that adjoin lose and
\* repeat nothing (tail.rs:820-869, slice.rs:99-150).
THEOREM EnvelopesInvariance == Spec => []EnvelopesMeet
<1>1. BytesOnly => EnvelopesMeet
  BY EnvelopesHold, HeadMeetsCursor, SlicesAdjoin DEF EnvelopesMeet
<1> QED BY <1>1, LogIsBytes, PTL

------------------------------------------------------------------------------
(* The stripper, one byte at a time and over a whole log. *)

\* the states of the stripper
States == {"Normal", "AfterEsc", "Csi", "Osc", "OscEscPending"}

\* the stripper after one more byte
StripOne(s, b) ==
  [state |-> StripNext(s.state, b),
   out   |-> IF s.state = "Normal" /\ b # ESC THEN Append(s.out, b) ELSE s.out]

\* the fold of Feed over the places of f
StripFold(stripper, f, g) ==
  g = [s \in SUBSET DOMAIN f |->
         IF s = {} THEN stripper ELSE StripOne(g[s \ {Max(s)}], f[Max(s)])]

\* StripNext stays among the five states of the stripper.
LEMMA StripNextType ==
  ASSUME NEW state \in States, NEW b PROVE StripNext(state, b) \in States
  BY DEF States, StripNext

\* st[i] is the stripper after i bytes
StripSteps(stripper, f, st) ==
  /\ st[0] = stripper
  /\ \A i \in 1 .. Len(f) : st[i] = StripOne(st[i - 1], f[i])

\* Feeding bytes goes through one state per byte, and Feed is the last.
LEMMA FeedSteps ==
  ASSUME NEW A, NEW f \in Seq(A), NEW stripper \in [state : States, out : Seq(A)]
  PROVE  \E st \in [0 .. Len(f) -> [state : States, out : Seq(A)]] :
           StripSteps(stripper, f, st) /\ Feed(stripper, f) = st[Len(f)]
<1> DEFINE X == [state : States, out : Seq(A)]
           F == [p \in X \X A |-> StripOne(p[1], p[2])]
           D == DOMAIN f
<1>0. Len(f) \in Nat /\ D = 1 .. Len(f) /\ \A i \in 1 .. Len(f) : f[i] \in A
  BY NewlinesFinite, ElementOfSeq
<1>1. \A x \in X, b \in A : StripOne(x, b) \in X
  <2> SUFFICES ASSUME NEW x \in X, NEW b \in A PROVE StripOne(x, b) \in X
    OBVIOUS
  <2>1. StripNext(x.state, b) \in States
    BY StripNextType
  <2>2. x.out \in Seq(A) /\ Append(x.out, b) \in Seq(A)
    BY AppendProperties
  <2> QED BY <2>1, <2>2 DEF StripOne
<1>2. F \in [X \X A -> X]
  <2> SUFFICES ASSUME NEW p \in X \X A PROVE StripOne(p[1], p[2]) \in X
    OBVIOUS
  <2>1. p[1] \in X /\ p[2] \in A
    OBVIOUS
  <2> HIDE DEF X
  <2> QED BY <1>1, <2>1
<1>3. PICK g \in [SUBSET D -> X] : IsFold(f, stripper, F, g)
  <2> HIDE DEF X, F
  <2>1. stripper \in X
    BY DEF X
  <2> QED BY <1>2, <2>1, FoldsEnd
<1>4. StripFold(stripper, f, g)
  <2>1. ASSUME NEW s \in SUBSET D, s # {}
        PROVE  F[<<g[s \ {Max(s)}], f[Max(s)]>>] = StripOne(g[s \ {Max(s)}], f[Max(s)])
    <3>1. Max(s) \in s /\ f[Max(s)] \in A
      BY <1>0, <2>1, GreatestOf
    <3>2. g[s \ {Max(s)}] \in X
      <4> HIDE DEF X
      <4>1. s \ {Max(s)} \in SUBSET D
        OBVIOUS
      <4> QED BY <4>1
    <3>3. <<g[s \ {Max(s)}], f[Max(s)]>> \in X \X A
      <4> HIDE DEF X
      <4> QED BY <3>1, <3>2
    <3> HIDE DEF X
    <3> QED BY <3>3
  <2>2. g = [s \in SUBSET D |->
               IF s = {} THEN stripper ELSE F[<<g[s \ {Max(s)}], f[Max(s)]>>]]
    <3> HIDE DEF F, X
    <3> QED BY <1>3 DEF IsFold
  <2> HIDE DEF F, X
  <2>3. g = [s \in SUBSET D |->
               IF s = {} THEN stripper ELSE StripOne(g[s \ {Max(s)}], f[Max(s)])]
    BY <2>1, <2>2
  <2> QED BY <2>3 DEF StripFold
<1> DEFINE h == CHOOSE q : StripFold(stripper, f, q)
<1>5. StripFold(stripper, f, h)
  BY <1>4
<1>6. Feed(stripper, f) = h[D]
  BY DEF Feed, FoldLeft, MapThenFoldSet, StripFold, StripOne
<1> HIDE DEF h
<1> DEFINE st == [i \in 0 .. Len(f) |-> h[1 .. i]]
<1>7. st[0] = stripper
  <2>1. 1 .. 0 = {} /\ 0 \in 0 .. Len(f)
    BY <1>0
  <2>2. h[{}] = stripper
    BY <1>5 DEF StripFold
  <2> QED BY <2>1, <2>2
<1>8. ASSUME NEW i \in 1 .. Len(f) PROVE st[i] = StripOne(st[i - 1], f[i])
  <2>1. /\ 1 .. i \in SUBSET D /\ 1 .. i # {} /\ i \in 0 .. Len(f) /\ i - 1 \in 0 .. Len(f)
        /\ (1 .. i) \ {i} = 1 .. i - 1
    <3> HIDE DEF st
    <3>1. i \in Nat /\ i >= 1 /\ i <= Len(f) /\ i - 1 \in Nat /\ i - 1 <= Len(f)
      BY <1>0
    <3>2. i \in 1 .. i /\ \A y \in 1 .. i : y \in 1 .. Len(f)
      BY <1>0, <3>1
    <3>3. \A y : y \in 1 .. i /\ y # i <=> y \in 1 .. i - 1
      BY <3>1
    <3>4. (1 .. i) \ {i} = 1 .. i - 1
      BY <3>3
    <3>5. i \in 0 .. Len(f) /\ i - 1 \in 0 .. Len(f)
      BY <1>0, <3>1
    <3> QED BY <1>0, <3>2, <3>4, <3>5
  <2>2. Max(1 .. i) = i
    <3>1. 1 .. i \in SUBSET Nat /\ i \in 1 .. i /\ \A y \in 1 .. i : y <= i
      BY <1>0
    <3> QED BY <3>1, MaxIs
  <2>3. h[1 .. i] = StripOne(h[(1 .. i) \ {Max(1 .. i)}], f[Max(1 .. i)])
    BY <1>5, <2>1 DEF StripFold
  <2> QED BY <2>1, <2>2, <2>3
<1>9. \A i \in 0 .. Len(f) : st[i] \in X
  <2> DEFINE M == {i \in Nat : i <= Len(f) => st[i] \in X}
  <2> HIDE DEF st, X
  <2>1. 0 \in M
    BY <1>7 DEF X
  <2>2. \A i \in Nat : i \in M => i + 1 \in M
    <3> SUFFICES ASSUME NEW i \in Nat, i \in M, i + 1 <= Len(f) PROVE st[i + 1] \in X
      OBVIOUS
    <3>1. i + 1 \in 1 .. Len(f) /\ (i + 1) - 1 = i /\ i <= Len(f)
      BY <1>0
    <3>2. st[i] \in X /\ f[i + 1] \in A /\ st[i + 1] = StripOne(st[i], f[i + 1])
      BY <1>0, <1>8, <3>1
    <3> QED BY <1>1, <3>2
  <2> HIDE DEF M
  <2>3. Nat \subseteq M
    BY <2>1, <2>2, SetInduction
  <2> QED BY <1>0, <2>3 DEF M
<1>10. st \in [0 .. Len(f) -> X]
  <2> HIDE DEF X
  <2> QED BY <1>9
<1>11. StripSteps(stripper, f, st)
  <2> HIDE DEF st
  <2> QED BY <1>7, <1>8 DEF StripSteps
<1>12. Feed(stripper, f) = st[Len(f)]
  BY <1>0, <1>6
<1> HIDE DEF st, X
<1> QED BY <1>10, <1>11, <1>12 DEF X

\* the recursion of Outside
RestStep(f, rest, i) ==
  IF i > Len(f) THEN <<>>
  ELSE IF f[i] = ESC THEN rest[SequenceEnd(f, i) + 1]
  ELSE <<f[i]>> \o rest[i + 1]

Rests(f, rest) == rest = [i \in 1 .. Len(f) + 1 |-> RestStep(f, rest, i)]

\* An escape sequence ends inside the file.
LEMMA SequenceEndWithin ==
  ASSUME NEW A, NEW f \in Seq(A), NEW i \in 1 .. Len(f)
  PROVE  SequenceEnd(f, i) \in i .. Len(f)
<1> DEFINE after == i + 2 .. Len(f)
           ends == CASE i = Len(f) -> {}
                     [] f[i + 1] = "[" -> {j \in after : f[j] \in FinalBytes}
                     [] f[i + 1] = "]" ->
                          {j \in after : \/ f[j] = BEL /\ f[j - 1] # ESC
                                         \/ f[j] = BSL /\ f[j - 1] = ESC}
                     [] OTHER -> {i + 1}
<1>1. Len(f) \in Nat /\ i \in Nat /\ i <= Len(f)
  BY LenProperties
<1>2. ends \in SUBSET (i + 1 .. Len(f))
  <2>1. after \in SUBSET (i + 1 .. Len(f))
    BY <1>1
  <2>2. i # Len(f) => i + 1 \in i + 1 .. Len(f)
    BY <1>1
  <2> HIDE DEF after
  <2> QED BY <2>1, <2>2
<1>3. SequenceEnd(f, i) = IF ends = {} THEN Len(f) ELSE Min(ends)
  BY DEF SequenceEnd
<1> HIDE DEF ends
<1>4. CASE ends = {}
  BY <1>1, <1>3, <1>4
<1>5. CASE ends # {}
  <2>1. ends \in SUBSET Nat
    BY <1>1, <1>2
  <2>2. Min(ends) \in ends
    BY <1>5, <2>1, LeastOf
  <2>3. SequenceEnd(f, i) \in i + 1 .. Len(f)
    BY <1>2, <1>3, <1>5, <2>2
  <2> QED BY <1>1, <2>3
<1> QED BY <1>4, <1>5

\* The recursion of Outside defines a function.
LEMMA RestDefined ==
  ASSUME NEW A, NEW f \in Seq(A)
  PROVE  \E rest : Rests(f, rest)
<1> DEFINE L == Len(f)
           D == 1 .. L + 1
           Good(g, m) == \A i \in D : i + m > L => g[i] = RestStep(f, g, i)
           M == {m \in Nat : \E g : Good(g, m)}
<1>0. L \in Nat
  BY LenProperties
<1>1. ASSUME NEW i \in D, ~ (i > L)
      PROVE  /\ i \in 1 .. L /\ i + 1 \in D
             /\ SequenceEnd(f, i) + 1 \in D /\ SequenceEnd(f, i) + 1 >= i + 1
  <2>1. i \in 1 .. L /\ i + 1 \in D
    BY <1>0, <1>1
  <2>2. SequenceEnd(f, i) \in i .. L
    BY <2>1, SequenceEndWithin
  <2> QED BY <1>0, <2>1, <2>2
<1>2. 0 \in M
  <2> DEFINE g == [i \in D |-> <<>>]
  <2>1. Good(g, 0)
    BY <1>0 DEF RestStep
  <2> HIDE DEF g, Good
  <2> QED BY <2>1
<1>3. ASSUME NEW m \in Nat, m \in M PROVE m + 1 \in M
  <2>1. PICK g : Good(g, m)
    BY <1>3
  <2> DEFINE h == [i \in D |-> IF i + m > L THEN g[i] ELSE RestStep(f, g, i)]
  <2>2. ASSUME NEW i \in D, i + (m + 1) > L
        PROVE  h[i] = RestStep(f, h, i)
    <3>1. h[i] = RestStep(f, g, i)
      BY <2>1
    <3>2. CASE i > L
      BY <3>1, <3>2 DEF RestStep
    <3>3. CASE ~ (i > L)
      <4>1. PICK e \in D : e = SequenceEnd(f, i) + 1 /\ e >= i + 1
        BY <1>1, <3>3
      <4>2. i + 1 \in D /\ (i + 1) + m > L /\ e + m > L
        BY <1>0, <1>1, <2>2, <3>3, <4>1
      <4>3. h[e] = g[e] /\ h[i + 1] = g[i + 1]
        BY <4>2
      <4> HIDE DEF h, Good
      <4> QED BY <3>1, <3>3, <4>1, <4>3 DEF RestStep
    <3> QED BY <3>2, <3>3
  <2> HIDE DEF h
  <2>3. Good(h, m + 1)
    BY <2>2
  <2> HIDE DEF Good
  <2> QED BY <2>3
<1>4. PICK g : Good(g, L)
  <2> HIDE DEF M, Good
  <2>1. L \in M
    BY <1>0, <1>2, <1>3, SetInduction
  <2> QED BY <2>1 DEF M
<1>5. \A i \in D : g[i] = RestStep(f, g, i)
  BY <1>0, <1>4
<1> DEFINE h == [i \in D |-> g[i]]
<1>6. \A i \in D : h[i] = RestStep(f, h, i)
  <2> SUFFICES ASSUME NEW i \in D PROVE h[i] = RestStep(f, h, i)
    OBVIOUS
  <2>1. h[i] = RestStep(f, g, i)
    BY <1>5
  <2>2. CASE i > L
    BY <2>1, <2>2 DEF RestStep
  <2>3. CASE ~ (i > L)
    <3>1. h[SequenceEnd(f, i) + 1] = g[SequenceEnd(f, i) + 1] /\ h[i + 1] = g[i + 1]
      BY <1>1, <2>3
    <3> HIDE DEF h
    <3> QED BY <2>1, <2>3, <3>1 DEF RestStep
  <2> QED BY <2>2, <2>3
<1>7. h = [i \in D |-> h[i]]
  OBVIOUS
<1> HIDE DEF h
<1> QED BY <1>6, <1>7 DEF Rests

\* Outside is that function at the start of the file.
LEMMA OutsideIs ==
  ASSUME NEW A, NEW f \in Seq(A)
  PROVE  \E rest : /\ Outside(f) = rest[1]
                   /\ \A i \in 1 .. Len(f) + 1 : rest[i] = RestStep(f, rest, i)
<1> DEFINE g == CHOOSE rest : Rests(f, rest)
<1>1. Rests(f, g)
  <2>1. \E rest : Rests(f, rest)
    BY RestDefined
  <2> QED BY <2>1
<1>2. Outside(f) = g[1]
  BY DEF Outside, Rests, RestStep
<1> HIDE DEF g
<1>3. g = [i \in 1 .. Len(f) + 1 |-> RestStep(f, g, i)]
  BY <1>1 DEF Rests
<1>4. \A i \in 1 .. Len(f) + 1 : g[i] = RestStep(f, g, i)
  BY <1>3
<1> QED BY <1>2, <1>4

\* The stripper lets nothing through of an escape sequence that "[" opens, and
\* is back in Normal at its end, unless the file ends first.
LEMMA SkipsCsi ==
  ASSUME NEW A, NEW f \in Seq(A), NEW i \in 1 .. Len(f), i # Len(f),
         NEW st, NEW out, \A j \in 1 .. Len(f) : st[j] = StripOne(st[j - 1], f[j]),
         st[i + 1].state = "Csi", st[i + 1].out = out,
         f[i + 1] = "["
  PROVE  LET e == SequenceEnd(f, i)
         IN  st[e].out = out /\ (e = Len(f) \/ st[e].state = "Normal")
<1> DEFINE L == Len(f)
           ends == {j \in i + 2 .. L : f[j] \in FinalBytes}
           Good(j) == st[j].state = "Csi" /\ st[j].out = out
           M == {m \in Nat : (i + 1) + m <= L /\ (\A j \in ends : j > (i + 1) + m)
                               => Good((i + 1) + m)}
<1>0. L \in Nat /\ i + 1 \in 1 .. L /\ i \in Nat
  BY LenProperties
<1>1. 0 \in M
  BY <1>0
<1>2. ASSUME NEW m \in Nat, m \in M PROVE m + 1 \in M
  <2> DEFINE j == (i + 1) + m
  <2> SUFFICES ASSUME (i + 1) + (m + 1) <= L, \A k \in ends : k > (i + 1) + (m + 1)
               PROVE  Good((i + 1) + (m + 1))
    <3> HIDE DEF ends, Good
    <3> QED OBVIOUS
  <2>0. (i + 1) + (m + 1) = j + 1 /\ j \in Nat /\ j >= i + 1 /\ (j + 1) - 1 = j
    BY <1>0
  <2>1. j + 1 <= L /\ j + 1 \in i + 2 .. L /\ j + 1 \in 1 .. L
    <3> HIDE DEF j, L, ends
    <3> QED BY <1>0, <2>0
  <2>2. Good(j)
    BY <1>0, <1>2, <2>0, <2>1
  <2>3. f[j + 1] \notin FinalBytes
    BY <2>1, SMTT(40)
  <2> HIDE DEF j
  <2>4. st[j + 1] = StripOne(st[j], f[j + 1])
    BY <2>0, <2>1
  <2> QED BY <2>0, <2>2, <2>3, <2>4, SMTT(40) DEF StripOne, StripNext
<1>3. \A m \in Nat : m \in M
  <2> HIDE DEF M
  <2> QED BY <1>1, <1>2, SetInduction
<1>4. SequenceEnd(f, i) = IF ends = {} THEN L ELSE Min(ends)
  BY DEF SequenceEnd
<1>5. CASE ends = {}
  <2>1. L - (i + 1) \in Nat /\ (i + 1) + (L - (i + 1)) = L
    BY <1>0
  <2>2. Good(L)
    <3> HIDE DEF ends, Good, L
    <3>1. L - (i + 1) \in M
      <4> HIDE DEF M
      <4> QED BY <1>3, <2>1
    <3>2. L <= L
      BY <1>0
    <3> QED BY <1>5, <2>1, <3>1, <3>2
  <2> QED BY <1>4, <1>5, <2>2
<1>6. CASE ends # {}
  <2> DEFINE e == Min(ends)
  <2>1. ends \in SUBSET Nat
    BY <1>0
  <2>2. e \in ends /\ \A k \in ends : e <= k
    BY <1>6, <2>1, LeastOf
  <2> HIDE DEF e
  <2>3. /\ e \in i + 2 .. L /\ f[e] \in FinalBytes
        /\ e \in 1 .. L /\ e - (i + 2) \in Nat /\ (i + 1) + (e - (i + 2)) = e - 1 /\ e - 1 <= L
    BY <1>0, <2>2
  <2>4. \A k \in ends : k > e - 1
    BY <2>1, <2>2, <2>3
  <2>5. Good(e - 1)
    <3> HIDE DEF ends, Good
    <3>1. e - (i + 2) \in M
      BY <1>3, <2>3
    <3> QED BY <2>3, <2>4, <3>1
  <2>6. st[e] = StripOne(st[e - 1], f[e])
    BY <2>3
  <2>7. st[e].out = out /\ st[e].state = "Normal"
    BY <2>3, <2>5, <2>6 DEF StripOne, StripNext
  <2> QED BY <1>4, <1>6, <2>7 DEF e
<1> QED BY <1>5, <1>6

\* The same of a sequence that "]" opens: a BEL closes it, or an ESC and a BSL,
\* and the stripper remembers an ESC it has just seen.
LEMMA SkipsOsc ==
  ASSUME NEW A, NEW f \in Seq(A), NEW i \in 1 .. Len(f), i # Len(f),
         NEW st, NEW out, \A j \in 1 .. Len(f) : st[j] = StripOne(st[j - 1], f[j]),
         st[i + 1].state = "Osc", st[i + 1].out = out,
         f[i + 1] = "]"
  PROVE  LET e == SequenceEnd(f, i)
         IN  st[e].out = out /\ (e = Len(f) \/ st[e].state = "Normal")
<1> DEFINE L == Len(f)
           Closes(j) == \/ f[j] = BEL /\ f[j - 1] # ESC
                        \/ f[j] = BSL /\ f[j - 1] = ESC
           ends == {j \in i + 2 .. L : Closes(j)}
           Good(j) == /\ st[j].state = IF f[j] = ESC THEN "OscEscPending" ELSE "Osc"
                      /\ st[j].out = out
           M == {m \in Nat : (i + 1) + m <= L /\ (\A j \in ends : j > (i + 1) + m)
                               => Good((i + 1) + m)}
<1>0. L \in Nat /\ i + 1 \in 1 .. L /\ i \in Nat
  BY LenProperties
<1>1. 0 \in M
  BY <1>0 DEF ESC
<1>2. ASSUME NEW m \in Nat, m \in M PROVE m + 1 \in M
  <2> DEFINE j == (i + 1) + m
  <2> SUFFICES ASSUME (i + 1) + (m + 1) <= L, \A k \in ends : k > (i + 1) + (m + 1)
               PROVE  Good((i + 1) + (m + 1))
    <3> HIDE DEF ends, Good
    <3> QED OBVIOUS
  <2>0. (i + 1) + (m + 1) = j + 1 /\ j \in Nat /\ j >= i + 1 /\ (j + 1) - 1 = j
    BY <1>0
  <2>1. j + 1 <= L /\ j + 1 \in i + 2 .. L /\ j + 1 \in 1 .. L
    <3> HIDE DEF j, L, ends
    <3> QED BY <1>0, <2>0
  <2>2. Good(j)
    BY <1>0, <1>2, <2>0, <2>1
  <2>3. ~ Closes(j + 1)
    BY <2>1
  <2> HIDE DEF j
  <2>4. st[j + 1] = StripOne(st[j], f[j + 1])
    BY <2>0, <2>1
  <2>5. ~ (f[j + 1] = BEL /\ f[j] # ESC) /\ ~ (f[j + 1] = BSL /\ f[j] = ESC)
    BY <2>0, <2>3
  <2>6. Good(j + 1)
    BY <2>2, <2>4, <2>5 DEF StripOne, StripNext, ESC, BEL, BSL
  <2> QED BY <2>0, <2>6
<1>3. \A m \in Nat : m \in M
  <2> HIDE DEF M
  <2> QED BY <1>1, <1>2, SetInduction
<1>4. SequenceEnd(f, i) = IF ends = {} THEN L ELSE Min(ends)
  BY DEF SequenceEnd
<1>5. CASE ends = {}
  <2>1. L - (i + 1) \in Nat /\ (i + 1) + (L - (i + 1)) = L
    BY <1>0
  <2>2. Good(L)
    <3> HIDE DEF ends, Good, L
    <3>1. L - (i + 1) \in M
      <4> HIDE DEF M
      <4> QED BY <1>3, <2>1
    <3>2. L <= L
      BY <1>0
    <3> QED BY <1>5, <2>1, <3>1, <3>2
  <2> QED BY <1>4, <1>5, <2>2
<1>6. CASE ends # {}
  <2> DEFINE e == Min(ends)
  <2>1. ends \in SUBSET Nat
    BY <1>0
  <2>2. e \in ends /\ \A k \in ends : e <= k
    BY <1>6, <2>1, LeastOf
  <2> HIDE DEF e
  <2>3. /\ e \in i + 2 .. L /\ Closes(e)
        /\ e \in 1 .. L /\ e - (i + 2) \in Nat /\ (i + 1) + (e - (i + 2)) = e - 1 /\ e - 1 <= L
    <3>1. e \in i + 2 .. L /\ Closes(e)
      BY <2>2
    <3> HIDE DEF Closes
    <3> QED BY <1>0, <3>1
  <2>4. \A k \in ends : k > e - 1
    BY <2>1, <2>2, <2>3
  <2>5. Good(e - 1)
    <3> HIDE DEF ends, Good
    <3>1. e - (i + 2) \in M
      BY <1>3, <2>3
    <3> QED BY <2>3, <2>4, <3>1
  <2>6. st[e] = StripOne(st[e - 1], f[e])
    BY <2>3
  <2>7. st[e].out = out /\ st[e].state = "Normal"
    BY <2>3, <2>5, <2>6 DEF StripOne, StripNext, ESC, BEL, BSL
  <2> QED BY <1>4, <1>6, <2>7 DEF e
<1> QED BY <1>5, <1>6

\* And of every escape sequence, whatever follows its ESC.
LEMMA Skips ==
  ASSUME NEW A, NEW f \in Seq(A), NEW i \in 1 .. Len(f),
         NEW st, \A j \in 1 .. Len(f) : st[j] = StripOne(st[j - 1], f[j]),
         st[i - 1].state = "Normal", f[i] = ESC
  PROVE  LET e == SequenceEnd(f, i)
         IN  st[e].out = st[i - 1].out /\ (e = Len(f) \/ st[e].state = "Normal")
<1> DEFINE out == st[i - 1].out
<1>0. Len(f) \in Nat
  BY LenProperties
<1>1. st[i].state = "AfterEsc" /\ st[i].out = out
  <2>1. st[i] = StripOne(st[i - 1], f[i])
    OBVIOUS
  <2> QED BY <2>1 DEF StripOne, StripNext
<1> HIDE DEF out
<1>2. CASE i = Len(f)
  <2>1. SequenceEnd(f, i) = i
    BY <1>2 DEF SequenceEnd
  <2> QED BY <1>1, <1>2, <2>1 DEF out
<1>3. CASE i # Len(f)
  <2>1. i + 1 \in 1 .. Len(f) /\ (i + 1) - 1 = i
    BY <1>0, <1>3
  <2>2. st[i + 1] = StripOne(st[i], f[i + 1])
    BY <2>1
  <2>3. /\ st[i + 1].out = out
        /\ st[i + 1].state = IF f[i + 1] = "[" THEN "Csi"
                             ELSE IF f[i + 1] = "]" THEN "Osc" ELSE "Normal"
    BY <1>1, <2>2 DEF StripOne, StripNext
  <2>4. CASE f[i + 1] = "["
    BY <1>3, <2>3, <2>4, SkipsCsi DEF out
  <2>5. CASE f[i + 1] = "]"
    BY <1>3, <2>3, <2>5, SkipsOsc DEF out
  <2>6. CASE f[i + 1] # "[" /\ f[i + 1] # "]"
    <3>1. SequenceEnd(f, i) = Min({i + 1})
      BY <1>3, <2>6 DEF SequenceEnd
    <3>2. {i + 1} \in SUBSET Nat
      BY <2>1
    <3>3. Min({i + 1}) = i + 1
      BY <3>2, MinIs
    <3> QED BY <2>3, <2>6, <3>1, <3>3 DEF out
  <2> QED BY <2>4, <2>5, <2>6
<1> QED BY <1>2, <1>3

\* An element goes at the end of what is before it or in front of what follows.
LEMMA OneMore ==
  ASSUME NEW A, NEW s \in Seq(A), NEW t \in Seq(A), NEW c \in A
  PROVE  Append(s, c) \o t = s \o (<<c>> \o t)
<1>1. <<c>> \in Seq(A)
  OBVIOUS
<1>2. Append(s, c) = s \o <<c>>
  BY AppendIsConcat
<1>3. (s \o <<c>>) \o t = s \o (<<c>> \o t)
  BY <1>1, ConcatAssociative
<1> QED BY <1>2, <1>3

\* The stripper lets through what is outside escape sequences.
LEMMA StripIsOutside ==
  ASSUME NEW A, NEW f \in Seq(A)
  PROVE  Strip(f) = Outside(f)
<1> DEFINE L == Len(f)
           X == [state : States, out : Seq(A)]
<1>0. L \in Nat /\ \A i \in 1 .. L : f[i] \in A
  BY LenProperties, ElementOfSeq
<1>1. PICK st \in [0 .. L -> X] : StripSteps(NewStripper, f, st) /\ Feed(NewStripper, f) = st[L]
  <2>1. NewStripper \in X
    BY EmptySeq DEF NewStripper, States
  <2> QED BY <2>1, FeedSteps
<1>2. PICK rest : /\ Outside(f) = rest[1]
                  /\ \A i \in 1 .. L + 1 : rest[i] = RestStep(f, rest, i)
  BY OutsideIs
<1>3. st[0] = NewStripper /\ \A i \in 1 .. L : st[i] = StripOne(st[i - 1], f[i])
  BY <1>1 DEF StripSteps
<1>4. \A i \in 0 .. L : st[i].out \in Seq(A)
  BY <1>1
<1> HIDE DEF X
<1> DEFINE Good(i) == /\ rest[i] \in Seq(A)
                      /\ st[i - 1].state = "Normal" => st[L].out = st[i - 1].out \o rest[i]
           M == {m \in Nat : \A i \in 1 .. L + 1 : i + m > L => Good(i)}
<1>5. ASSUME NEW i \in 1 .. L + 1, i > L PROVE Good(i)
  <2>1. i - 1 = L /\ L \in 0 .. L
    BY <1>0, <1>5
  <2>2. rest[i] = <<>>
    BY <1>2, <1>5 DEF RestStep
  <2> QED BY <1>4, <2>1, <2>2, ConcatEmptySeq, EmptySeq
<1>6. 0 \in M
  <2> HIDE DEF Good
  <2> QED BY <1>0, <1>5
<1>7. ASSUME NEW m \in Nat, m \in M PROVE m + 1 \in M
  <2> SUFFICES ASSUME NEW i \in 1 .. L + 1, i + (m + 1) > L PROVE Good(i)
    <3> HIDE DEF Good
    <3> QED OBVIOUS
  <2>1. CASE i > L
    <3> HIDE DEF Good
    <3> QED BY <1>5, <2>1
  <2>2. CASE ~ (i > L)
    <3> HIDE DEF Good
    <3>1. /\ i \in 1 .. L /\ i \in 0 .. L /\ i - 1 \in 0 .. L /\ (i + 1) - 1 = i
          /\ i + 1 \in 1 .. L + 1 /\ (i + 1) + m > L
      BY <1>0, <2>2, <1>7
    <3>2. Good(i + 1)
      BY <1>7, <3>1
    <3>3. rest[i] = IF f[i] = ESC THEN rest[SequenceEnd(f, i) + 1] ELSE <<f[i]>> \o rest[i + 1]
      BY <1>2, <2>2 DEF RestStep
    <3>4. st[i] = StripOne(st[i - 1], f[i])
      BY <1>3, <3>1
    <3>5. CASE f[i] # ESC
      <4>1. f[i] \in A /\ <<f[i]>> \in Seq(A) /\ rest[i + 1] \in Seq(A) /\ st[i - 1].out \in Seq(A)
        BY <1>0, <1>4, <3>1, <3>2 DEF Good
      <4>2. <<f[i]>> \o rest[i + 1] \in Seq(A)
        BY <4>1, ConcatProperties
      <4>3. ASSUME st[i - 1].state = "Normal" PROVE st[L].out = st[i - 1].out \o rest[i]
        <5>1. st[i].state = "Normal" /\ st[i].out = Append(st[i - 1].out, f[i])
          BY <3>4, <3>5, <4>3 DEF StripOne, StripNext
        <5>2. st[L].out = Append(st[i - 1].out, f[i]) \o rest[i + 1]
          BY <3>1, <3>2, <5>1 DEF Good
        <5>3. rest[i] = <<f[i]>> \o rest[i + 1]
          BY <3>3, <3>5
        <5>4. PICK o \in Seq(A), r \in Seq(A), c \in A :
                o = st[i - 1].out /\ r = rest[i + 1] /\ c = f[i]
          BY <4>1
        <5>5. Append(o, c) \o r = o \o (<<c>> \o r)
          BY OneMore, SMTT(40)
        <5> QED BY <5>2, <5>3, <5>4, <5>5
      <4> QED BY <3>3, <3>5, <4>2, <4>3 DEF Good
    <3>6. CASE f[i] = ESC
      <4>1. PICK e \in i .. L : e = SequenceEnd(f, i)
        BY <3>1, SequenceEndWithin
      <4>2. /\ e + 1 \in 1 .. L + 1 /\ (e + 1) - 1 = e /\ e \in 0 .. L
            /\ (e + 1) + m > L
        <5> HIDE DEF L
        <5>1. e \in Nat /\ i \in Nat /\ i <= e /\ e <= L /\ 1 <= i
          BY <1>0, <3>1
        <5> QED BY <1>0, <1>7, <2>2, <3>1, <5>1
      <4>3. Good(e + 1) /\ rest[i] = rest[e + 1]
        BY <1>7, <3>3, <3>6, <4>1, <4>2
      <4>4. ASSUME st[i - 1].state = "Normal" PROVE st[L].out = st[i - 1].out \o rest[i]
        <5>1. st[e].out = st[i - 1].out /\ (e = L \/ st[e].state = "Normal")
          BY <1>3, <3>1, <3>6, <4>1, <4>4, Skips
        <5>2. CASE st[e].state = "Normal"
          BY <4>2, <4>3, <5>1, <5>2 DEF Good
        <5>3. CASE e = L
          <6>1. rest[e + 1] = <<>>
            <7>1. e + 1 > Len(f)
              BY <1>0, <5>3
            <7> QED BY <1>2, <4>2, <7>1 DEF RestStep
          <6>2. st[i - 1].out \o <<>> = st[i - 1].out
            BY <1>4, <3>1, ConcatEmptySeq
          <6> QED BY <4>3, <5>1, <5>3, <6>1, <6>2
        <5> QED BY <5>1, <5>2, <5>3
      <4> QED BY <4>3, <4>4 DEF Good
    <3> QED BY <3>5, <3>6
  <2> QED BY <2>1, <2>2
<1>8. Good(1)
  <2> HIDE DEF M, Good
  <2>1. L \in M
    BY <1>0, <1>6, <1>7, SetInduction
  <2>2. 1 \in 1 .. L + 1 /\ 1 + L > L
    BY <1>0
  <2> QED BY <2>1, <2>2 DEF M
<1>9. st[L].out = <<>> \o rest[1] /\ rest[1] \in Seq(A)
  <2>1. 1 - 1 = 0 /\ st[0].state = "Normal" /\ st[0].out = <<>>
    BY <1>3 DEF NewStripper
  <2> QED BY <1>8, <2>1
<1>10. <<>> \o rest[1] = rest[1]
  BY <1>9, ConcatEmptySeq
<1> QED BY <1>1, <1>2, <1>9, <1>10 DEF Strip

\* The stripper keeps exactly the bytes outside escape sequences, of every log
\* (pty.rs:284-348).
THEOREM StripInvariance == Spec => []StripsSequences
<1>1. BytesOnly => StripsSequences
  BY StripIsOutside DEF BytesOnly, StripsSequences
<1> QED BY <1>1, LogIsBytes, PTL

------------------------------------------------------------------------------
(* The stripper fed in parts. *)

\* st goes through n bytes of f
Feeds(n, f, st) == \A k \in 1 .. n : st[k] = StripOne(st[k - 1], f[k])

\* Two ways through the same bytes are the same.
LEMMA StepsAgree ==
  ASSUME NEW n \in Nat, NEW f, NEW s, NEW t,
         Feeds(n, f, s), Feeds(n, f, t), s[0] = t[0]
  PROVE  s[n] = t[n]
<1> DEFINE M == {k \in Nat : k <= n => s[k] = t[k]}
<1>1. 0 \in M
  OBVIOUS
<1>2. ASSUME NEW k \in Nat, k \in M PROVE k + 1 \in M
  <2> SUFFICES ASSUME k + 1 <= n PROVE s[k + 1] = t[k + 1]
    OBVIOUS
  <2>1. k + 1 \in 1 .. n /\ (k + 1) - 1 = k /\ k <= n
    OBVIOUS
  <2>2. s[k] = t[k]
    BY <1>2, <2>1
  <2>3. s[k + 1] = StripOne(s[k], f[k + 1]) /\ t[k + 1] = StripOne(t[k], f[k + 1])
    BY <2>1 DEF Feeds
  <2> QED BY <2>2, <2>3
<1> HIDE DEF M
<1>3. Nat \subseteq M
  BY <1>1, <1>2, SetInduction
<1>4. n \in M
  BY <1>3
<1> QED BY <1>4 DEF M

\* What the stripper has let through, it has let through.
LEMMA StripGrows ==
  ASSUME NEW A, NEW n \in Nat, NEW f, NEW st \in [0 .. n -> [state : States, out : Seq(A)]],
         \A k \in 1 .. n : f[k] \in A, Feeds(n, f, st)
  PROVE  \A k \in 0 .. n : \E z \in Seq(A) : st[k].out = st[0].out \o z
<1> DEFINE M == {k \in Nat : k <= n => \E z \in Seq(A) : st[k].out = st[0].out \o z}
           X == [state : States, out : Seq(A)]
<1>0. \A k \in 0 .. n : st[k] \in X /\ st[k].out \in Seq(A)
  OBVIOUS
<1>1. 0 \in M
  <2>1. 0 \in 0 .. n
    OBVIOUS
  <2>2. st[0].out \in Seq(A) /\ <<>> \in Seq(A)
    BY <1>0, <2>1, EmptySeq
  <2>3. st[0].out \o <<>> = st[0].out
    BY <2>2, ConcatEmptySeq
  <2>4. \E z \in Seq(A) : st[0].out = st[0].out \o z
    BY <2>2, <2>3
  <2> QED BY <2>4
<1>2. ASSUME NEW k \in Nat, k \in M PROVE k + 1 \in M
  <2> SUFFICES ASSUME k + 1 <= n PROVE \E z \in Seq(A) : st[k + 1].out = st[0].out \o z
    BY SMTT(40)
  <2>1. k + 1 \in 1 .. n /\ (k + 1) - 1 = k /\ k <= n /\ k \in 0 .. n /\ 0 \in 0 .. n
    OBVIOUS
  <2>2. PICK z \in Seq(A) : st[k].out = st[0].out \o z
    BY <1>2, <2>1, ZenonT(60)
  <2>3. f[k + 1] \in A /\ st[k + 1] = StripOne(st[k], f[k + 1])
    BY <2>1 DEF Feeds
  <2> DEFINE b == f[k + 1]
             s == st[0].out
  <2>4. st[k + 1].out = st[k].out \/ st[k + 1].out = Append(st[k].out, b)
    BY <2>3 DEF StripOne
  <2>5. s \in Seq(A) /\ b \in A /\ z \in Seq(A)
    BY <1>0, <2>1, <2>3
  <2> HIDE DEF b, s
  <2>6. Append(s \o z, b) = s \o Append(z, b) /\ Append(z, b) \in Seq(A)
    <3>0. s \o z \in Seq(A)
      BY <2>5, ConcatProperties
    <3>1. <<b>> \in Seq(A)
      BY <2>5
    <3>2. Append(s \o z, b) = (s \o z) \o <<b>> /\ Append(z, b) = z \o <<b>>
      BY <2>5, <3>0, AppendIsConcat
    <3>3. (s \o z) \o <<b>> = s \o (z \o <<b>>)
      BY <2>5, <3>1, ConcatAssociative, SMTT(40)
    <3> QED BY <2>5, <3>2, <3>3, AppendProperties
  <2> QED BY <2>2, <2>4, <2>5, <2>6 DEF s
<1> HIDE DEF M
<1>3. Nat \subseteq M
  BY <1>1, <1>2, SetInduction
<1> SUFFICES ASSUME NEW k \in 0 .. n PROVE \E z \in Seq(A) : st[k].out = st[0].out \o z
  OBVIOUS
<1>4. k \in M /\ k <= n
  BY <1>3
<1> QED BY <1>4, Zenon DEF M

\* what two parts of the bytes leave
FedAs(A, f, cut, stripper) ==
  LET half == Feed(stripper, SubSeq(f, 1, cut))
      whole == Feed(half, From(f, cut))
  IN  /\ half \in [state : States, out : Seq(A)]
      /\ whole = Feed(stripper, f) /\ whole \in [state : States, out : Seq(A)]
      /\ \E z \in Seq(A) : whole.out = half.out \o z

\* Bytes may be fed in two parts, and the first does not depend on the second.
LEMMA FedInParts ==
  ASSUME NEW A, NEW f \in Seq(A), NEW cut \in 0 .. Len(f),
         NEW stripper \in [state : States, out : Seq(A)]
  PROVE  FedAs(A, f, cut, stripper)
<1> DEFINE X == [state : States, out : Seq(A)]
           a == SubSeq(f, 1, cut)
           b == From(f, cut)
           n == Len(f)
           m == n - cut
<1>0. /\ n \in Nat /\ cut \in Nat /\ m \in Nat /\ cut <= n
      /\ \A k \in 1 .. n : f[k] \in A
  BY LenProperties, ElementOfSeq
<1>1. a \in Seq(A) /\ Len(a) = cut /\ \A k \in 1 .. cut : a[k] = f[k]
  <2>1. 0 \in Nat /\ cut \in Nat /\ 0 + cut <= Len(f)
    BY <1>0
  <2>2. LET s == SubSeq(f, 0 + 1, 0 + cut)
        IN  s \in Seq(A) /\ Len(s) = cut /\ \A i \in 1 .. cut : s[i] = f[0 + i]
    BY <2>1, Part, ZenonT(100)
  <2>3. 0 + 1 = 1 /\ 0 + cut = cut /\ \A k \in 1 .. cut : 0 + k = k
    BY <1>0
  <2> QED BY <2>2, <2>3
<1>2. b \in Seq(A) /\ Len(b) = m /\ \A k \in 1 .. m : b[k] = f[cut + k]
  <2>1. cut + 1 \in 1 .. Len(f) + 1 /\ (Len(f) + 1) - (cut + 1) = m /\ (cut + 1) - 1 = cut
    BY <1>0
  <2>2. /\ SubSeq(f, cut + 1, Len(f)) \in Seq(A)
        /\ Len(SubSeq(f, cut + 1, Len(f))) = (Len(f) + 1) - (cut + 1)
        /\ \A k \in 1 .. (Len(f) + 1) - (cut + 1) :
             SubSeq(f, cut + 1, Len(f))[k] = f[((cut + 1) - 1) + k]
    BY <2>1, Rest
  <2> QED BY <2>1, <2>2 DEF From
<1> HIDE DEF a, b, n, m
<1> DEFINE half == Feed(stripper, a)
           whole == Feed(half, b)
<1>3. PICK sa \in [0 .. cut -> X] : StripSteps(stripper, a, sa) /\ half = sa[cut]
  <2>1. \E st \in [0 .. Len(a) -> X] :
           StripSteps(stripper, a, st) /\ Feed(stripper, a) = st[Len(a)]
    BY <1>1, FeedSteps
  <2> QED BY <1>1, <2>1
<1>4. half \in X
  <2>1. cut \in 0 .. cut
    BY <1>0
  <2> HIDE DEF X, half
  <2> QED BY <1>3, <2>1
<1> HIDE DEF half
<1>5. PICK sb \in [0 .. m -> X] : StripSteps(half, b, sb) /\ whole = sb[m]
  <2>1. \E st \in [0 .. Len(b) -> X] : StripSteps(half, b, st) /\ Feed(half, b) = st[Len(b)]
    BY <1>2, <1>4, FeedSteps
  <2> QED BY <1>2, <2>1
<1>6. PICK st \in [0 .. n -> X] : StripSteps(stripper, f, st) /\ Feed(stripper, f) = st[n]
  <2>1. \E st \in [0 .. Len(f) -> X] :
           StripSteps(stripper, f, st) /\ Feed(stripper, f) = st[Len(f)]
    BY FeedSteps
  <2> QED BY <2>1 DEF n
<1> HIDE DEF X, whole
<1>7. st[cut] = half
  <2>1. Feeds(cut, f, sa) /\ Feeds(cut, f, st)
    <3>1. \A k \in 1 .. cut : k \in 1 .. n
      BY <1>0
    <3> QED BY <1>1, <1>3, <1>6, <3>1 DEF StripSteps, Feeds, n
  <2>2. sa[0] = st[0]
    BY <1>3, <1>6 DEF StripSteps
  <2>3. sa[cut] = st[cut]
    BY <1>0, <2>1, <2>2, StepsAgree
  <2> QED BY <1>3, <2>3
<1> DEFINE su == [k \in 0 .. m |-> st[cut + k]]
<1>8. Feeds(m, b, sb) /\ Feeds(m, b, su)
  <2> SUFFICES ASSUME NEW k \in 1 .. m
               PROVE  sb[k] = StripOne(sb[k - 1], b[k]) /\ su[k] = StripOne(su[k - 1], b[k])
    BY DEF Feeds
  <2>1. /\ k \in 0 .. m /\ k - 1 \in 0 .. m /\ cut + k \in 1 .. n
        /\ (cut + k) - 1 = cut + (k - 1)
    <3>1. m = n - cut
      BY DEF m
    <3> QED BY <1>0, <3>1
  <2>2. sb[k] = StripOne(sb[k - 1], b[k])
    BY <1>2, <1>5 DEF StripSteps
  <2>3. st[cut + k] = StripOne(st[(cut + k) - 1], f[cut + k])
    BY <1>6, <2>1 DEF StripSteps, n
  <2>4. su[k] = st[cut + k] /\ su[k - 1] = st[cut + (k - 1)] /\ b[k] = f[cut + k]
    BY <1>2, <2>1
  <2> QED BY <2>1, <2>2, <2>3, <2>4
<1>9. sb[0] = su[0]
  <2>1. 0 \in 0 .. m /\ cut + 0 = cut
    BY <1>0
  <2> QED BY <1>5, <1>7, <2>1 DEF StripSteps
<1>10. sb[m] = su[m] /\ su[m] = st[n]
  <2>1. m \in 0 .. m /\ cut + m = n
    <3>1. m = n - cut
      BY DEF m
    <3> QED BY <1>0, <3>1
  <2>2. su[m] = st[n]
    BY <2>1
  <2> HIDE DEF su
  <2>3. sb[m] = su[m]
    BY <1>0, <1>8, <1>9, StepsAgree
  <2> QED BY <2>1, <2>2, <2>3
<1>11. whole = Feed(stripper, f) /\ whole \in X
  <2>1. m \in 0 .. m
    BY <1>0
  <2> QED BY <1>5, <1>6, <1>10, <2>1
<1>12. \E z \in Seq(A) : whole.out = half.out \o z
  <2>1. \A k \in 1 .. m : b[k] \in A
    BY <1>2, ElementOfSeq
  <2>2. \A k \in 0 .. m : \E z \in Seq(A) : sb[k].out = sb[0].out \o z
    <3>1. sb \in [0 .. m -> [state : States, out : Seq(A)]]
      BY <1>5 DEF X
    <3> QED BY <1>0, <1>8, <2>1, <3>1, StripGrows, ZenonT(40)
  <2>3. m \in 0 .. m /\ sb[0] = half
    BY <1>0, <1>5 DEF StripSteps
  <2> QED BY <1>5, <2>2, <2>3
<1> QED BY <1>4, <1>11, <1>12 DEF X, half, whole, a, b, FedAs

------------------------------------------------------------------------------
(* The lines of what goes on from the lines before. *)

\* u has the first r lines of f
BeginsAs(u, f, r) == \A k \in 1 .. r : SplitLines(u)[k] = SplitLines(f)[k]

\* the lines of v are those of f without the first r
GoesOnAs(v, f, r) ==
  /\ Cardinality(Ends(v)) = Cardinality(Ends(f)) - r
  /\ \A k \in 1 .. Cardinality(Ends(f)) - r : SplitLines(v)[k] = SplitLines(f)[r + k]

\* The first lines of a file are the lines of its first part.
LEMMA FirstLines ==
  ASSUME NEW A, NEW f \in Seq(A), NEW r \in 0 .. Cardinality(Ends(f)),
         NEW u, u = SubSeq(f, 1, Cut(f)[r])
  PROVE  BeginsAs(u, f, r)
<1> DEFINE n == Len(f)
           c == Cardinality(Ends(f))
           h == Cut(f)[r]
           d == [k \in 1 .. r |-> Cut(f)[k]]
<1>1. /\ n \in Nat /\ c \in Nat /\ DOMAIN f = 1 .. n
      /\ Ends(f) \in SUBSET (1 .. n) /\ Ends(f) \in SUBSET Nat
  BY EndsFinite, LenProperties
<1>2. /\ Cut(f) \in [0 .. c -> 0 .. n] /\ Cut(f)[0] = 0 /\ Cut(f)[c] = n
      /\ \A k \in 1 .. c : Cut(f)[k - 1] < Cut(f)[k]
      /\ \A k \in 0 .. c : Rank(Ends(f), Cut(f)[k]) = k
      /\ \A k \in 1 .. c : Cut(f)[k] \in Ends(f)
  BY CutsInOrder, CutsByRank
<1>3. h \in 0 .. n /\ h \in Nat /\ r \in Nat /\ r <= c
  BY <1>1, <1>2
<1>4. u \in Seq(A) /\ Len(u) = h /\ \A q \in 1 .. h : u[q] = f[q]
  <2>1. u \in Seq(A) /\ Len(u) = h
    BY <1>3, PartType
  <2>2. /\ 1 \in Nat /\ 1 > 0 /\ h \in Nat /\ 1 <= h + 1 /\ h <= Len(f)
        /\ (h + 1) - 1 = h /\ \A q \in 1 .. h : (1 - 1) + q = q
    <3> HIDE DEF h
    <3> QED BY <1>1, <1>3
  <2> HIDE DEF h
  <2>3. \A q \in 1 .. (h + 1) - 1 : SubSeq(f, 1, h)[q] = f[(1 - 1) + q]
    BY <2>2, BufPart
  <2>4. u = SubSeq(f, 1, h)
    BY DEF h
  <2> QED BY <2>1, <2>2, <2>3, <2>4
<1>5. \A k \in 1 .. r : k \in 1 .. c /\ k \in 0 .. c /\ d[k] = Cut(f)[k] /\ d[k] \in 1 .. h /\ d[k] \in Ends(f)
  <2> SUFFICES ASSUME NEW k \in 1 .. r
               PROVE  k \in 1 .. c /\ k \in 0 .. c /\ d[k] = Cut(f)[k] /\ d[k] \in 1 .. h /\ d[k] \in Ends(f)
    OBVIOUS
  <2>1. k \in 1 .. c /\ k \in 0 .. c /\ r \in 0 .. c /\ 0 \in 0 .. c /\ 0 < k /\ (k < r \/ k = r)
    BY <1>1, <1>3
  <2>2. Cut(f)[k] <= h
    <3>1. k < r => Cut(f)[k] < Cut(f)[r]
      BY <2>1, CutsGrow
    <3>2. Cut(f)[k] \in Nat /\ Cut(f)[r] \in Nat
      BY <1>2, <2>1
    <3> QED BY <2>1, <3>1, <3>2
  <2>3. Cut(f)[k] \in Ends(f) /\ Cut(f)[k] \in 1 .. n
    BY <1>1, <1>2, <2>1
  <2>4. Cut(f)[k] \in 1 .. h
    BY <1>1, <1>3, <2>2, <2>3
  <2> QED BY <2>1, <2>3, <2>4
<1>6. \A y \in 1 .. h : y \in Ends(u) <=> y \in Ends(f)
  <2> SUFFICES ASSUME NEW y \in 1 .. h PROVE y \in Ends(u) <=> y \in Ends(f)
    OBVIOUS
  <2>1. y \in Ends(u) <=> u[y] = NL \/ y = h
    <3>1. DOMAIN u = 1 .. h
      BY <1>4, LenProperties
    <3> QED BY <1>4, <3>1 DEF Ends, Newlines
  <2>2. y \in 1 .. n /\ u[y] = f[y]
    BY <1>1, <1>3, <1>4
  <2>3. y \in Ends(f) <=> f[y] = NL \/ y = n
    BY <1>1, <2>2 DEF Ends, Newlines
  <2>4. y = n => y = h
    BY <1>1, <1>3
  <2>5. y = h => y \in Ends(f)
    <3>1. y = h => r \in 1 .. c
      BY <1>1, <1>2, <1>3
    <3> QED BY <1>2, <3>1
  <2> QED BY <2>1, <2>2, <2>3, <2>4, <2>5
<1>7. ListedBy(Ends(u), r, d)
  <2>1. d \in [1 .. r -> Nat]
    <3>1. \A k \in 1 .. r : Cut(f)[k] \in Nat
      BY <1>2, <1>5
    <3> QED BY <3>1
  <2>2. \A j, k \in 1 .. r : j < k => d[j] < d[k]
    <3> SUFFICES ASSUME NEW j \in 1 .. r, NEW k \in 1 .. r, j < k PROVE d[j] < d[k]
      OBVIOUS
    <3>1. Cut(f)[j] < Cut(f)[k]
      BY <1>5, CutsGrow
    <3> QED BY <1>5, <3>1
  <2>3. \A k \in 1 .. r : d[k] \in Ends(u)
    <3> HIDE DEF d
    <3> QED BY <1>5, <1>6
  <2>4. \A x \in Ends(u) : \E k \in 1 .. r : x = d[k]
    <3> SUFFICES ASSUME NEW x \in Ends(u) PROVE \E k \in 1 .. r : x = d[k]
      OBVIOUS
    <3>1. x \in 1 .. h
      BY <1>4, EndsFinite
    <3>2. x \in Ends(f)
      BY <1>6, <3>1
    <3>3. Rank(Ends(f), x) \in 1 .. c /\ Ascending(Ends(f))[Rank(Ends(f), x)] = x
      BY <3>2, EndsFinite, AscendingAt
    <3> DEFINE k == Rank(Ends(f), x)
    <3>4. Cut(f)[k] = x
      BY <3>3, CutsInOrder
    <3> HIDE DEF k
    <3>5. ~ (r < k)
      <4>1. k \in 0 .. c /\ k \in Nat
        BY <1>1, <3>3 DEF k
      <4>2. r < k => Cut(f)[r] < Cut(f)[k]
        BY <4>1, CutsGrow
      <4> QED BY <1>3, <3>1, <3>4, <4>2
    <3>6. k \in 1 .. r
      BY <1>1, <1>3, <3>3, <3>5 DEF k
    <3> QED BY <1>5, <3>4, <3>6
  <2> HIDE DEF d
  <2> QED BY <1>3, <2>1, <2>2, <2>3, <2>4 DEF ListedBy
<1> HIDE DEF d, h
<1>8. Cardinality(Ends(u)) = r /\ \A k \in 1 .. r : Ascending(Ends(u))[k] = d[k]
  BY <1>7, AscendingIs
<1>9. \A k \in 0 .. r : Cut(u)[k] = Cut(f)[k]
  <2>1. /\ Cut(u)[0] = 0
        /\ \A k \in 1 .. r : Cut(u)[k] = Ascending(Ends(u))[k]
    BY <1>4, <1>8, CutsInOrder
  <2>2. \A k \in 0 .. r : k = 0 \/ k \in 1 .. r
    BY <1>3
  <2> QED BY <1>2, <1>5, <1>8, <2>1, <2>2
<1>10. ASSUME NEW k \in 1 .. r PROVE SplitLines(u)[k] = SplitLines(f)[k]
  <2>1. k \in 1 .. c /\ k \in 0 .. r /\ k - 1 \in 0 .. r /\ k \in 0 .. c /\ k - 1 \in 0 .. c
    BY <1>1, <1>3
  <2>2. SplitLines(u)[k] = SubSeq(u, Cut(u)[k - 1] + 1, Cut(u)[k])
    BY <1>4, <1>8, LinesAre
  <2>3. SplitLines(f)[k] = SubSeq(f, Cut(f)[k - 1] + 1, Cut(f)[k])
    BY <2>1, LinesAre
  <2>4. PICK p \in Nat, w \in Nat :
          p = Cut(f)[k - 1] /\ p + w = Cut(f)[k] /\ p + w <= h
    <3>1. Cut(f)[k - 1] \in Nat /\ Cut(f)[k] \in 1 .. h /\ Cut(f)[k - 1] < Cut(f)[k]
      BY <1>2, <1>5, <2>1, SMTT(40)
    <3>2. Cut(f)[k] - Cut(f)[k - 1] \in Nat /\ Cut(f)[k - 1] + (Cut(f)[k] - Cut(f)[k - 1]) = Cut(f)[k]
      BY <1>3, <3>1
    <3>3. Cut(f)[k] <= h
      BY <3>1
    <3> QED BY <3>1, <3>2, <3>3
  <2>5. Cut(u)[k - 1] = p /\ Cut(u)[k] = p + w
    BY <1>9, <2>1, <2>4
  <2> DEFINE s == SubSeq(u, p + 1, p + w)
             t == SubSeq(f, p + 1, p + w)
  <2>6. p + w <= Len(u) /\ p + w <= Len(f)
    <3>1. Len(u) = h /\ h <= n /\ n = Len(f) /\ p + w <= h
      BY <1>3, <1>4, <2>4
    <3>2. h \in Nat /\ n \in Nat /\ p + w \in Nat
      BY <1>1, <1>3, <2>4
    <3> HIDE DEF n
    <3>3. p + w <= n
      BY <3>1, <3>2
    <3> QED BY <3>1, <3>3, Zenon
  <2>7. s \in Seq(A) /\ Len(s) = w /\ \A x \in 1 .. w : s[x] = u[p + x]
    <3>1. p \in Nat /\ w \in Nat /\ u \in Seq(A) /\ p + w <= Len(u)
      BY <1>4, <2>4, <2>6
    <3>2. LET y == SubSeq(u, p + 1, p + w)
          IN  y \in Seq(A) /\ Len(y) = w /\ \A x \in 1 .. w : y[x] = u[p + x]
      BY <3>1, Part, ZenonT(60)
    <3> QED BY <3>2
  <2>8. t \in Seq(A) /\ Len(t) = w /\ \A x \in 1 .. w : t[x] = f[p + x]
    <3>1. p \in Nat /\ w \in Nat /\ p + w <= Len(f)
      BY <2>4, <2>6
    <3>2. LET y == SubSeq(f, p + 1, p + w)
          IN  y \in Seq(A) /\ Len(y) = w /\ \A x \in 1 .. w : y[x] = f[p + x]
      BY <3>1, Part, ZenonT(60)
    <3> QED BY <3>2
  <2> HIDE DEF s, t
  <2>9. \A x \in 1 .. w : p + x \in 1 .. h
    BY <1>3, <2>4, SMTT(40)
  <2>10. \A x \in 1 .. Len(s) : s[x] = t[x]
    BY <1>4, <2>7, <2>8, <2>9
  <2>11. s = t
    BY <2>7, <2>8, <2>10, SeqEqual
  <2> QED BY <2>2, <2>3, <2>4, <2>5, <2>11 DEF s, t
<1> QED BY <1>10 DEF BeginsAs

\* The other lines of a file are the lines of what is left behind them.
LEMMA OtherLines ==
  ASSUME NEW A, NEW f \in Seq(A), NEW r \in 0 .. Cardinality(Ends(f)),
         NEW v, v = From(f, Cut(f)[r])
  PROVE  v \in Seq(A) /\ GoesOnAs(v, f, r)
<1> DEFINE n == Len(f)
           c == Cardinality(Ends(f))
           m == c - r
           h == Cut(f)[r]
           d == [k \in 1 .. m |-> Cut(f)[r + k] - h]
<1>1. /\ n \in Nat /\ c \in Nat /\ DOMAIN f = 1 .. n
      /\ Ends(f) \in SUBSET (1 .. n) /\ Ends(f) \in SUBSET Nat
  BY EndsFinite, LenProperties
<1>2. /\ Cut(f) \in [0 .. c -> 0 .. n] /\ Cut(f)[c] = n
      /\ \A k \in 1 .. c : Cut(f)[k - 1] < Cut(f)[k]
      /\ \A k \in 1 .. c : Cut(f)[k] \in Ends(f)
  BY CutsInOrder, CutsByRank
<1>3. h \in 0 .. n /\ h \in Nat /\ r \in Nat /\ r <= c /\ m \in Nat /\ r + m = c
  BY <1>1, <1>2
<1>4. v \in Seq(A) /\ Len(v) = n - h /\ \A q \in 1 .. n - h : v[q] = f[h + q]
  <2>1. h + 1 \in 1 .. Len(f) + 1 /\ (Len(f) + 1) - (h + 1) = n - h /\ (h + 1) - 1 = h
    <3> HIDE DEF h
    <3> QED BY <1>1, <1>3
  <2> HIDE DEF h
  <2>2. /\ SubSeq(f, h + 1, Len(f)) \in Seq(A)
        /\ Len(SubSeq(f, h + 1, Len(f))) = (Len(f) + 1) - (h + 1)
        /\ \A q \in 1 .. (Len(f) + 1) - (h + 1) : SubSeq(f, h + 1, Len(f))[q] = f[((h + 1) - 1) + q]
    BY <2>1, Rest
  <2>3. v = SubSeq(f, h + 1, Len(f))
    BY DEF From, h
  <2> QED BY <2>1, <2>2, <2>3
<1>5. \A k \in 0 .. m : r + k \in 0 .. c /\ (k # 0 => r + k \in 1 .. c /\ (r + k) - 1 = r + (k - 1) /\ r < r + k /\ k - 1 \in 0 .. m)
  BY <1>1, <1>3
<1>6. \A k \in 1 .. m : /\ k \in 0 .. m /\ k # 0 /\ Cut(f)[r + k] \in Ends(f)
                        /\ Cut(f)[r + k] \in h + 1 .. n /\ d[k] \in 1 .. n - h /\ h + d[k] = Cut(f)[r + k]
  <2> SUFFICES ASSUME NEW k \in 1 .. m
               PROVE  /\ k \in 0 .. m /\ k # 0 /\ Cut(f)[r + k] \in Ends(f)
                      /\ Cut(f)[r + k] \in h + 1 .. n /\ d[k] \in 1 .. n - h /\ h + d[k] = Cut(f)[r + k]
    OBVIOUS
  <2>1. k \in 0 .. m /\ k # 0
    BY <1>3
  <2>2. r + k \in 1 .. c /\ r < r + k /\ r + k \in 0 .. c
    BY <1>5, <2>1
  <2>3. h < Cut(f)[r + k]
    BY <2>2, CutsGrow
  <2>4. Cut(f)[r + k] \in Ends(f) /\ Cut(f)[r + k] \in 1 .. n
    BY <1>1, <1>2, <2>2
  <2>5. PICK y \in 1 .. n : y = Cut(f)[r + k]
    BY <2>4
  <2>6. d[k] = y - h
    BY <2>5
  <2> HIDE DEF d, h
  <2>7. y \in h + 1 .. n /\ y - h \in 1 .. n - h /\ h + (y - h) = y
    BY <1>1, <1>3, <2>3, <2>5, SMTT(40)
  <2> QED BY <2>1, <2>4, <2>5, <2>6, <2>7
<1>7. \A y \in 1 .. n - h : y \in Ends(v) <=> h + y \in Ends(f)
  <2> SUFFICES ASSUME NEW y \in 1 .. n - h PROVE y \in Ends(v) <=> h + y \in Ends(f)
    OBVIOUS
  <2>1. y \in Ends(v) <=> v[y] = NL \/ y = n - h
    <3>1. DOMAIN v = 1 .. n - h
      BY <1>4, LenProperties
    <3> QED BY <1>4, <3>1 DEF Ends, Newlines
  <2>2. h + y \in 1 .. n /\ v[y] = f[h + y] /\ (y = n - h <=> h + y = n)
    <3>1. h + y \in 1 .. n /\ (y = n - h <=> h + y = n)
      <4>1. n \in Nat /\ h \in 0 .. n /\ y \in 1 .. n - h
        BY <1>1, <1>3
      <4> HIDE DEF h, n
      <4> QED BY <4>1
    <3> QED BY <1>4, <3>1
  <2>3. h + y \in Ends(f) <=> f[h + y] = NL \/ h + y = n
    BY <1>1, <2>2 DEF Ends, Newlines
  <2> QED BY <2>1, <2>2, <2>3
<1>8. ListedBy(Ends(v), m, d)
  <2>1. d \in [1 .. m -> Nat]
    <3>1. \A k \in 1 .. m : Cut(f)[r + k] - h \in Nat
      <4> SUFFICES ASSUME NEW k \in 1 .. m PROVE Cut(f)[r + k] - h \in Nat
        OBVIOUS
      <4>1. Cut(f)[r + k] \in h + 1 .. n
        BY <1>6
      <4> HIDE DEF h
      <4> QED BY <1>1, <1>3, <4>1
    <3> QED BY <3>1
  <2>2. \A j, k \in 1 .. m : j < k => d[j] < d[k]
    <3> SUFFICES ASSUME NEW j \in 1 .. m, NEW k \in 1 .. m, j < k PROVE d[j] < d[k]
      OBVIOUS
    <3>1. r + j < r + k /\ r + j \in 0 .. c /\ r + k \in 0 .. c
      BY <1>3, <1>5, <1>6
    <3>2. Cut(f)[r + j] < Cut(f)[r + k]
      BY <3>1, CutsGrow
    <3>3. h + d[j] < h + d[k]
      BY <1>6, <3>2
    <3>4. d[j] \in Nat /\ d[k] \in Nat
      BY <2>1
    <3> HIDE DEF d, h
    <3> QED BY <1>3, <3>3, <3>4
  <2>3. \A k \in 1 .. m : d[k] \in Ends(v)
    <3> HIDE DEF d, h
    <3> QED BY <1>6, <1>7
  <2>4. \A x \in Ends(v) : \E k \in 1 .. m : x = d[k]
    <3> SUFFICES ASSUME NEW x \in Ends(v) PROVE \E k \in 1 .. m : x = d[k]
      OBVIOUS
    <3>1. x \in 1 .. n - h
      BY <1>4, EndsFinite
    <3>2. h + x \in Ends(f)
      BY <1>7, <3>1
    <3> DEFINE k == Rank(Ends(f), h + x)
    <3>3. k \in 1 .. c /\ Ascending(Ends(f))[k] = h + x
      BY <3>2, EndsFinite, AscendingAt
    <3>4. Cut(f)[k] = h + x
      BY <3>3, CutsInOrder
    <3> HIDE DEF k
    <3>5. r < k
      <4>1. k \in 0 .. c /\ k \in Nat
        BY <1>1, <3>3
      <4>2. k < r => Cut(f)[k] < Cut(f)[r]
        BY <4>1, CutsGrow
      <4>3. x \in Nat /\ x >= 1
        BY <1>1, <1>3, <3>1
      <4>4. ~ (h + x < h) /\ h + x # h
        <5> HIDE DEF h
        <5> QED BY <1>3, <4>3
      <4>5. ~ (k < r)
        BY <3>4, <4>2, <4>4
      <4>6. k # r
        BY <3>4, <4>4
      <4> QED BY <1>3, <4>1, <4>5, <4>6
    <3>6. k - r \in 1 .. m /\ r + (k - r) = k
      BY <1>1, <1>3, <3>3, <3>5
    <3>7. h + d[k - r] = h + x /\ d[k - r] \in Nat
      BY <1>6, <2>1, <3>4, <3>6
    <3>8. x = d[k - r]
      <4>1. x \in Nat
        BY <1>1, <1>3, <3>1
      <4> HIDE DEF d, h
      <4> QED BY <1>3, <3>7, <4>1
    <3> QED BY <3>6, <3>8
  <2> HIDE DEF d
  <2> QED BY <1>3, <2>1, <2>2, <2>3, <2>4 DEF ListedBy
<1> HIDE DEF d, h
<1>9. Cardinality(Ends(v)) = m /\ \A k \in 1 .. m : Ascending(Ends(v))[k] = d[k]
  BY <1>8, AscendingIs
<1>10. \A k \in 0 .. m : Cut(v)[k] + h = Cut(f)[r + k] /\ Cut(v)[k] \in Nat
  <2>1. /\ Cut(v)[0] = 0
        /\ \A k \in 1 .. m : Cut(v)[k] = Ascending(Ends(v))[k]
    BY <1>4, <1>9, CutsInOrder
  <2>2. \A k \in 0 .. m : k = 0 \/ k \in 1 .. m
    BY <1>3
  <2>3. r + 0 = r /\ 0 + h = h
    BY <1>3
  <2>4. \A k \in 1 .. m : d[k] \in Nat /\ d[k] + h = h + d[k]
    <3>1. \A k \in 1 .. m : d[k] \in 1 .. n - h
      BY <1>6
    <3> QED BY <1>1, <1>3, <3>1
  <2> QED BY <1>6, <1>9, <2>1, <2>2, <2>3, <2>4 DEF h
<1>11. ASSUME NEW k \in 1 .. m PROVE SplitLines(v)[k] = SplitLines(f)[r + k]
  <2>1. /\ k \in 0 .. m /\ k - 1 \in 0 .. m /\ r + k \in 1 .. c /\ (r + k) - 1 = r + (k - 1)
        /\ r + k \in 0 .. c
    BY <1>5, <1>6
  <2>2. SplitLines(v)[k] = SubSeq(v, Cut(v)[k - 1] + 1, Cut(v)[k])
    BY <1>4, <1>9, LinesAre
  <2>3. SplitLines(f)[r + k] = SubSeq(f, Cut(f)[(r + k) - 1] + 1, Cut(f)[r + k])
    BY <2>1, LinesAre
  <2>4. PICK p \in Nat, q \in Nat :
          /\ p = Cut(v)[k - 1] /\ q = Cut(v)[k]
          /\ p + h = Cut(f)[(r + k) - 1] /\ q + h = Cut(f)[r + k]
    BY <1>10, <2>1
  <2>5. p + h < q + h /\ q + h <= n
    <3>1. Cut(f)[(r + k) - 1] < Cut(f)[r + k] /\ Cut(f)[r + k] \in 0 .. n
      BY <1>2, <2>1
    <3> QED BY <1>1, <2>4, <3>1
  <2>6. PICK w \in Nat : q = p + w /\ q + h = (p + h) + w
    <3>1. q - p \in Nat /\ q = p + (q - p) /\ q + h = (p + h) + (q - p)
      BY <1>3, <2>5
    <3> QED BY <3>1
  <2> DEFINE s == SubSeq(v, p + 1, p + w)
             t == SubSeq(f, (p + h) + 1, (p + h) + w)
  <2>7. p + w <= Len(v) /\ p + h \in Nat /\ (p + h) + w <= Len(f)
    <3>1. Len(v) = n - h /\ n = Len(f)
      BY <1>4
    <3>2. n \in Nat /\ h \in Nat /\ p \in Nat /\ w \in Nat /\ q + h <= n /\ q = p + w
      BY <1>1, <1>3, <2>5, <2>6
    <3> HIDE DEF n
    <3> QED BY <3>1, <3>2
  <2>8. s \in Seq(A) /\ Len(s) = w /\ \A x \in 1 .. w : s[x] = v[p + x]
    <3>1. p \in Nat /\ w \in Nat /\ v \in Seq(A) /\ p + w <= Len(v)
      BY <1>4, <2>7
    <3>2. LET y == SubSeq(v, p + 1, p + w)
          IN  y \in Seq(A) /\ Len(y) = w /\ \A x \in 1 .. w : y[x] = v[p + x]
      BY <3>1, Part, ZenonT(60)
    <3> QED BY <3>2
  <2>9. t \in Seq(A) /\ Len(t) = w /\ \A x \in 1 .. w : t[x] = f[(p + h) + x]
    <3>1. p + h \in Nat /\ w \in Nat /\ (p + h) + w <= Len(f)
      BY <2>7
    <3>2. LET y == SubSeq(f, (p + h) + 1, (p + h) + w)
          IN  y \in Seq(A) /\ Len(y) = w /\ \A x \in 1 .. w : y[x] = f[(p + h) + x]
      BY <3>1, Part, ZenonT(60)
    <3> QED BY <3>2
  <2> HIDE DEF s, t
  <2>10. \A x \in 1 .. w : p + x \in 1 .. n - h /\ h + (p + x) = (p + h) + x
    BY <1>1, <1>3, <2>5, <2>6
  <2>11. \A x \in 1 .. Len(s) : s[x] = t[x]
    <3> SUFFICES ASSUME NEW x \in 1 .. w PROVE s[x] = t[x]
      BY <2>8
    <3>1. s[x] = v[p + x] /\ t[x] = f[(p + h) + x]
      BY <2>8, <2>9
    <3>2. p + x \in 1 .. n - h /\ h + (p + x) = (p + h) + x
      BY <2>10
    <3>3. v[p + x] = f[h + (p + x)]
      BY <1>4, <3>2
    <3> QED BY <3>1, <3>2, <3>3
  <2>12. s = t
    BY <2>8, <2>9, <2>11, SeqEqual
  <2> QED BY <2>2, <2>3, <2>4, <2>6, <2>12 DEF s, t
<1> QED BY <1>4, <1>9, <1>11 DEF GoesOnAs

------------------------------------------------------------------------------
(* The first complete line that matches. *)

\* A line's last byte is the one it ends at.
LEMMA LineEndsAt ==
  ASSUME NEW A, NEW f \in Seq(A), NEW k \in 1 .. Cardinality(Ends(f))
  PROVE  /\ SplitLines(f)[k] \in Seq(A) /\ Last(SplitLines(f)[k]) = f[Cut(f)[k]]
         /\ Len(SplitLines(f)[k]) \in Nat /\ Len(SplitLines(f)[k]) >= 1
         /\ Cut(f)[k - 1] \in Nat /\ Cut(f)[k] = Cut(f)[k - 1] + Len(SplitLines(f)[k])
<1> DEFINE c == Cardinality(Ends(f))
           n == Len(f)
<1>1. n \in Nat /\ c \in Nat /\ k \in 0 .. c /\ k - 1 \in 0 .. c
  BY EndsFinite, LenProperties
<1>2. PICK p \in 0 .. n, q \in 0 .. n : p = Cut(f)[k - 1] /\ q = Cut(f)[k] /\ p < q
  <2>1. Cut(f)[k - 1] \in 0 .. n /\ Cut(f)[k] \in 0 .. n /\ Cut(f)[k - 1] < Cut(f)[k]
    BY <1>1, CutsInOrder
  <2> QED BY <2>1
<1> HIDE DEF n
<1>3. PICK w \in Nat : q = p + w /\ w >= 1 /\ p + w <= n /\ p \in Nat
  <2>1. q - p \in Nat /\ q = p + (q - p) /\ q - p >= 1 /\ p + (q - p) <= n /\ p \in Nat
    BY <1>1, <1>2, SMTT(40)
  <2> QED BY <2>1
<1> DEFINE s == SubSeq(f, p + 1, p + w)
<1>4. s \in Seq(A) /\ Len(s) = w /\ \A x \in 1 .. w : s[x] = f[p + x]
  <2>1. p \in Nat /\ w \in Nat /\ p + w <= Len(f)
    BY <1>3 DEF n
  <2>2. LET y == SubSeq(f, p + 1, p + w)
        IN  y \in Seq(A) /\ Len(y) = w /\ \A x \in 1 .. w : y[x] = f[p + x]
    BY <2>1, Part, ZenonT(60)
  <2> QED BY <2>2
<1>5. SplitLines(f)[k] = s
  BY <1>2, <1>3, LinesAre
<1> HIDE DEF s
<1>6. w \in 1 .. w
  BY <1>3
<1>7. Last(s) = f[p + w]
  BY <1>4, <1>6 DEF Last
<1> QED BY <1>2, <1>3, <1>4, <1>5, <1>7

\* The complete lines are those that the newlines end, the first ones.
LEMMA CompleteLines ==
  ASSUME NEW A, NEW f \in Seq(A), NEW k \in 1 .. Cardinality(Ends(f))
  PROVE  /\ Complete(SplitLines(f)[k]) <=> f[Cut(f)[k]] = NL
         /\ Complete(SplitLines(f)[k]) <=> k <= Cardinality(Newlines(f))
<1> DEFINE N == Newlines(f)
           E == Ends(f)
           c == Cardinality(E)
           m == Cardinality(N)
           x == Cut(f)[k]
<1>1. /\ N \in SUBSET Nat /\ IsFiniteSet(N) /\ m \in Nat /\ c \in Nat /\ m <= c
      /\ DOMAIN f = 1 .. Len(f) /\ Len(f) \in Nat
  BY NewlinesFinite, EndsFinite, FirstEnds
<1>2. Complete(SplitLines(f)[k]) <=> f[x] = NL
  BY LineEndsAt DEF Complete
<1>3. x \in E /\ x \in 1 .. Len(f) /\ x = Ascending(E)[k] /\ Rank(E, x) = k
  <2>1. k \in 0 .. c
    BY <1>1
  <2>2. x \in E /\ x = Ascending(E)[k] /\ Rank(E, x) = k
    BY <2>1, CutsInOrder, CutsByRank
  <2> QED BY <2>2, EndsFinite
<1>4. f[x] = NL <=> x \in N
  BY <1>1, <1>3 DEF Newlines
<1> HIDE DEF x, N, E, c, m
<1>5. k <= m => x \in N
  <2> SUFFICES ASSUME k <= m PROVE x \in N
    OBVIOUS
  <2>1. k \in 1 .. m
    BY <1>1
  <2>2. Ascending(N)[k] \in N
    BY <1>1, <2>1, AscendingOrder DEF m
  <2>3. Ascending(E)[k] = Ascending(N)[k]
    BY <2>1, FirstEnds DEF N, E, m
  <2> QED BY <1>3, <2>2, <2>3
<1>6. x \in N => k <= m
  <2> SUFFICES ASSUME x \in N PROVE k <= m
    OBVIOUS
  <2>1. Rank(N, x) \in 1 .. m /\ Ascending(N)[Rank(N, x)] = x
    BY <1>1, AscendingAt DEF m
  <2>2. PICK r \in 1 .. m : r = Rank(N, x)
    BY <2>1
  <2>3. Ascending(E)[r] = x
    BY <2>1, <2>2, FirstEnds DEF N, E, m
  <2>4. r \in 1 .. c /\ r \in 0 .. c
    BY <1>1
  <2>5. Cut(f)[r] = x /\ Rank(E, Cut(f)[r]) = r
    BY <2>3, <2>4, CutsInOrder, CutsByRank DEF E, c
  <2>6. r = k
    BY <1>3, <2>5
  <2> QED BY <1>1, <2>2, <2>6
<1> QED BY <1>2, <1>4, <1>5, <1>6 DEF x, m, N

------------------------------------------------------------------------------
\* the places of the lines that wait is to find
LineHits(f) ==
  LET lines == SplitLines(f)
  IN  {k \in DOMAIN lines : Complete(lines[k]) /\ IsMatch(<<"m", "m">>, Front(lines[k]))}

\* the first of these lines
FirstHit(f) == IF LineHits(f) = {} THEN None ELSE Front(SplitLines(f)[Min(LineHits(f))])

\* Such a line is one of the lines that a newline ends.
LEMMA HitsAre ==
  ASSUME NEW A, NEW f \in Seq(A)
  PROVE  /\ LineHits(f) \in SUBSET (1 .. Cardinality(Newlines(f))) /\ LineHits(f) \in SUBSET Nat
         /\ LineHits(f) \in SUBSET (1 .. Cardinality(Ends(f)))
         /\ \A k \in 1 .. Cardinality(Newlines(f)) :
              k \in LineHits(f) <=> IsMatch(<<"m", "m">>, Front(SplitLines(f)[k]))
<1>1. DOMAIN SplitLines(f) = 1 .. Cardinality(Ends(f))
  BY LinesAre, LenProperties
<1>2. Cardinality(Newlines(f)) \in Nat /\ Cardinality(Ends(f)) \in Nat
      /\ Cardinality(Newlines(f)) <= Cardinality(Ends(f))
  BY NewlinesFinite, EndsFinite, FirstEnds
<1>3. ASSUME NEW k \in LineHits(f)
      PROVE  k \in 1 .. Cardinality(Newlines(f)) /\ k \in Nat /\ k \in 1 .. Cardinality(Ends(f))
  <2>1. k \in 1 .. Cardinality(Ends(f)) /\ Complete(SplitLines(f)[k])
    BY <1>1 DEF LineHits
  <2>2. k <= Cardinality(Newlines(f))
    BY <2>1, CompleteLines
  <2> QED BY <1>2, <2>1, <2>2
<1>4. ASSUME NEW k \in 1 .. Cardinality(Newlines(f))
      PROVE  k \in LineHits(f) <=> IsMatch(<<"m", "m">>, Front(SplitLines(f)[k]))
  <2>1. k \in 1 .. Cardinality(Ends(f)) /\ k <= Cardinality(Newlines(f))
    BY <1>2
  <2>2. Complete(SplitLines(f)[k])
    BY <2>1, CompleteLines
  <2> QED BY <1>1, <2>1, <2>2 DEF LineHits
<1> QED BY <1>3, <1>4

\* What is put behind a file leaves its complete lines as they are.
LEMMA LinesStay ==
  ASSUME NEW A, NEW x \in Seq(A), NEW z \in Seq(A), NEW y, y = x \o z
  PROVE  LET r == Cardinality(Newlines(x))
         IN  /\ r \in 0 .. Cardinality(Ends(y)) /\ Cut(y)[r] = Cut(x)[r]
             /\ \A k \in 1 .. r : /\ SplitLines(y)[k] = SplitLines(x)[k]
                                  /\ Complete(SplitLines(y)[k])
<1> DEFINE r == Cardinality(Newlines(x))
           n == Len(x)
           h == Cut(x)[r]
<1>1. /\ y \in Seq(A) /\ n \in Nat /\ Len(z) \in Nat /\ Len(y) = n + Len(z)
      /\ \A k \in 1 .. n : y[k] = x[k]
  <2>1. /\ y \in Seq(A) /\ Len(y) = n + Len(z)
        /\ \A k \in 1 .. n + Len(z) : y[k] = IF k <= n THEN x[k] ELSE z[k - n]
    BY ConcatProperties
  <2>2. n \in Nat /\ Len(z) \in Nat
    BY LenProperties
  <2>3. \A k \in 1 .. n : k \in 1 .. n + Len(z) /\ k <= n
    BY <2>2
  <2> HIDE DEF n
  <2> QED BY <2>1, <2>2, <2>3
<1>2. /\ r \in Nat /\ r <= Cardinality(Ends(x)) /\ Cardinality(Ends(x)) \in Nat
      /\ Cardinality(Ends(y)) \in Nat
  BY <1>1, NewlinesFinite, EndsFinite, FirstEnds
<1>3. r \in 0 .. Cardinality(Ends(x))
  BY <1>2
<1>4. ASSUME r > 0
      PROVE  r \in 1 .. Cardinality(Ends(y)) /\ Cut(y)[r] = h
  <2>1. r \in 1 .. Cardinality(Ends(x)) /\ r <= r
    BY <1>2, <1>4
  <2>2. x[h] = NL /\ h \in 1 .. n /\ h \in Ends(x) /\ Rank(Ends(x), h) = r
    <3>1. x[h] = NL
      BY <2>1, CompleteLines
    <3>2. h \in Ends(x) /\ Rank(Ends(x), h) = r
      BY <1>3, <2>1, CutsByRank
    <3> QED BY <3>1, <3>2, EndsFinite
  <2> HIDE DEF h
  <2>3. {e \in Ends(x) : e <= h} = {e \in Ends(y) : e <= h}
    <3>1. ASSUME NEW e \in 1 .. h PROVE e \in Ends(x) <=> e \in Ends(y)
      <4>1. e \in 1 .. n /\ e \in 1 .. Len(y) /\ y[e] = x[e] /\ (e = n => e = h) /\ (e = Len(y) => e = h)
        BY <1>1, <2>2
      <4>2. DOMAIN x = 1 .. n /\ DOMAIN y = 1 .. Len(y)
        BY <1>1, LenProperties
      <4>3. e \in Ends(x) <=> x[e] = NL \/ e = n
        BY <4>1, <4>2 DEF Ends, Newlines
      <4>4. e \in Ends(y) <=> y[e] = NL \/ e = Len(y)
        BY <4>1, <4>2 DEF Ends, Newlines
      <4> QED BY <2>2, <4>1, <4>3, <4>4
    <3>2. \A e \in Ends(x) : e <= h => e \in 1 .. h
      <4>1. \A e \in Ends(x) : e \in 1 .. n
        BY EndsFinite
      <4> QED BY <1>1, <2>2, <4>1
    <3>3. \A e \in Ends(y) : e <= h => e \in 1 .. h
      <4>1. \A e \in Ends(y) : e \in 1 .. Len(y)
        BY <1>1, EndsFinite
      <4> QED BY <1>1, <2>2, <4>1
    <3> QED BY <3>1, <3>2, <3>3
  <2>4. Rank(Ends(y), h) = r
    BY <2>2, <2>3 DEF Rank
  <2>5. h \in Ends(y)
    <3>1. h \in {e \in Ends(x) : e <= h}
      BY <1>1, <2>2
    <3> QED BY <2>3, <3>1
  <2>6. r \in 1 .. Cardinality(Ends(y)) /\ Ascending(Ends(y))[r] = h
    <3>1. Ends(y) \in SUBSET Nat /\ IsFiniteSet(Ends(y))
      BY <1>1, EndsFinite
    <3> QED BY <2>4, <2>5, <3>1, AscendingAt, SMTT(40)
  <2> QED BY <1>1, <2>6, CutsInOrder
<1>5. r \in 0 .. Cardinality(Ends(y)) /\ Cut(y)[r] = h
  <2>1. CASE r > 0
    <3>1. r \in 1 .. Cardinality(Ends(y)) /\ Cut(y)[r] = h
      BY <1>4, <2>1
    <3> HIDE DEF r
    <3> QED BY <1>2, <3>1
  <2>2. CASE r = 0
    <3>1. Cut(y)[0] = 0 /\ Cut(x)[0] = 0
      BY <1>1, CutsInOrder
    <3>2. 0 \in 0 .. Cardinality(Ends(y))
      BY <1>2
    <3> QED BY <2>2, <3>1, <3>2
  <2>3. r > 0 \/ r = 0
    BY <1>2
  <2> QED BY <2>1, <2>2, <2>3
<1>6. h \in 0 .. n
  BY <1>3, CutsInOrder
<1>7. SubSeq(x, 1, h) = SubSeq(y, 1, h)
  <2> HIDE DEF h
  <2>0. h \in Nat /\ h <= n /\ h <= Len(y)
    BY <1>1, <1>6
  <2>1. /\ 1 \in Nat /\ 1 > 0 /\ 1 <= h + 1 /\ (h + 1) - 1 = h /\ \A q \in 1 .. h : (1 - 1) + q = q
    BY <2>0
  <2>2. SubSeq(x, 1, h) \in Seq(A) /\ Len(SubSeq(x, 1, h)) = h
        /\ \A q \in 1 .. (h + 1) - 1 : SubSeq(x, 1, h)[q] = x[(1 - 1) + q]
    BY <2>0, <2>1, BufPart
  <2>3. SubSeq(y, 1, h) \in Seq(A) /\ Len(SubSeq(y, 1, h)) = h
        /\ \A q \in 1 .. (h + 1) - 1 : SubSeq(y, 1, h)[q] = y[(1 - 1) + q]
    BY <1>1, <2>0, <2>1, BufPart
  <2>4. \A q \in 1 .. Len(SubSeq(x, 1, h)) : SubSeq(x, 1, h)[q] = SubSeq(y, 1, h)[q]
    <3>1. \A q \in 1 .. h : q \in 1 .. n
      BY <1>1, <2>0
    <3> QED BY <1>1, <2>1, <2>2, <2>3, <3>1
  <2> QED BY <2>2, <2>3, <2>4, SeqEqual
<1>8. ASSUME NEW k \in 1 .. r
      PROVE  SplitLines(y)[k] = SplitLines(x)[k] /\ Complete(SplitLines(y)[k])
  <2> DEFINE u == SubSeq(x, 1, h)
  <2>1. /\ u = SubSeq(x, 1, Cut(x)[r]) /\ r \in 0 .. Cardinality(Ends(x)) /\ k \in 1 .. r
        /\ u = SubSeq(y, 1, Cut(y)[r]) /\ r \in 0 .. Cardinality(Ends(y)) /\ y \in Seq(A)
    BY <1>1, <1>3, <1>5, <1>7
  <2>2. SplitLines(u)[k] = SplitLines(x)[k] /\ SplitLines(u)[k] = SplitLines(y)[k]
    <3> HIDE DEF u, r
    <3>1. BeginsAs(u, x, r) /\ BeginsAs(u, y, r)
      BY <2>1, FirstLines
    <3> QED BY <2>1, <3>1 DEF BeginsAs
  <2>3. Complete(SplitLines(x)[k])
    <3>1. k \in 1 .. Cardinality(Ends(x)) /\ k <= r
      BY <1>2
    <3> QED BY <3>1, CompleteLines
  <2> QED BY <2>2, <2>3
<1> QED BY <1>5, <1>8

\* the first line that matches, of x and of what goes on from x
SplitsAs(x, y) ==
  FirstHit(y) = IF LineHits(x) # {} THEN FirstHit(x)
                ELSE FirstHit(From(y, Cut(x)[Cardinality(Newlines(x))]))

\* Whether it is among the complete lines of the first part or the lines behind
\* them, the first hit is the same.
LEMMA FirstHitSplits ==
  ASSUME NEW A, NEW x \in Seq(A), NEW z \in Seq(A)
  PROVE  SplitsAs(x, x \o z)
<1>0. PICK y, h : y = x \o z /\ h = Cut(x)[Cardinality(Newlines(x))]
  OBVIOUS
<1> SUFFICES FirstHit(y) = IF LineHits(x) # {} THEN FirstHit(x) ELSE FirstHit(From(y, h))
  BY <1>0 DEF SplitsAs
<1> DEFINE r == Cardinality(Newlines(x))
           c == Cardinality(Ends(y))
           m == c - r
           v == From(y, h)
           X == LineHits(x)
           Y == LineHits(y)
           V == LineHits(v)
<1>1. y \in Seq(A)
  BY <1>0, ConcatProperties
<1>2. /\ r \in 0 .. c /\ h = Cut(y)[r]
      /\ \A k \in 1 .. r : SplitLines(y)[k] = SplitLines(x)[k] /\ Complete(SplitLines(y)[k])
  BY <1>0, LinesStay
<1>3. r \in Nat /\ c \in Nat /\ m \in Nat /\ r + m = c /\ r <= c
  <2>1. r \in Nat /\ c \in Nat
    BY <1>1, NewlinesFinite, EndsFinite
  <2> HIDE DEF r, c
  <2> QED BY <1>2, <2>1
<1>4. /\ v \in Seq(A) /\ Cardinality(Ends(v)) = m
      /\ \A k \in 1 .. m : SplitLines(v)[k] = SplitLines(y)[r + k]
  <2>1. v = From(y, Cut(y)[r]) /\ r \in 0 .. Cardinality(Ends(y))
    BY <1>2
  <2>2. v \in Seq(A) /\ GoesOnAs(v, y, r)
    <3> HIDE DEF v, r
    <3> QED BY <1>1, <2>1, OtherLines
  <2> QED BY <2>2 DEF GoesOnAs
<1>5. /\ X \in SUBSET (1 .. r) /\ X \in SUBSET Nat /\ Y \in SUBSET (1 .. c) /\ Y \in SUBSET Nat
      /\ V \in SUBSET (1 .. m) /\ V \in SUBSET Nat
  BY <1>1, <1>4, HitsAre
<1>6. \A k \in 1 .. c : k \in Y <=> /\ Complete(SplitLines(y)[k])
                                    /\ IsMatch(<<"m", "m">>, Front(SplitLines(y)[k]))
  <2>1. DOMAIN SplitLines(y) = 1 .. c
    BY <1>1, LinesAre, LenProperties
  <2> QED BY <2>1 DEF LineHits
<1>7. \A k \in 1 .. m : k \in V <=> /\ Complete(SplitLines(v)[k])
                                    /\ IsMatch(<<"m", "m">>, Front(SplitLines(v)[k]))
  <2>1. DOMAIN SplitLines(v) = 1 .. m
    BY <1>4, LinesAre, LenProperties
  <2> QED BY <2>1 DEF LineHits
<1>8. \A k \in 1 .. r : k \in X <=> k \in Y
  <2> SUFFICES ASSUME NEW k \in 1 .. r PROVE k \in X <=> k \in Y
    OBVIOUS
  <2>1. k \in X <=> IsMatch(<<"m", "m">>, Front(SplitLines(x)[k]))
    BY HitsAre
  <2>2. k \in 1 .. c
    BY <1>3
  <2> QED BY <1>2, <1>6, <2>1, <2>2
<1>9. \A k \in 1 .. m : k \in V <=> r + k \in Y
  <2> SUFFICES ASSUME NEW k \in 1 .. m PROVE k \in V <=> r + k \in Y
    OBVIOUS
  <2>1. r + k \in 1 .. c
    BY <1>3
  <2> QED BY <1>4, <1>6, <1>7, <2>1
<1> HIDE DEF r, c, m, v, X, Y, V
<1>10. ASSUME X # {} PROVE Y # {} /\ Min(Y) = Min(X) /\ Min(X) \in 1 .. r
  <2>1. PICK a \in X : a = Min(X) /\ \A b \in X : a <= b
    BY <1>5, <1>10, LeastOf
  <2>2. a \in 1 .. r /\ a \in Y
    BY <1>5, <1>8
  <2>3. \A b \in Y : a <= b
    <3> SUFFICES ASSUME NEW b \in Y PROVE a <= b
      OBVIOUS
    <3>1. b \in Nat /\ b >= 1
      BY <1>3, <1>5
    <3>2. b \in 1 .. r => a <= b
      BY <1>8, <2>1
    <3> QED BY <1>3, <2>2, <3>1, <3>2
  <2>4. Min(Y) = a
    BY <1>5, <2>2, <2>3, MinIs
  <2> QED BY <2>1, <2>2, <2>4
<1>11. ASSUME X = {} PROVE \A b \in Y : b - r \in V /\ r + (b - r) = b
  <2> SUFFICES ASSUME NEW b \in Y PROVE b - r \in V /\ r + (b - r) = b
    OBVIOUS
  <2>1. b \in 1 .. c /\ b \notin 1 .. r
    BY <1>5, <1>8, <1>11
  <2>2. b - r \in 1 .. m /\ r + (b - r) = b
    BY <1>3, <2>1
  <2> QED BY <1>9, <2>2
<1>12. ASSUME X = {}, V # {} PROVE Y # {} /\ Min(Y) = r + Min(V) /\ Min(V) \in 1 .. m
  <2>1. PICK a \in V : a = Min(V) /\ \A b \in V : a <= b
    BY <1>5, <1>12, LeastOf
  <2>2. a \in 1 .. m /\ r + a \in Y
    BY <1>5, <1>9
  <2>3. \A b \in Y : r + a <= b
    <3> SUFFICES ASSUME NEW b \in Y PROVE r + a <= b
      OBVIOUS
    <3>1. b - r \in V /\ r + (b - r) = b
      BY <1>11, <1>12
    <3>2. a <= b - r /\ b - r \in 1 .. m
      BY <1>5, <2>1, <3>1
    <3>3. b \in Nat
      BY <1>5
    <3> QED BY <1>3, <2>2, <3>2, <3>3
  <2>4. Min(Y) = r + a
    BY <1>5, <2>2, <2>3, MinIs
  <2> QED BY <2>1, <2>2, <2>4
<1>13. CASE X # {}
  <2>1. FirstHit(y) = Front(SplitLines(y)[Min(Y)]) /\ FirstHit(x) = Front(SplitLines(x)[Min(X)])
    BY <1>10, <1>13 DEF FirstHit, X, Y
  <2>2. SplitLines(y)[Min(X)] = SplitLines(x)[Min(X)]
    BY <1>2, <1>10, <1>13
  <2>3. FirstHit(y) = FirstHit(x)
    BY <1>10, <1>13, <2>1, <2>2
  <2> QED BY <1>13, <2>3 DEF X
<1>14. CASE X = {} /\ V # {}
  <2>1. FirstHit(y) = Front(SplitLines(y)[Min(Y)]) /\ FirstHit(v) = Front(SplitLines(v)[Min(V)])
    BY <1>12, <1>14 DEF FirstHit, V, Y
  <2>2. SplitLines(v)[Min(V)] = SplitLines(y)[r + Min(V)]
    BY <1>4, <1>12, <1>14
  <2>3. FirstHit(y) = FirstHit(v)
    BY <1>12, <1>14, <2>1, <2>2
  <2> QED BY <1>14, <2>3 DEF X, v
<1>15. CASE X = {} /\ V = {}
  <2>1. Y = {}
    BY <1>11, <1>15
  <2>2. FirstHit(y) = None /\ FirstHit(v) = None
    BY <1>15, <2>1 DEF FirstHit, Y, V
  <2> QED BY <1>15, <2>2 DEF X, v
<1> QED BY <1>13, <1>14, <1>15

------------------------------------------------------------------------------
(* The pattern in the body of a line. *)

\* A line without its last byte.
LEMMA FrontIs ==
  ASSUME NEW A, NEW s \in Seq(A), Len(s) >= 1
  PROVE  /\ Front(s) \in Seq(A) /\ Len(s) \in Nat /\ Len(Front(s)) \in Nat
         /\ Len(Front(s)) + 1 = Len(s)
<1> DEFINE n == Len(s)
<1>1. n \in Nat /\ n >= 1
  BY LenProperties
<1>2. n - 1 \in 0 .. n /\ (n - 1) + 1 = n /\ n - 1 \in Nat
  <2> HIDE DEF n
  <2> QED BY <1>1
<1>3. SubSeq(s, 1, n - 1) \in Seq(A) /\ Len(SubSeq(s, 1, n - 1)) = n - 1
  BY <1>2, PartType
<1> QED BY <1>1, <1>2, <1>3 DEF Front

\* The cursor of a wait passes lines with their newlines.
LEMMA PassedBytes ==
  ASSUME NEW A, NEW f \in Seq(A), NEW n, n = Cardinality(Newlines(f)),
         NEW lines, lines = [k \in 1 .. n |-> Front(SplitLines(f)[k])]
  PROVE  /\ lines \in Seq(Seq(A)) /\ Len(lines) = n /\ n \in Nat
         /\ Len(FlattenSeq(lines)) + n = Cut(f)[n]
<1>1. n \in Nat /\ n <= Cardinality(Ends(f)) /\ Cardinality(Ends(f)) \in Nat
  BY NewlinesFinite, EndsFinite, FirstEnds
<1>2. ASSUME NEW k \in 1 .. n
      PROVE  /\ lines[k] \in Seq(A) /\ Len(lines[k]) \in Nat
             /\ Cut(f)[k - 1] \in Nat /\ Cut(f)[k] = Cut(f)[k - 1] + (Len(lines[k]) + 1)
  <2>1. k \in 1 .. Cardinality(Ends(f))
    BY <1>1
  <2> DEFINE l == SplitLines(f)[k]
  <2>2. /\ l \in Seq(A) /\ Len(l) >= 1
        /\ Cut(f)[k - 1] \in Nat /\ Cut(f)[k] = Cut(f)[k - 1] + Len(l)
    BY <2>1, LineEndsAt
  <2> HIDE DEF l
  <2>3. Front(l) \in Seq(A) /\ Len(Front(l)) \in Nat /\ Len(Front(l)) + 1 = Len(l)
    BY <2>2, FrontIs
  <2> QED BY <2>2, <2>3 DEF l
<1>3. lines \in Seq(Seq(A)) /\ Len(lines) = n
  <2>1. lines \in [1 .. n -> Seq(A)]
    BY <1>2
  <2> QED BY <1>1, <2>1, SeqOfLength
<1>4. PICK st \in [0 .. n -> Seq(A)] : Flattens(lines, st) /\ FlattenSeq(lines) = st[n]
  BY <1>3, FlattenSteps
<1> DEFINE M == {k \in Nat : k <= n => Len(st[k]) + k = Cut(f)[k]}
<1>5. 0 \in M
  <2>1. Cut(f)[0] = 0
    BY CutsInOrder
  <2>2. st[0] = <<>>
    BY <1>4 DEF Flattens
  <2> QED BY <2>1, <2>2, EmptySeq
<1>6. ASSUME NEW k \in Nat, k \in M PROVE k + 1 \in M
  <2> SUFFICES ASSUME k + 1 <= n PROVE Len(st[k + 1]) + (k + 1) = Cut(f)[k + 1]
    <3>1. k + 1 \in Nat
      OBVIOUS
    <3> QED BY <3>1, Zenon
  <2>1. k + 1 \in 1 .. n /\ (k + 1) - 1 = k /\ k <= n /\ k \in 0 .. n
    BY <1>1
  <2>2. st[k + 1] = st[k] \o lines[k + 1]
    BY <1>3, <1>4, <2>1 DEF Flattens
  <2>3. lines[k + 1] \in Seq(A) /\ st[k] \in Seq(A)
    BY <1>2, <1>4, <2>1
  <2>4. Len(st[k + 1]) = Len(st[k]) + Len(lines[k + 1]) /\ Len(st[k]) \in Nat
    BY <2>2, <2>3, ConcatProperties, LenProperties
  <2>5. Cut(f)[k + 1] = Cut(f)[k] + (Len(lines[k + 1]) + 1) /\ Len(lines[k + 1]) \in Nat
    BY <1>2, <2>1
  <2>6. Len(st[k]) + k = Cut(f)[k]
    BY <1>6, <2>1
  <2> HIDE DEF M
  <2> DEFINE a == Len(st[k])
             b == Len(lines[k + 1])
             d == Len(st[k + 1])
             p == Cut(f)[k]
             q == Cut(f)[k + 1]
  <2>7. d = a + b /\ q = p + (b + 1) /\ a + k = p /\ a \in Nat /\ b \in Nat
    BY <2>4, <2>5, <2>6
  <2> HIDE DEF a, b, d, p, q
  <2>8. d + (k + 1) = q
    BY <2>7
  <2> QED BY <2>8 DEF d, q
<1>7. n \in M
  <2>1. Nat \subseteq M
    <3> HIDE DEF M
    <3> QED BY <1>5, <1>6, SetInduction
  <2> QED BY <1>1, <2>1
<1> QED BY <1>1, <1>3, <1>4, <1>7

\* The places where two bytes match.
LEMMA MatchPair ==
  ASSUME NEW A, NEW s \in Seq(A), NEW b
  PROVE  IsMatch(<<b, b>>, s) <=> \E k \in 1 .. Len(s) - 1 : s[k] = b /\ s[k + 1] = b
<1>1. Len(s) \in Nat /\ Len(<<b, b>>) = 2
  BY LenProperties
<1>2. ASSUME NEW k \in 0 .. Len(s) - 2
      PROVE  SubSeq(s, k + 1, k + 2) = <<b, b>> <=> s[k + 1] = b /\ s[k + 2] = b
  <2> DEFINE t == SubSeq(s, k + 1, k + 2)
  <2>1. k \in Nat /\ 2 \in Nat /\ k + 2 <= Len(s)
    BY <1>1
  <2>2. t \in Seq(A) /\ Len(t) = 2 /\ \A j \in 1 .. 2 : t[j] = s[k + j]
    BY <2>1, Part
  <2> HIDE DEF t
  <2>3. t[1] = s[k + 1] /\ t[2] = s[k + 2]
    <3>1. 1 \in 1 .. 2 /\ 2 \in 1 .. 2
      OBVIOUS
    <3> QED BY <2>2, <3>1, Zenon
  <2>4. t = <<t[1], t[2]>>
    BY <2>2
  <2>5. t = <<b, b>> <=> t[1] = b /\ t[2] = b
    BY <2>4
  <2> QED BY <2>3, <2>5 DEF t
<1>3. ASSUME NEW k \in 0 .. Len(s) - 2, SubSeq(s, k + 1, k + 2) = <<b, b>>
      PROVE  \E j \in 1 .. Len(s) - 1 : s[j] = b /\ s[j + 1] = b
  <2>1. k + 1 \in 1 .. Len(s) - 1 /\ (k + 1) + 1 = k + 2
    BY <1>1
  <2>2. s[k + 1] = b /\ s[k + 2] = b
    BY <1>2, <1>3
  <2>3. s[(k + 1) + 1] = b
    BY <2>1, <2>2
  <2> QED BY <2>1, <2>2, <2>3
<1>4. ASSUME NEW j \in 1 .. Len(s) - 1, s[j] = b, s[j + 1] = b
      PROVE  \E k \in 0 .. Len(s) - 2 : SubSeq(s, k + 1, k + 2) = <<b, b>>
  <2>1. j - 1 \in 0 .. Len(s) - 2 /\ (j - 1) + 1 = j /\ (j - 1) + 2 = j + 1
    BY <1>1
  <2>2. s[(j - 1) + 1] = b /\ s[(j - 1) + 2] = b
    BY <1>4, <2>1
  <2>3. SubSeq(s, (j - 1) + 1, (j - 1) + 2) = <<b, b>>
    BY <1>2, <2>1, <2>2
  <2> QED BY <2>1, <2>3
<1>5. IsMatch(<<b, b>>, s) <=> \E k \in 0 .. Len(s) - 2 : SubSeq(s, k + 1, k + 2) = <<b, b>>
  BY <1>1 DEF IsMatch
<1> QED BY <1>3, <1>4, <1>5

\* The prefix of a line holds no other byte than brackets, digits and a space.
LEMMA PrefixBytes ==
  ASSUME NEW A, NEW l \in Seq(A), ParseMsPrefix(l) # None
  PROVE  LET b == ParseMsPrefix(l).body
         IN  b \in 0 .. Len(l) /\ \A x \in 1 .. b : l[x] # "m"
<1> DEFINE closes == {j \in DOMAIN l : l[j] = "]"}
           n == Len(l)
           c == Min(closes)
           inner == SubSeq(l, 2, c - 1)
           b == ParseMsPrefix(l).body
<1>1. n \in Nat /\ DOMAIN l = 1 .. n
  BY LenProperties
<1>2. /\ closes # {} /\ b = BodyStart(l, c) /\ l[1] = "["
      /\ Range(inner) \subseteq Range(Digits)
  BY DEF ParseMsPrefix
<1>3. closes \in SUBSET Nat
  BY <1>1
<1>4. c \in closes
  <2> HIDE DEF closes
  <2> QED BY <1>2, <1>3, LeastOf
<1>5. c \in 1 .. n /\ l[c] = "]"
  BY <1>1, <1>4
<1>6. c >= 2
  <2>1. c # 1
    BY <1>2, <1>5
  <2> HIDE DEF c, n
  <2> QED BY <1>1, <1>5, <2>1
<1>7. b \in 0 .. n
  BY BodyAt
<1> HIDE DEF c, n, inner, closes
<1>8. /\ Len(inner) = c - 2 /\ inner \in Seq(A) /\ \A x \in 1 .. c - 2 : inner[x] = l[1 + x]
  <2>1. 2 \in Nat /\ 2 > 0 /\ c - 1 \in Nat /\ 2 <= (c - 1) + 1 /\ c - 1 <= n
        /\ ((c - 1) + 1) - 2 = c - 2 /\ 2 - 1 = 1
    BY <1>1, <1>5, <1>6
  <2>2. /\ SubSeq(l, 2, c - 1) \in Seq(A) /\ Len(SubSeq(l, 2, c - 1)) = ((c - 1) + 1) - 2
        /\ \A x \in 1 .. ((c - 1) + 1) - 2 : SubSeq(l, 2, c - 1)[x] = l[(2 - 1) + x]
    BY <2>1, BufPart DEF n
  <2> QED BY <2>1, <2>2 DEF inner
<1>9. \A d \in Range(Digits) : d # "m"
  <2>1. /\ Digits[1] # "m" /\ Digits[2] # "m" /\ Digits[3] # "m" /\ Digits[4] # "m"
        /\ Digits[5] # "m" /\ Digits[6] # "m" /\ Digits[7] # "m" /\ Digits[8] # "m"
        /\ Digits[9] # "m"
    BY DEF Digits
  <2>2. DOMAIN Digits = {1, 2, 3, 4, 5, 6, 7, 8, 9}
    BY DEF Digits
  <2> QED BY <2>1, <2>2 DEF Range
<1>10. ASSUME NEW x \in 1 .. c PROVE l[x] # "m"
  <2>1. x = 1 \/ x = c \/ x \in 2 .. c - 1
    BY <1>1, <1>5
  <2>2. ASSUME x \in 2 .. c - 1 PROVE l[x] # "m"
    <3>1. x - 1 \in 1 .. c - 2 /\ 1 + (x - 1) = x
      BY <1>1, <1>5, <2>2
    <3>2. inner[x - 1] = l[x] /\ x - 1 \in DOMAIN inner
      BY <1>8, <3>1, LenProperties
    <3>3. l[x] \in Range(inner)
      BY <3>2 DEF Range
    <3> QED BY <1>2, <1>9, <3>3
  <2> QED BY <1>2, <1>5, <2>1, <2>2
<1>11. b = c \/ (b = c + 1 /\ l[c + 1] = " ")
  BY <1>2 DEF BodyStart
<1> HIDE DEF b
<1>12. c \in Nat
  BY <1>1, <1>5
<1>13. ASSUME NEW x \in 1 .. b PROVE l[x] # "m"
  <2>1. CASE b = c
    BY <1>10, <2>1
  <2>2. CASE b = c + 1 /\ l[c + 1] = " "
    <3>1. x \in 1 .. c + 1
      BY <2>2
    <3>2. x \in 1 .. c \/ x = c + 1
      BY <1>12, <3>1
    <3> QED BY <1>10, <2>2, <3>2
  <2> QED BY <1>11, <2>1, <2>2
<1> QED BY <1>7, <1>13 DEF n, b

\* Without its prefix a line matches when it does with it.
LEMMA PatternInBody ==
  ASSUME NEW A, NEW l \in Seq(A), NEW o, o.full = FALSE, o.pattern = <<"m", "m">>
  PROVE  Matches(l, o) <=> IsMatch(<<"m", "m">>, l)
<1> DEFINE P == <<"m", "m">>
           n == Len(l)
           b == ParseMsPrefix(l).body
           s == From(l, b)
<1>1. CASE ParseMsPrefix(l) = None
  BY <1>1 DEF Matches
<1>2. CASE ParseMsPrefix(l) # None
  <2>1. n \in Nat /\ b \in 0 .. n /\ \A x \in 1 .. b : l[x] # "m"
    BY <1>2, PrefixBytes, LenProperties
  <2>2. Matches(l, o) <=> IsMatch(P, s)
    BY <1>2 DEF Matches
  <2> HIDE DEF b
  <2>3. s \in Seq(A) /\ Len(s) = n - b /\ \A x \in 1 .. n - b : s[x] = l[b + x]
    <3>1. b + 1 \in 1 .. Len(l) + 1 /\ (Len(l) + 1) - (b + 1) = n - b /\ (b + 1) - 1 = b
      BY <2>1
    <3>2. /\ SubSeq(l, b + 1, Len(l)) \in Seq(A)
          /\ Len(SubSeq(l, b + 1, Len(l))) = (Len(l) + 1) - (b + 1)
          /\ \A x \in 1 .. (Len(l) + 1) - (b + 1) : SubSeq(l, b + 1, Len(l))[x] = l[((b + 1) - 1) + x]
      BY <3>1, Rest
    <3> QED BY <3>1, <3>2 DEF From
  <2> HIDE DEF s, n
  <2>4. ASSUME NEW k \in 1 .. Len(s) - 1, s[k] = "m", s[k + 1] = "m"
        PROVE  \E j \in 1 .. Len(l) - 1 : l[j] = "m" /\ l[j + 1] = "m"
    <3>1. b + k \in 1 .. n - 1 /\ (b + k) + 1 = b + (k + 1) /\ k \in 1 .. n - b /\ k + 1 \in 1 .. n - b
      BY <2>1, <2>3
    <3>2. l[b + k] = "m" /\ l[(b + k) + 1] = "m"
      BY <2>3, <2>4, <3>1
    <3> QED BY <3>1, <3>2 DEF n
  <2>5. ASSUME NEW j \in 1 .. Len(l) - 1, l[j] = "m", l[j + 1] = "m"
        PROVE  \E k \in 1 .. Len(s) - 1 : s[k] = "m" /\ s[k + 1] = "m"
    <3>1. j \in 1 .. n - 1 /\ ~ (j \in 1 .. b)
      BY <2>1, <2>5 DEF n
    <3>2. /\ j - b \in 1 .. (n - b) - 1 /\ b + (j - b) = j /\ b + ((j - b) + 1) = j + 1
          /\ j - b \in 1 .. n - b /\ (j - b) + 1 \in 1 .. n - b
      BY <2>1, <3>1
    <3>3. s[j - b] = l[j] /\ s[(j - b) + 1] = l[j + 1]
      BY <2>3, <3>2
    <3> QED BY <2>3, <2>5, <3>2, <3>3
  <2>6. IsMatch(P, s) <=> \E k \in 1 .. Len(s) - 1 : s[k] = "m" /\ s[k + 1] = "m"
    BY <2>3, MatchPair, SMTT(40)
  <2>7. IsMatch(P, l) <=> \E k \in 1 .. Len(l) - 1 : l[k] = "m" /\ l[k + 1] = "m"
    BY MatchPair
  <2> QED BY <2>2, <2>4, <2>5, <2>6, <2>7
<1> QED BY <1>1, <1>2

------------------------------------------------------------------------------
(* A wait that looks line by line. *)

\* a wait that looks for the pattern line by line
ByLine(o) == ~ o.multiline /\ o.full = FALSE /\ o.pattern = <<"m", "m">>

\* what a round of it leaves that began at p and looked at v
RoundIs(e, s, p, v) ==
  /\ e.match = FirstHit(v)
  /\ e = [stripper |-> s, cursor |-> e.cursor, match |-> e.match]
  /\ LineHits(v) = {} => e.cursor = p + Cut(v)[Cardinality(Newlines(v))]

\* A round looks at the lines from its cursor on; without a hit it passes them.
LEMMA RoundFinds ==
  ASSUME NEW A, NEW s, s.out \in Seq(A), NEW p \in 0 .. Len(s.out), NEW q, NEW o, ByLine(o)
  PROVE  RoundIs(FindMatch([stripper |-> s, cursor |-> p, match |-> q], o), s, p, From(s.out, p))
<1> DEFINE w == [stripper |-> s, cursor |-> p, match |-> q]
           v == From(s.out, p)
           n == Cardinality(Newlines(v))
           lines == [k \in 1 .. n |-> Front(SplitLines(v)[k])]
           hits == {k \in DOMAIN lines : Matches(lines[k], o)}
           passed == SubSeq(lines, 1, IF hits = {} THEN Len(lines) ELSE Min(hits))
           e == FindMatch(w, o)
<1>1. v \in Seq(A)
  <2>1. p + 1 \in 1 .. Len(s.out) + 1
    BY LenProperties
  <2>2. SubSeq(s.out, p + 1, Len(s.out)) \in Seq(A)
    BY <2>1, Rest
  <2> QED BY <2>2 DEF From
<1>2. /\ lines \in Seq(Seq(A)) /\ Len(lines) = n /\ n \in Nat
      /\ Len(FlattenSeq(lines)) + n = Cut(v)[n]
  BY <1>1, PassedBytes, SMTT(40)
<1>3. LinesFrom(w) = lines
  BY DEF LinesFrom
<1>4. /\ e.match = IF hits = {} THEN None ELSE Last(passed)
      /\ e.cursor = (p + Len(FlattenSeq(passed))) + Len(passed)
      /\ e = [stripper |-> s, cursor |-> e.cursor, match |-> e.match]
  <2>1. e = [w EXCEPT !.cursor = @ + Len(FlattenSeq(passed)) + Len(passed),
                      !.match = IF hits = {} THEN None ELSE Last(passed)]
    BY <1>3 DEF FindMatch, ByLine
  <2> HIDE DEF e, passed, hits
  <2> QED BY <2>1
<1>5. hits = LineHits(v)
  <2>1. \A k \in 1 .. n : k \in hits <=> k \in LineHits(v)
    <3> SUFFICES ASSUME NEW k \in 1 .. n PROVE k \in hits <=> k \in LineHits(v)
      OBVIOUS
    <3>1. lines[k] \in Seq(A) /\ k \in DOMAIN lines
      BY <1>2, ElementOfSeq, LenProperties
    <3>2. Matches(lines[k], o) <=> IsMatch(<<"m", "m">>, lines[k])
      <4> HIDE DEF lines
      <4> QED BY <3>1, PatternInBody DEF ByLine
    <3>3. k \in LineHits(v) <=> IsMatch(<<"m", "m">>, Front(SplitLines(v)[k]))
      BY <1>1, HitsAre
    <3> QED BY <3>1, <3>2, <3>3
  <2>2. hits \in SUBSET (1 .. n)
    OBVIOUS
  <2>3. LineHits(v) \in SUBSET (1 .. n)
    BY <1>1, HitsAre
  <2> HIDE DEF hits
  <2> QED BY <2>1, <2>2, <2>3
<1>6. ASSUME hits # {} PROVE e.match = FirstHit(v)
  <2>1. Min(LineHits(v)) \in 1 .. n
    <3>1. Min(LineHits(v)) \in LineHits(v) /\ LineHits(v) \in SUBSET (1 .. n)
      BY <1>1, <1>5, <1>6, HitsAre, LeastOf
    <3> QED BY <3>1
  <2>2. PICK a \in 1 .. n : a = Min(LineHits(v))
    BY <2>1
  <2>3. passed = SubSeq(lines, 1, a)
    BY <1>5, <1>6, <2>2
  <2> HIDE DEF lines
  <2>4. Len(SubSeq(lines, 1, a)) = a /\ SubSeq(lines, 1, a)[a] = lines[a]
    <3>1. /\ 1 \in Nat /\ 1 > 0 /\ a \in Nat /\ 1 <= a + 1 /\ a <= Len(lines)
          /\ (a + 1) - 1 = a /\ (1 - 1) + a = a /\ a \in 1 .. (a + 1) - 1
      BY <1>2
    <3>2. /\ Len(SubSeq(lines, 1, a)) = (a + 1) - 1
          /\ \A x \in 1 .. (a + 1) - 1 : SubSeq(lines, 1, a)[x] = lines[(1 - 1) + x]
      BY <1>2, <3>1, BufPart
    <3> QED BY <3>1, <3>2
  <2>5. Last(passed) = lines[a]
    BY <2>3, <2>4 DEF Last
  <2>6. lines[a] = Front(SplitLines(v)[a])
    BY DEF lines
  <2>7. FirstHit(v) = Front(SplitLines(v)[a])
    BY <1>5, <1>6, <2>2 DEF FirstHit
  <2> QED BY <1>4, <1>6, <2>5, <2>6, <2>7
<1>7. ASSUME hits = {} PROVE e.match = FirstHit(v) /\ e.cursor = p + Cut(v)[n]
  <2>1. FirstHit(v) = None
    BY <1>5, <1>7 DEF FirstHit
  <2>2. passed = lines
    <3>1. passed = SubSeq(lines, 1, Len(lines))
      BY <1>7
    <3> QED BY <1>2, <3>1, SubSeqFull
  <2>3. e.cursor = (p + Len(FlattenSeq(lines))) + n
    BY <1>2, <1>4, <2>2
  <2>4. FlattenSeq(lines) \in Seq(A) /\ p \in Nat
    <3>1. \E st \in [0 .. Len(lines) -> Seq(A)] : FlattenSeq(lines) = st[Len(lines)]
      BY <1>2, FlattenSteps
    <3>2. Len(lines) \in 0 .. Len(lines)
      BY <1>2
    <3>3. FlattenSeq(lines) \in Seq(A)
      <4> HIDE DEF lines
      <4> QED BY <3>1, <3>2
    <3> QED BY <3>3, LenProperties
  <2>5. Len(FlattenSeq(lines)) \in Nat
    BY <2>4, LenProperties
  <2> HIDE DEF lines
  <2>6. (p + Len(FlattenSeq(lines))) + n = p + (Len(FlattenSeq(lines)) + n)
    BY <1>2, <2>4, <2>5
  <2> QED BY <1>2, <1>4, <1>7, <2>1, <2>3, <2>6
<1> HIDE DEF hits, passed, lines, e
<1> QED BY <1>4, <1>5, <1>6, <1>7 DEF e, RoundIs

\* what a wait has drained before and after the file grew
Drained(s, f, o) == IF o.strip THEN Feed(s, f) ELSE [s EXCEPT !.out = @ \o f]
FirstDrained(f, cut, o) == Drained(NewStripper, SubSeq(f, 1, cut), o)
ThenDrained(f, cut, o) == Drained(FirstDrained(f, cut, o), From(f, cut), o)

\* A drain only goes on with the stripper.
LEMMA DrainIs ==
  ASSUME NEW s, NEW p, NEW q, NEW f, NEW o
  PROVE  Drain([stripper |-> s, cursor |-> p, match |-> q], f, o) =
           [stripper |-> Drained(s, f, o), cursor |-> p, match |-> q]
BY SMTT(40) DEF Drain, Drained

\* what was drained first stays, and in the end it is the file, cleaned
GrowsTo(A, f, cut, o) ==
  /\ FirstDrained(f, cut, o).out \in Seq(A)
  /\ ThenDrained(f, cut, o).out = Cleaned(f, o)
  /\ \E z \in Seq(A) : ThenDrained(f, cut, o).out = FirstDrained(f, cut, o).out \o z

\* What is drained first stays, and in the end it is the file, cleaned.
LEMMA DrainedGrows ==
  ASSUME NEW A, NEW f \in Seq(A), NEW cut \in 0 .. Len(f), NEW o, o.strip \in BOOLEAN
  PROVE  GrowsTo(A, f, cut, o)
<1> DEFINE a == SubSeq(f, 1, cut)
           b == From(f, cut)
<1>1. NewStripper \in [state : States, out : Seq(A)]
  BY EmptySeq DEF NewStripper, States
<1>2. FirstDrained(f, cut, o) = IF o.strip THEN Feed(NewStripper, a)
                                ELSE [NewStripper EXCEPT !.out = @ \o a]
  BY DEF FirstDrained, Drained
<1>3. CASE o.strip
  <2> DEFINE half == Feed(NewStripper, a)
             whole == Feed(half, b)
  <2>1. /\ half \in [state : States, out : Seq(A)]
        /\ whole = Feed(NewStripper, f)
        /\ \E z \in Seq(A) : whole.out = half.out \o z
    <3>1. FedAs(A, f, cut, NewStripper)
      BY <1>1, FedInParts
    <3> QED BY <3>1 DEF FedAs
  <2>2. FirstDrained(f, cut, o) = half /\ ThenDrained(f, cut, o) = whole
    BY <1>2, <1>3 DEF ThenDrained, Drained
  <2>3. Cleaned(f, o) = whole.out
    BY <1>3, <2>1 DEF Cleaned, Strip
  <2> HIDE DEF half, whole
  <2>4. half.out \in Seq(A)
    BY <2>1
  <2> QED BY <2>1, <2>2, <2>3, <2>4 DEF GrowsTo
<1>4. CASE ~ o.strip
  <2>1. a \in Seq(A) /\ b \in Seq(A)
    <3>1. cut + 1 \in 1 .. Len(f) + 1
      BY LenProperties
    <3>2. SubSeq(f, cut + 1, Len(f)) \in Seq(A)
      BY <3>1, Rest
    <3> QED BY <3>2, PartType DEF From
  <2>2. a \o b = f
    <3>1. Len(f) \in Nat /\ 0 \in 0 .. Len(f) /\ cut \in 0 .. Len(f) /\ 0 + 1 = 1
      BY LenProperties
    <3>2. SubSeq(f, 0 + 1, cut) \o SubSeq(f, cut + 1, Len(f)) = SubSeq(f, 0 + 1, Len(f))
      BY <3>1, PartsMeet
    <3>3. SubSeq(f, 1, Len(f)) = f
      BY SubSeqFull
    <3> QED BY <3>1, <3>2, <3>3 DEF From
  <2> HIDE DEF a, b
  <2>3. <<>> \o a = a
    BY <2>1, ConcatEmptySeq
  <2>4. FirstDrained(f, cut, o) = [state |-> "Normal", out |-> a]
    BY <1>2, <1>4, <2>3 DEF NewStripper
  <2>5. ThenDrained(f, cut, o) = [state |-> "Normal", out |-> f]
    <3>1. ThenDrained(f, cut, o) = Drained([state |-> "Normal", out |-> a], b, o)
      BY <2>4 DEF ThenDrained, b
    <3>2. Drained([state |-> "Normal", out |-> a], b, o) = [state |-> "Normal", out |-> a \o b]
      BY <1>4 DEF Drained
    <3> QED BY <2>2, <3>1, <3>2
  <2>6. Cleaned(f, o) = f
    BY <1>4 DEF Cleaned
  <2> QED BY <2>1, <2>2, <2>4, <2>5, <2>6 DEF GrowsTo
<1> QED BY <1>3, <1>4

\* Two rounds of a wait that looks line by line find the first line that matches.
LEMMA WaitsByLine ==
  ASSUME BytesOnly, NEW cut \in 0 .. Len(log), NEW o, ByLine(o), o.strip \in BOOLEAN
  PROVE  TwoRounds(cut, o).match = FirstHit(Cleaned(log, o))
<1> DEFINE A == Alphabet
           s == FirstDrained(log, cut, o)
           t == ThenDrained(log, cut, o)
           x == s.out
           y == t.out
           one == FindMatch(Drain(NewWait, SubSeq(log, 1, cut), o), o)
           two == FindMatch(Drain(one, From(log, cut), o), o)
           h == Cut(x)[Cardinality(Newlines(x))]
<1>1. x \in Seq(A) /\ y = Cleaned(log, o) /\ \E z \in Seq(A) : y = x \o z
  <2>1. log \in Seq(A)
    BY DEF BytesOnly
  <2> HIDE DEF A
  <2>2. GrowsTo(A, log, cut, o)
    BY <2>1, DrainedGrows
  <2> QED BY <2>2 DEF GrowsTo
<1>2. Drain(NewWait, SubSeq(log, 1, cut), o) = [stripper |-> s, cursor |-> 0, match |-> None]
  BY DrainIs DEF FirstDrained, NewWait
<1> HIDE DEF s
<1>3. From(x, 0) = x /\ 0 \in 0 .. Len(x) /\ Len(x) \in Nat
  <2>1. SubSeq(x, 1, Len(x)) = x /\ Len(x) \in Nat
    BY <1>1, SubSeqFull, LenProperties
  <2> QED BY <2>1 DEF From
<1>4. /\ one.match = FirstHit(x)
      /\ one = [stripper |-> s, cursor |-> one.cursor, match |-> one.match]
      /\ LineHits(x) = {} => one.cursor = 0 + Cut(x)[Cardinality(Newlines(x))]
  <2>1. s.out \in Seq(A) /\ 0 \in 0 .. Len(s.out) /\ From(s.out, 0) = x
    BY <1>1, <1>3
  <2> HIDE DEF x, A
  <2>2. RoundIs(FindMatch([stripper |-> s, cursor |-> 0, match |-> None], o), s, 0, x)
    BY <2>1, RoundFinds
  <2> QED BY <1>2, <2>2 DEF RoundIs
<1>5. h \in 0 .. Len(x) /\ 0 + h = h
  <2>1. Cardinality(Newlines(x)) \in 0 .. Cardinality(Ends(x))
    <3>1. /\ Cardinality(Newlines(x)) \in Nat /\ Cardinality(Ends(x)) \in Nat
          /\ Cardinality(Newlines(x)) <= Cardinality(Ends(x))
      BY <1>1, NewlinesFinite, EndsFinite, FirstEnds
    <3> QED BY <3>1
  <2>2. h \in 0 .. Len(x)
    BY <1>1, <2>1, CutsInOrder
  <2> HIDE DEF h
  <2> QED BY <1>3, <2>2
<1>6. Drain(one, From(log, cut), o) = [stripper |-> t, cursor |-> one.cursor, match |-> one.match]
  <2> HIDE DEF one
  <2>1. PICK p, q : one = [stripper |-> s, cursor |-> p, match |-> q]
    BY <1>4
  <2>2. Drain(one, From(log, cut), o) =
          [stripper |-> Drained(s, From(log, cut), o), cursor |-> p, match |-> q]
    BY <2>1, DrainIs
  <2>3. t = Drained(s, From(log, cut), o)
    BY DEF ThenDrained, s
  <2>4. one.cursor = p /\ one.match = q
    BY <2>1
  <2> QED BY <2>2, <2>3, <2>4
<1> HIDE DEF t, h, one
<1>7. FirstHit(y) = IF LineHits(x) # {} THEN FirstHit(x) ELSE FirstHit(From(y, h))
  <2>1. PICK z \in Seq(A) : y = x \o z
    BY <1>1
  <2>2. h = Cut(x)[Cardinality(Newlines(x))]
    BY DEF h
  <2> HIDE DEF x, y, A
  <2>3. SplitsAs(x, y)
    BY <1>1, <2>1, FirstHitSplits
  <2> QED BY <2>2, <2>3 DEF SplitsAs
<1>8. ASSUME LineHits(x) = {} PROVE two.match = FirstHit(From(y, h))
  <2>1. Drain(one, From(log, cut), o) = [stripper |-> t, cursor |-> h, match |-> one.match]
    BY <1>4, <1>5, <1>6, <1>8 DEF h
  <2>2. y \in Seq(A) /\ h \in 0 .. Len(y)
    <3>1. PICK z \in Seq(A) : y = x \o z
      BY <1>1
    <3>2. y \in Seq(A) /\ Len(y) = Len(x) + Len(z) /\ Len(z) \in Nat
      BY <1>1, <3>1, ConcatProperties, LenProperties
    <3> QED BY <1>3, <1>5, <3>2
  <2>3. RoundIs(FindMatch([stripper |-> t, cursor |-> h, match |-> one.match], o), t, h, From(y, h))
    <3> HIDE DEF A
    <3> QED BY <2>2, RoundFinds
  <2> QED BY <2>1, <2>3 DEF RoundIs
<1>9. FirstHit(x) = None <=> LineHits(x) = {}
  <2>1. LineHits(x) = {} => FirstHit(x) = None
    BY DEF FirstHit
  <2>2. LineHits(x) # {} => FirstHit(x) \in Seq(A)
    <3> SUFFICES ASSUME LineHits(x) # {} PROVE FirstHit(x) \in Seq(A)
      OBVIOUS
    <3>1. Min(LineHits(x)) \in LineHits(x) /\ LineHits(x) \in SUBSET (1 .. Cardinality(Ends(x)))
      BY <1>1, HitsAre, LeastOf
    <3>2. PICK k \in 1 .. Cardinality(Ends(x)) : k = Min(LineHits(x))
      BY <3>1
    <3>3. SplitLines(x)[k] \in Seq(A) /\ Len(SplitLines(x)[k]) >= 1
      BY <1>1, LineEndsAt
    <3>4. Front(SplitLines(x)[k]) \in Seq(A)
      BY <3>3, FrontIs
    <3> QED BY <3>2, <3>4 DEF FirstHit
  <2> QED BY <2>1, <2>2, LineAssumption
<1>10. TwoRounds(cut, o) = IF one.match # None THEN one ELSE two
  BY DEF TwoRounds, one
<1> HIDE DEF two
<1> QED BY <1>1, <1>4, <1>7, <1>8, <1>9, <1>10

------------------------------------------------------------------------------
(* A wait that looks at all of the output. *)

\* What --multiline gives holds a match, if there is one.
LEMMA AroundHolds ==
  ASSUME NEW A, NEW s \in Seq(A), NEW P, P = <<"m", "m">>, NEW g, g = MatchAround(s, P)
  PROVE  IF IsMatch(P, s) THEN g \in Seq(A) /\ IsMatch(P, g) ELSE g = None
<1> DEFINE n == Len(s)
           K == {k \in DOMAIN s : IsMatch(P, SubSeq(s, 1, k))}
           end == Min(K)
           T == {k \in Newlines(s) : k <= end - Len(P)}
           from == Max({0} \cup T)
           U == {n + 1} \cup {k \in Newlines(s) : k > end}
           upto == Min(U)
<1>1. n \in Nat /\ DOMAIN s = 1 .. n /\ Newlines(s) \in SUBSET (1 .. n) /\ Len(P) = 2
  BY NewlinesFinite, LenProperties
<1>2. CASE ~ IsMatch(P, s)
  BY <1>2 DEF MatchAround
<1>3. CASE IsMatch(P, s)
  <2>1. g = SubSeq(s, from + 1, upto - 1)
    BY <1>3 DEF MatchAround
  <2>2. ASSUME NEW k \in 1 .. n
        PROVE  k \in K <=> \E j \in 1 .. k - 1 : s[j] = "m" /\ s[j + 1] = "m"
    <3>0. k \in 0 .. Len(s) /\ k \in Nat /\ k <= Len(s)
      BY <1>1
    <3> DEFINE t == SubSeq(s, 1, k)
    <3>1. t \in Seq(A) /\ Len(t) = k
      BY <3>0, PartType
    <3>2. \A x \in 1 .. k : t[x] = s[x]
      <4>1. /\ 1 \in Nat /\ 1 > 0 /\ 1 <= k + 1 /\ (k + 1) - 1 = k /\ \A x \in 1 .. k : (1 - 1) + x = x
        BY <3>0
      <4>2. \A x \in 1 .. (k + 1) - 1 : SubSeq(s, 1, k)[x] = s[(1 - 1) + x]
        BY <3>0, <4>1, BufPart
      <4> QED BY <4>1, <4>2
    <3>3. k \in K <=> IsMatch(P, t)
      BY <1>1
    <3> HIDE DEF t, K
    <3>4. IsMatch(P, t) <=> \E j \in 1 .. Len(t) - 1 : t[j] = "m" /\ t[j + 1] = "m"
      BY <3>1, MatchPair
    <3>5. \A j \in 1 .. k - 1 : j \in 1 .. k /\ j + 1 \in 1 .. k
      BY <3>0
    <3> QED BY <3>1, <3>2, <3>3, <3>4, <3>5
  <2>3. PICK j \in 1 .. n - 1 : s[j] = "m" /\ s[j + 1] = "m"
    BY <1>3, MatchPair
  <2>4. K # {} /\ K \in SUBSET Nat /\ K \in SUBSET (1 .. n)
    <3>1. j + 1 \in 1 .. n /\ j \in 1 .. (j + 1) - 1
      BY <1>1
    <3>2. j + 1 \in K
      BY <2>2, <2>3, <3>1
    <3>3. K \in SUBSET (1 .. n)
      BY <1>1
    <3> QED BY <1>1, <3>2, <3>3
  <2> HIDE DEF K
  <2>5. PICK e \in 1 .. n : e = end /\ e \in K /\ \A k \in K : e <= k
    <3>1. Min(K) \in K /\ \A k \in K : Min(K) <= k
      BY <2>4, LeastOf
    <3> QED BY <2>4, <3>1
  <2>6. e >= 2 /\ s[e - 1] = "m" /\ s[e] = "m" /\ e \in Nat
    <3>1. PICK i \in 1 .. e - 1 : s[i] = "m" /\ s[i + 1] = "m"
      BY <2>2, <2>5
    <3>2. i + 1 \in 1 .. n /\ i \in 1 .. (i + 1) - 1
      BY <1>1, <2>5
    <3>3. i + 1 \in K
      BY <2>2, <3>1, <3>2
    <3>4. e <= i + 1
      BY <2>5, <3>3
    <3>5. i = e - 1 /\ i + 1 = e /\ e >= 2 /\ e \in Nat
      BY <1>1, <2>5, <3>1, <3>4
    <3> QED BY <3>1, <3>5
  <2>7. PICK a \in Nat : a = from /\ a <= e - 2
    <3>1. T \in SUBSET (1 .. n) /\ \A k \in T : k <= e - 2
      BY <1>1, <2>5
    <3> HIDE DEF T
    <3>2. CASE T = {}
      <4>1. {0} \in SUBSET Nat /\ \A y \in {0} : y <= 0
        OBVIOUS
      <4>2. Max({0}) = 0 /\ {0} \cup T = {0}
        BY <3>2, <4>1, MaxIs
      <4>3. from = 0
        BY <4>2
      <4> HIDE DEF from
      <4>4. 0 \in Nat /\ 0 <= e - 2
        BY <2>6
      <4> QED BY <4>3, <4>4
    <3>3. CASE T # {}
      <4>1. PICK y \in T : y = Max(T) /\ \A x \in T : x <= y
        BY <1>1, <3>1, <3>3, GreatestOf
      <4>2. {0} \cup T \in SUBSET Nat /\ y \in {0} \cup T /\ y \in Nat
        BY <1>1, <3>1
      <4>3. \A x \in {0} \cup T : x <= y
        BY <4>1, <4>2
      <4>4. Max({0} \cup T) = y
        BY <4>2, <4>3, MaxIs
      <4> QED BY <3>1, <4>2, <4>4
    <3> QED BY <3>2, <3>3
  <2>8. PICK b \in 1 .. n + 1 : b = upto /\ e < b
    <3>1. U \in SUBSET (1 .. n + 1) /\ U \in SUBSET Nat /\ U # {} /\ \A k \in U : e < k
      <4>1. n + 1 \in 1 .. n + 1 /\ e < n + 1
        BY <1>1, <2>5
      <4>2. \A k \in Newlines(s) : k \in 1 .. n + 1 /\ k \in Nat
        BY <1>1
      <4> QED BY <1>1, <2>5, <4>1, <4>2
    <3> HIDE DEF U
    <3>2. Min(U) \in U
      BY <3>1, LeastOf
    <3> QED BY <3>1, <3>2
  <2> HIDE DEF from, upto, n
  <2>9. /\ a + 1 \in Nat /\ a + 1 > 0 /\ b - 1 \in Nat /\ a + 1 <= (b - 1) + 1 /\ b - 1 <= n
        /\ ((b - 1) + 1) - (a + 1) = (b - 1) - a /\ (a + 1) - 1 = a
    BY <1>1, <2>6, <2>7, <2>8
  <2>10. /\ SubSeq(s, a + 1, b - 1) \in Seq(A)
         /\ Len(SubSeq(s, a + 1, b - 1)) = ((b - 1) + 1) - (a + 1)
         /\ \A x \in 1 .. ((b - 1) + 1) - (a + 1) : SubSeq(s, a + 1, b - 1)[x] = s[((a + 1) - 1) + x]
    BY <2>9, BufPart DEF n
  <2>11. g \in Seq(A) /\ Len(g) = (b - 1) - a /\ \A x \in 1 .. (b - 1) - a : g[x] = s[a + x]
    BY <2>1, <2>7, <2>8, <2>9, <2>10
  <2>12. /\ (e - 1) - a \in 1 .. ((b - 1) - a) - 1 /\ (e - 1) - a \in 1 .. (b - 1) - a
         /\ ((e - 1) - a) + 1 \in 1 .. (b - 1) - a
         /\ a + ((e - 1) - a) = e - 1 /\ a + (((e - 1) - a) + 1) = e
    BY <1>1, <2>6, <2>7, <2>8
  <2>13. g[(e - 1) - a] = "m" /\ g[((e - 1) - a) + 1] = "m"
    BY <2>6, <2>11, <2>12
  <2>14. \E k \in 1 .. Len(g) - 1 : g[k] = "m" /\ g[k + 1] = "m"
    BY <2>11, <2>12, <2>13
  <2>15. IsMatch(P, g)
    BY <2>11, <2>14, MatchPair
  <2> QED BY <1>3, <2>11, <2>15
<1> QED BY <1>2, <1>3

\* Two rounds of a wait with --multiline find a match exactly when there is one.
LEMMA WaitsAround ==
  ASSUME BytesOnly, NEW cut \in 0 .. Len(log), NEW o, o.multiline, o.strip \in BOOLEAN,
         o.pattern = <<"m", "m">>
  PROVE  LET found == TwoRounds(cut, o).match
         IN  IF found = None THEN ~ IsMatch(o.pattern, Cleaned(log, o))
             ELSE IsMatch(o.pattern, found)
<1> DEFINE A == Alphabet
           s == FirstDrained(log, cut, o)
           t == ThenDrained(log, cut, o)
           x == s.out
           y == t.out
           P == o.pattern
           one == FindMatch(Drain(NewWait, SubSeq(log, 1, cut), o), o)
           two == FindMatch(Drain(one, From(log, cut), o), o)
<1>1. x \in Seq(A) /\ y = Cleaned(log, o) /\ y \in Seq(A)
  <2>1. x \in Seq(A) /\ y = Cleaned(log, o) /\ \E z \in Seq(A) : y = x \o z
    <3>1. log \in Seq(A)
      BY DEF BytesOnly
    <3> HIDE DEF A
    <3>2. GrowsTo(A, log, cut, o)
      BY <3>1, DrainedGrows
    <3> QED BY <3>2 DEF GrowsTo
  <2> QED BY <2>1, ConcatProperties
<1>2. Drain(NewWait, SubSeq(log, 1, cut), o) = [stripper |-> s, cursor |-> 0, match |-> None]
  BY DrainIs DEF FirstDrained, NewWait
<1> HIDE DEF s
<1>3. one = [stripper |-> s, cursor |-> 0, match |-> MatchAround(x, P)]
  BY <1>2 DEF FindMatch
<1>4. Drain(one, From(log, cut), o) = [stripper |-> t, cursor |-> 0, match |-> MatchAround(x, P)]
  BY <1>3, DrainIs DEF ThenDrained, s
<1> HIDE DEF one, t
<1>5. two.match = MatchAround(y, P)
  BY <1>4 DEF FindMatch
<1>6. TwoRounds(cut, o) = IF one.match # None THEN one ELSE two
  BY DEF TwoRounds, one
<1> HIDE DEF two
<1>7. one.match = MatchAround(x, P)
  BY <1>3
<1>8. IF IsMatch(P, x) THEN one.match \in Seq(A) /\ IsMatch(P, one.match) ELSE one.match = None
  BY <1>1, <1>7, AroundHolds
<1>9. IF IsMatch(P, y) THEN two.match \in Seq(A) /\ IsMatch(P, two.match) ELSE two.match = None
  BY <1>1, <1>5, AroundHolds
<1> QED BY <1>1, <1>6, <1>8, <1>9, LineAssumption

\* wait finds the first complete line that matches, of whatever file, stripped or
\* not, wherever the output is cut between two rounds; with --multiline it finds
\* a match exactly when there is one (wait.rs:167-272).
THEOREM WaitInvariance == Spec => []WaitFindsFirstMatch
<1>1. BytesOnly => WaitFindsFirstMatch
  <2> SUFFICES ASSUME BytesOnly, NEW o \in Waits, NEW cut \in 0 .. Len(log)
               PROVE  LET clean == Cleaned(log, o)
                          lines == SplitLines(clean)
                          hits == {k \in DOMAIN lines : /\ Complete(lines[k])
                                                        /\ IsMatch(o.pattern, Front(lines[k]))}
                          found == TwoRounds(cut, o).match
                      IN  IF o.multiline
                          THEN IF found = None THEN ~ IsMatch(o.pattern, clean)
                               ELSE IsMatch(o.pattern, found)
                          ELSE found = IF hits = {} THEN None ELSE Front(lines[Min(hits)])
    BY DEF WaitFindsFirstMatch
  <2>1. /\ o.multiline \in BOOLEAN /\ o.strip \in BOOLEAN /\ o.full = FALSE
        /\ o.pattern = <<"m", "m">>
    BY DEF Waits
  <2>2. CASE o.multiline
    BY <2>1, <2>2, WaitsAround
  <2>3. CASE ~ o.multiline
    <3>1. TwoRounds(cut, o).match = FirstHit(Cleaned(log, o))
      BY <2>1, <2>3, WaitsByLine DEF ByLine
    <3> QED BY <2>1, <2>3, <3>1 DEF FirstHit, LineHits
  <2> QED BY <2>2, <2>3
<1> QED BY <1>1, LogIsBytes, PTL

------------------------------------------------------------------------------
(* Folds, and other sequences. *)

\* h[s] is what F makes of the elements of f at the places of s.
FoldsOn(f, X, base, F, h) ==
  /\ h[{}] = base
  /\ \A s \in SUBSET DOMAIN f :
       s # {} /\ h[s \ {Max(s)}] \in X => h[s] = F[<<h[s \ {Max(s)}], f[Max(s)]>>]

\* There is a way through them to r.
Taken(f, X, base, F, r) ==
  \E st \in [0 .. Len(f) -> X] : GoesThrough(f, base, F, st) /\ r = st[Len(f)]

\* There is a way through the values of such an h, to that of all of f.
LEMMA FoldTaken ==
  ASSUME NEW A, NEW f \in Seq(A), NEW X, NEW base \in X, NEW F \in [X \X A -> X],
         NEW h, FoldsOn(f, X, base, F, h)
  PROVE  Taken(f, X, base, F, h[DOMAIN f])
<1> DEFINE st == [k \in 0 .. Len(f) |-> h[1 .. k]]
           M == {k \in Nat : k <= Len(f) => h[1 .. k] \in X}
<1>0. Len(f) \in Nat /\ DOMAIN f = 1 .. Len(f) /\ \A k \in 1 .. Len(f) : f[k] \in A
  BY LenProperties, ElementOfSeq
<1>1. h[1 .. 0] = base
  <2>1. 1 .. 0 = {}
    OBVIOUS
  <2> QED BY <2>1 DEF FoldsOn
<1>2. ASSUME NEW k \in 1 .. Len(f), h[1 .. k - 1] \in X
      PROVE  h[1 .. k] = F[<<h[1 .. k - 1], f[k]>>] /\ h[1 .. k] \in X
  <2>1. /\ 1 .. k \in SUBSET DOMAIN f /\ 1 .. k # {} /\ Max(1 .. k) = k
        /\ (1 .. k) \ {k} = 1 .. k - 1
    BY <1>0, PlacesUpTo
  <2>2. h[1 .. k] = F[<<h[1 .. k - 1], f[k]>>]
    BY <1>2, <2>1 DEF FoldsOn
  <2>3. <<h[1 .. k - 1], f[k]>> \in X \X A
    BY <1>0, <1>2
  <2> QED BY <2>2, <2>3
<1>3. \A k \in 0 .. Len(f) : h[1 .. k] \in X
  <2>1. 0 \in M
    BY <1>1
  <2>2. ASSUME NEW k \in Nat, k \in M PROVE k + 1 \in M
    <3> SUFFICES ASSUME k + 1 <= Len(f) PROVE h[1 .. k + 1] \in X
      OBVIOUS
    <3>1. k + 1 \in 1 .. Len(f) /\ (k + 1) - 1 = k /\ k <= Len(f)
      BY <1>0
    <3>2. h[1 .. (k + 1) - 1] \in X
      BY <2>2, <3>1
    <3> QED BY <1>2, <3>1, <3>2
  <2> HIDE DEF M
  <2>3. Nat \subseteq M
    BY <2>1, <2>2, SetInduction
  <2> SUFFICES ASSUME NEW k \in 0 .. Len(f) PROVE h[1 .. k] \in X
    OBVIOUS
  <2>4. k \in M /\ k <= Len(f)
    BY <1>0, <2>3
  <2> QED BY <2>4 DEF M
<1>4. st \in [0 .. Len(f) -> X]
  BY <1>3
<1>5. st[0] = base
  <2>1. 0 \in 0 .. Len(f)
    BY <1>0
  <2> QED BY <1>1, <2>1
<1>6. ASSUME NEW k \in 1 .. Len(f) PROVE st[k] = F[<<st[k - 1], f[k]>>]
  <2>1. k \in 0 .. Len(f) /\ k - 1 \in 0 .. Len(f)
    BY <1>0
  <2>2. h[1 .. k] = F[<<h[1 .. k - 1], f[k]>>]
    BY <1>2, <1>3, <2>1
  <2> QED BY <2>1, <2>2
<1>7. h[DOMAIN f] = st[Len(f)]
  BY <1>0
<1> HIDE DEF st
<1>8. GoesThrough(f, base, F, st)
  BY <1>5, <1>6 DEF GoesThrough
<1> QED BY <1>4, <1>7, <1>8 DEF Taken

\* A fold whose step is F on X.
LEMMA FoldIs ==
  ASSUME NEW A, NEW f \in Seq(A), NEW X, NEW base \in X, NEW F \in [X \X A -> X],
         NEW g, IsFold(f, base, F, g), g \in [SUBSET DOMAIN f -> X]
  PROVE  \A s \in SUBSET DOMAIN f :
           s # {} => /\ g[s \ {Max(s)}] \in X /\ f[Max(s)] \in A
                     /\ <<g[s \ {Max(s)}], f[Max(s)]>> \in X \X A
<1>0. Len(f) \in Nat /\ DOMAIN f = 1 .. Len(f) /\ \A k \in 1 .. Len(f) : f[k] \in A
  BY LenProperties, ElementOfSeq
<1> SUFFICES ASSUME NEW s \in SUBSET DOMAIN f, s # {}
             PROVE  /\ g[s \ {Max(s)}] \in X /\ f[Max(s)] \in A
  OBVIOUS
<1>1. Max(s) \in s
  BY <1>0, GreatestOf
<1>2. s \ {Max(s)} \in SUBSET DOMAIN f
  OBVIOUS
<1> QED BY <1>0, <1>1, <1>2

\* The greater one of two numbers.
LEMMA MaxOfTwo ==
  ASSUME NEW a \in Nat, NEW b \in Nat
  PROVE  Max({a, b}) = IF a <= b THEN b ELSE a
<1>1. {a, b} \in SUBSET Nat
  OBVIOUS
<1>2. CASE a <= b
  <2>1. \A y \in {a, b} : y <= b
    BY <1>2
  <2>2. Max({a, b}) = b
    BY <1>1, <2>1, MaxIs
  <2> QED BY <1>2, <2>2
<1>3. CASE ~ (a <= b)
  <2>1. \A y \in {a, b} : y <= a
    BY <1>3
  <2>2. Max({a, b}) = a
    BY <1>1, <2>1, MaxIs
  <2> QED BY <1>3, <2>2
<1> QED BY <1>2, <1>3

\* A sequence with another last element.
LEMMA ReplaceLast ==
  ASSUME NEW A, NEW s \in Seq(A), Len(s) >= 1, NEW x \in A
  PROVE  /\ Append(Front(s), x) \in Seq(A) /\ Len(Append(Front(s), x)) = Len(s)
         /\ \A k \in 1 .. Len(s) - 1 : Append(Front(s), x)[k] = s[k]
         /\ Append(Front(s), x)[Len(s)] = x
<1>1. Front(s) \in Seq(A) /\ Len(s) \in Nat /\ Len(Front(s)) \in Nat /\ Len(Front(s)) + 1 = Len(s)
  BY FrontIs
<1>2. \A k \in 1 .. Len(s) - 1 : Front(s)[k] = s[k]
  <2>1. /\ 1 \in Nat /\ 1 > 0 /\ Len(s) - 1 \in Nat /\ 1 <= (Len(s) - 1) + 1 /\ Len(s) - 1 <= Len(s)
        /\ ((Len(s) - 1) + 1) - 1 = Len(s) - 1 /\ \A k \in 1 .. Len(s) - 1 : (1 - 1) + k = k
    BY <1>1
  <2>2. \A k \in 1 .. ((Len(s) - 1) + 1) - 1 : SubSeq(s, 1, Len(s) - 1)[k] = s[(1 - 1) + k]
    BY <2>1, BufPart
  <2> QED BY <2>1, <2>2 DEF Front
<1> DEFINE t == Front(s)
           u == Append(t, x)
<1>3. /\ u \in Seq(A) /\ Len(u) = Len(t) + 1 /\ \A k \in 1 .. Len(t) : u[k] = t[k]
      /\ u[Len(t) + 1] = x
  <2> HIDE DEF t
  <2> QED BY <1>1, AppendProperties DEF t
<1>4. 1 .. Len(t) = 1 .. Len(s) - 1
  BY <1>1
<1> HIDE DEF u
<1>5. /\ u \in Seq(A) /\ Len(u) = Len(s) /\ \A k \in 1 .. Len(s) - 1 : u[k] = s[k]
      /\ u[Len(s)] = x
  BY <1>1, <1>2, <1>3, <1>4
<1> QED BY <1>5 DEF u

------------------------------------------------------------------------------
(* The blocks of hits, one by one. *)

\* half-open ranges of lines
Ranges == [start : Nat, end : Nat]

\* the lines around a hit
Around(h, total, around) ==
  [start |-> IF h > around THEN h - around ELSE 0, end |-> Min({h + around + 1, total})]

\* the blocks after one more hit
MergeOne(merged, h, total, around) ==
  IF merged = <<>> \/ Around(h, total, around).start > Last(merged).end
  THEN Append(merged, Around(h, total, around))
  ELSE Append(Front(merged),
              [Last(merged) EXCEPT !.end = Max({@, Around(h, total, around).end})])

\* the fold of CoalesceWindows over the places of hits
MergeFold(hits, total, around, g) ==
  g = [s \in SUBSET DOMAIN hits |->
         IF s = {} THEN <<>> ELSE MergeOne(g[s \ {Max(s)}], hits[Max(s)], total, around)]

\* st[k] are the blocks of k hits
MergeSteps(hits, total, around, st) ==
  /\ st[0] = <<>>
  /\ \A k \in 1 .. Len(hits) : st[k] = MergeOne(st[k - 1], hits[k], total, around)

Near(l, h, around) == l <= h + around /\ h <= l + around
InBlock(l, b) == b.start <= l /\ l < b.end

\* The lines around a hit are those near it.
LEMMA AroundIs ==
  ASSUME NEW total \in Nat, NEW around \in Nat, NEW h \in Nat, h < total,
         NEW w, w = Around(h, total, around)
  PROVE  /\ w \in Ranges /\ w.start \in Nat /\ w.end \in Nat
         /\ w.start < w.end /\ w.end <= total
         /\ \A l \in Nat : InBlock(l, w) <=> l < total /\ Near(l, h, around)
<1> DEFINE a == IF h > around THEN h - around ELSE 0
           b == IF h + around + 1 <= total THEN h + around + 1 ELSE total
<1>1. Min({h + around + 1, total}) = b
  <2>1. h + around + 1 \in Nat
    OBVIOUS
  <2> QED BY <2>1, MinOfTwo
<1>2. w = [start |-> a, end |-> b]
  BY <1>1 DEF Around
<1>3. a \in Nat /\ b \in Nat /\ a < b /\ b <= total
  OBVIOUS
<1>4. \A l \in Nat : a <= l /\ l < b <=> l < total /\ l <= h + around /\ h <= l + around
  OBVIOUS
<1> HIDE DEF a, b
<1> QED BY <1>2, <1>3, <1>4 DEF InBlock, Near, Ranges

\* Those of a later hit begin and end no earlier.
LEMMA AroundGrows ==
  ASSUME NEW total \in Nat, NEW around \in Nat, NEW g \in Nat, NEW h \in Nat, g < h
  PROVE  /\ Around(g, total, around).start <= Around(h, total, around).start
         /\ Around(g, total, around).end <= Around(h, total, around).end
<1>1. \A x \in {g, h} :
        Min({x + around + 1, total}) = IF x + around + 1 <= total THEN x + around + 1 ELSE total
  <2> SUFFICES ASSUME NEW x \in Nat
               PROVE  Min({x + around + 1, total}) =
                        IF x + around + 1 <= total THEN x + around + 1 ELSE total
    OBVIOUS
  <2>1. x + around + 1 \in Nat
    OBVIOUS
  <2> QED BY <2>1, MinOfTwo
<1>2. /\ Around(g, total, around).start = (IF g > around THEN g - around ELSE 0)
      /\ Around(h, total, around).start = (IF h > around THEN h - around ELSE 0)
  BY DEF Around
<1>3. /\ Around(g, total, around).end = Min({g + around + 1, total})
      /\ Around(h, total, around).end = Min({h + around + 1, total})
  BY DEF Around
<1> QED BY <1>1, <1>2, <1>3

\* Blocks stay blocks.
LEMMA MergeType ==
  ASSUME NEW total \in Nat, NEW around \in Nat, NEW h \in 0 .. total - 1, NEW s \in Seq(Ranges)
  PROVE  MergeOne(s, h, total, around) \in Seq(Ranges)
<1> DEFINE w == Around(h, total, around)
           n == Len(s)
<1>1. w \in Ranges /\ w.end \in Nat
  <2>1. h \in Nat /\ h < total
    OBVIOUS
  <2> QED BY <2>1, AroundIs
<1> HIDE DEF w
<1>2. Append(s, w) \in Seq(Ranges)
  BY <1>1, AppendProperties
<1>3. CASE s = <<>> \/ w.start > Last(s).end
  BY <1>2, <1>3 DEF MergeOne, w
<1>4. CASE ~ (s = <<>> \/ w.start > Last(s).end)
  <2>1. n \in Nat /\ n >= 1 /\ n \in 1 .. n
    <3>1. n \in Nat /\ n # 0
      BY <1>4, EmptySeq, LenProperties
    <3> HIDE DEF n
    <3> QED BY <3>1
  <2>2. s[n] \in Ranges
    BY <2>1, ElementOfSeq
  <2> DEFINE b == s[n]
             x == [b EXCEPT !.end = Max({@, w.end})]
  <2>3. b \in Ranges /\ b.end \in Nat
    <3> HIDE DEF b
    <3> QED BY <2>2 DEF b, Ranges
  <2>4. Max({b.end, w.end}) \in Nat
    <3> HIDE DEF b
    <3> QED BY <1>1, <2>3, MaxOfTwo
  <2>5. x \in Ranges
    <3> HIDE DEF b
    <3> QED BY <2>3, <2>4 DEF Ranges
  <2>6. MergeOne(s, h, total, around) = Append(Front(s), x)
    BY <1>4 DEF MergeOne, w, Last
  <2> HIDE DEF x
  <2> QED BY <2>1, <2>5, <2>6, ReplaceLast
<1> QED BY <1>3, <1>4

\* hits are lines of the file, in order.
HitsIn(hits, total) ==
  /\ hits \in Seq(0 .. total - 1)
  /\ \A x, y \in 1 .. Len(hits) : x < y => hits[x] < hits[y]

\* CoalesceWindows takes one hit after the other.
LEMMA MergeGoes ==
  ASSUME NEW total \in Nat, NEW around \in Nat, NEW hits \in Seq(0 .. total - 1)
  PROVE  \E st \in [0 .. Len(hits) -> Seq(Ranges)] :
           /\ MergeSteps(hits, total, around, st)
           /\ CoalesceWindows(hits, total, around) = st[Len(hits)]
<1> DEFINE A == 0 .. total - 1
           X == Seq(Ranges)
           F == [p \in X \X A |-> MergeOne(p[1], p[2], total, around)]
           D == DOMAIN hits
<1>1. \A x \in X, a \in A : MergeOne(x, a, total, around) \in X
  BY MergeType
<1>2. F \in [X \X A -> X]
  <2> SUFFICES ASSUME NEW p \in X \X A PROVE MergeOne(p[1], p[2], total, around) \in X
    OBVIOUS
  <2>1. p[1] \in X /\ p[2] \in A
    OBVIOUS
  <2> HIDE DEF X, A
  <2> QED BY <1>1, <2>1
<1>3. <<>> \in X
  BY EmptySeq
<1> HIDE DEF X, A
<1>0. hits \in Seq(A)
  BY DEF A
<1>4. \A x \in X, a \in A : F[<<x, a>>] = MergeOne(x, a, total, around)
  <2> SUFFICES ASSUME NEW x \in X, NEW a \in A PROVE F[<<x, a>>] = MergeOne(x, a, total, around)
    OBVIOUS
  <2>1. <<x, a>> \in X \X A
    OBVIOUS
  <2> QED BY <2>1
<1> HIDE DEF F
<1>5. PICK g \in [SUBSET D -> X] : IsFold(hits, <<>>, F, g)
  BY <1>0, <1>2, <1>3, FoldsEnd
<1>6. \A s \in SUBSET D : s # {} => g[s \ {Max(s)}] \in X /\ hits[Max(s)] \in A
  BY <1>0, <1>2, <1>3, <1>5, FoldIs
<1>7. MergeFold(hits, total, around, g)
  <2>1. g = [s \in SUBSET D |->
               IF s = {} THEN <<>> ELSE F[<<g[s \ {Max(s)}], hits[Max(s)]>>]]
    BY <1>5 DEF IsFold
  <2>2. g = [s \in SUBSET D |->
               IF s = {} THEN <<>> ELSE MergeOne(g[s \ {Max(s)}], hits[Max(s)], total, around)]
    BY <1>4, <1>6, <2>1
  <2> QED BY <2>2 DEF MergeFold
<1> DEFINE h == CHOOSE q : MergeFold(hits, total, around, q)
<1>8. MergeFold(hits, total, around, h)
  BY <1>7
<1>9. CoalesceWindows(hits, total, around) = h[D]
  BY DEF CoalesceWindows, FoldLeft, MapThenFoldSet, MergeFold, MergeOne, Around
<1> HIDE DEF h
<1>10. FoldsOn(hits, X, <<>>, F, h)
  <2>1. h[{}] = <<>>
    BY <1>8 DEF MergeFold
  <2>2. ASSUME NEW s \in SUBSET D, s # {}, h[s \ {Max(s)}] \in X
        PROVE  h[s] = F[<<h[s \ {Max(s)}], hits[Max(s)]>>]
    <3>1. h[s] = MergeOne(h[s \ {Max(s)}], hits[Max(s)], total, around)
      BY <1>8, <2>2 DEF MergeFold
    <3> QED BY <1>4, <1>6, <2>2, <3>1
  <2> QED BY <2>1, <2>2 DEF FoldsOn
<1>t. Taken(hits, X, <<>>, F, h[D])
  BY <1>0, <1>2, <1>3, <1>10, FoldTaken
<1>11. PICK st \in [0 .. Len(hits) -> X] :
         GoesThrough(hits, <<>>, F, st) /\ h[D] = st[Len(hits)]
  BY <1>t DEF Taken
<1>12. MergeSteps(hits, total, around, st)
  <2> SUFFICES ASSUME NEW k \in 1 .. Len(hits)
               PROVE  st[k] = MergeOne(st[k - 1], hits[k], total, around)
    BY <1>11 DEF MergeSteps, GoesThrough
  <2>1. st[k] = F[<<st[k - 1], hits[k]>>]
    BY <1>11 DEF GoesThrough
  <2>2. k - 1 \in 0 .. Len(hits) /\ hits[k] \in A
    BY <1>0, LenProperties, ElementOfSeq
  <2>3. st[k - 1] \in X
    BY <1>11, <2>2
  <2> QED BY <1>4, <2>1, <2>2, <2>3
<1> QED BY <1>9, <1>11, <1>12 DEF X

------------------------------------------------------------------------------
(* The blocks cover the hits. *)

\* blocks of lines of the file, in order, no two of which touch
Apart(bs, total) ==
  /\ bs \in Seq(Ranges)
  /\ \A j \in 1 .. Len(bs) : bs[j].start < bs[j].end /\ bs[j].end <= total
  /\ \A j \in 1 .. Len(bs) - 1 : bs[j].end < bs[j + 1].start

\* What the blocks are of the first k hits: the lines near them.
Merged(bs, hits, k, total, around) ==
  /\ Apart(bs, total)
  /\ \A l \in Nat : (\E j \in 1 .. Len(bs) : InBlock(l, bs[j]))
                      <=> l < total /\ \E x \in 1 .. k : Near(l, hits[x], around)
  /\ k = 0 => Len(bs) = 0
  /\ k > 0 => /\ Len(bs) > 0 /\ bs[Len(bs)].end = Around(hits[k], total, around).end
              /\ bs[Len(bs)].start <= Around(hits[k], total, around).start

\* A block behind those there are, or a last one that grew, as the next hit
\* has it.
LEMMA MergesOne ==
  ASSUME NEW total \in Nat, NEW around \in Nat, NEW hits, HitsIn(hits, total),
         NEW k \in 0 .. Len(hits) - 1, NEW bs, Merged(bs, hits, k, total, around)
  PROVE  Merged(MergeOne(bs, hits[k + 1], total, around), hits, k + 1, total, around)
<1> DEFINE h == hits[k + 1]
           w == Around(h, total, around)
           n == Len(bs)
           u == MergeOne(bs, h, total, around)
<1>0. bs \in Seq(Ranges) /\ n \in Nat
  BY LenProperties DEF Merged, Apart
<1>1. /\ Len(hits) \in Nat /\ k \in Nat /\ k + 1 \in 1 .. Len(hits) /\ h \in 0 .. total - 1
      /\ h \in Nat /\ h < total
  <2>1. hits \in Seq(0 .. total - 1) /\ Len(hits) \in Nat
    BY LenProperties DEF HitsIn
  <2>2. k + 1 \in 1 .. Len(hits) /\ k \in Nat
    BY <2>1
  <2>3. h \in 0 .. total - 1
    BY <2>1, <2>2, ElementOfSeq
  <2> HIDE DEF h
  <2> QED BY <2>1, <2>2, <2>3
<1> HIDE DEF h
<1>2. /\ w \in Ranges /\ w.start \in Nat /\ w.end \in Nat
      /\ w.start < w.end /\ w.end <= total
      /\ \A l \in Nat : InBlock(l, w) <=> l < total /\ Near(l, h, around)
  BY <1>1, AroundIs
<1>3. \A j \in 1 .. n : /\ bs[j] \in Ranges /\ bs[j].start \in Nat /\ bs[j].end \in Nat
                        /\ bs[j].start < bs[j].end /\ bs[j].end <= total
  <2> SUFFICES ASSUME NEW j \in 1 .. n
               PROVE  /\ bs[j] \in Ranges /\ bs[j].start \in Nat /\ bs[j].end \in Nat
                      /\ bs[j].start < bs[j].end /\ bs[j].end <= total
    OBVIOUS
  <2>1. bs[j] \in Ranges
    BY <1>0, ElementOfSeq
  <2>2. bs[j].start \in Nat /\ bs[j].end \in Nat
    BY <2>1 DEF Ranges
  <2> QED BY <2>1, <2>2 DEF Merged, Apart
<1>4. \A j \in 1 .. n - 1 : bs[j].end < bs[j + 1].start
  BY DEF Merged, Apart
<1>5. \A l \in Nat : (\E j \in 1 .. n : InBlock(l, bs[j]))
                       <=> l < total /\ \E x \in 1 .. k : Near(l, hits[x], around)
  BY DEF Merged
<1> HIDE DEF w, n
\* what is to be shown of the new blocks
<1> DEFINE Covers == \A l \in Nat : (\E j \in 1 .. Len(u) : InBlock(l, u[j]))
                                      <=> (\E j \in 1 .. n : InBlock(l, bs[j])) \/ InBlock(l, w)
           Reaches == Len(u) > 0 /\ u[Len(u)].end = w.end /\ u[Len(u)].start <= w.start
<1>6. ASSUME bs = <<>> \/ w.start > Last(bs).end
      PROVE  Apart(u, total) /\ Covers /\ Reaches
  <2>1. u = Append(bs, w)
    BY <1>6 DEF MergeOne, w
  <2> HIDE DEF u
  <2>2. /\ u \in Seq(Ranges) /\ Len(u) = n + 1 /\ \A j \in 1 .. n : u[j] = bs[j]
        /\ u[n + 1] = w
    BY <1>0, <1>2, <2>1, AppendProperties DEF n
  <2>3. n > 0 => bs[n].end < w.start
    <3>1. n > 0 => bs # <<>>
      BY EmptySeq DEF n
    <3>2. bs # <<>> => bs[n].end < w.start
      <4> SUFFICES ASSUME bs # <<>> PROVE bs[n].end < w.start
        OBVIOUS
      <4>1. w.start > bs[n].end
        BY <1>6 DEF Last, n
      <4>2. n \in 1 .. n
        <5>1. n # 0
          BY <1>0, EmptySeq DEF n
        <5> QED BY <1>0, <5>1
      <4>3. bs[n].end \in Nat
        BY <1>3, <4>2
      <4> QED BY <1>2, <4>1, <4>3
    <3> QED BY <3>1, <3>2
  <2>4. \A j \in 1 .. n + 1 : j \in 1 .. n \/ j = n + 1
    BY <1>0
  <2>5. \A j \in 1 .. Len(u) : u[j].start < u[j].end /\ u[j].end <= total
    BY <1>2, <1>3, <2>2, <2>4
  <2>6. \A j \in 1 .. Len(u) - 1 : u[j].end < u[j + 1].start
    <3> SUFFICES ASSUME NEW j \in 1 .. Len(u) - 1 PROVE u[j].end < u[j + 1].start
      OBVIOUS
    <3>1. j \in 1 .. n /\ (j = n \/ j \in 1 .. n - 1) /\ (j \in 1 .. n - 1 => j + 1 \in 1 .. n)
      BY <1>0, <2>2
    <3>2. CASE j = n
      <4>1. u[j] = bs[n] /\ u[j + 1] = w /\ n > 0
        BY <1>0, <2>2, <3>1, <3>2
      <4> QED BY <2>3, <4>1
    <3>3. CASE j \in 1 .. n - 1
      <4>1. u[j] = bs[j] /\ u[j + 1] = bs[j + 1]
        BY <2>2, <3>1, <3>3
      <4> QED BY <1>4, <3>3, <4>1
    <3> QED BY <3>1, <3>2, <3>3
  <2>7. Apart(u, total)
    BY <2>2, <2>5, <2>6 DEF Apart
  <2>8. Covers
    <3>1. \A j \in 1 .. n : j \in 1 .. n + 1
      BY <1>0
    <3>2. n + 1 \in 1 .. n + 1
      BY <1>0
    <3> QED BY <2>2, <2>4, <3>1, <3>2
  <2>9. Reaches
    BY <1>0, <1>2, <2>2
  <2> QED BY <2>7, <2>8, <2>9
<1>7. ASSUME ~ (bs = <<>> \/ w.start > Last(bs).end)
      PROVE  Apart(u, total) /\ Covers /\ Reaches
  <2>1. n >= 1 /\ n \in 1 .. n /\ n - 1 \in Nat
    <3>1. n # 0
      BY <1>0, <1>7, EmptySeq DEF n
    <3> QED BY <1>0, <3>1
  <2>2. k > 0 /\ k \in 1 .. Len(hits)
    <3>1. k # 0
      BY <2>1 DEF Merged, n
    <3> QED BY <1>1, <3>1
  <2> DEFINE a == bs[n].start
             b == bs[n].end
             x == [start |-> a, end |-> w.end]
  <2>3. a \in Nat /\ b \in Nat /\ a < b /\ b <= total
    BY <1>3, <2>1
  <2>4. w.start <= b
    <3>1. ~ (w.start > b)
      BY <1>7 DEF Last, n
    <3> HIDE DEF b
    <3> QED BY <1>2, <2>3, <3>1
  <2>5. b <= w.end /\ a <= w.start
    <3> DEFINE v == Around(hits[k], total, around)
    <3>1. b = v.end /\ a <= v.start
      BY <2>2 DEF Merged, n
    <3>2. hits[k] \in Nat /\ hits[k] < total /\ hits[k] < h
      <4>1. hits \in Seq(0 .. total - 1) /\ k < k + 1
        BY <1>1 DEF HitsIn
      <4>2. hits[k] \in 0 .. total - 1
        BY <2>2, <4>1, ElementOfSeq
      <4>3. hits[k] < h
        BY <1>1, <2>2, <4>1 DEF HitsIn, h
      <4> QED BY <4>2, <4>3
    <3>3. v.start <= w.start /\ v.end <= w.end
      BY <1>1, <3>2, AroundGrows DEF w
    <3>4. v.start \in Nat /\ v.end \in Nat
      BY <3>2, AroundIs
    <3> HIDE DEF v, a, b
    <3> QED BY <1>2, <2>3, <3>1, <3>3, <3>4
  <2>6. bs[n] \in Ranges
    BY <1>3, <2>1
  <2>7. u = Append(Front(bs), x)
    <3>1. u = Append(Front(bs), [bs[n] EXCEPT !.end = Max({@, w.end})])
      BY <1>7 DEF MergeOne, w, Last, n
    <3>2. Max({b, w.end}) = w.end
      <4> HIDE DEF b
      <4> QED BY <1>2, <2>3, <2>5, MaxOfTwo
    <3>3. [bs[n] EXCEPT !.end = Max({@, w.end})] = [start |-> a, end |-> Max({b, w.end})]
      BY <2>6 DEF Ranges
    <3> HIDE DEF u
    <3> QED BY <3>1, <3>2, <3>3
  <2> HIDE DEF u, a, b
  <2>8. x \in Ranges /\ x.start = a /\ x.end = w.end
    BY <1>2, <2>3 DEF Ranges
  <2> HIDE DEF x
  <2>9. /\ u \in Seq(Ranges) /\ Len(u) = n /\ \A j \in 1 .. n - 1 : u[j] = bs[j]
        /\ u[n] = x
    <3>1. bs \in Seq(Ranges) /\ Len(bs) >= 1
      BY <1>0, <2>1 DEF n
    <3>2. /\ Append(Front(bs), x) \in Seq(Ranges) /\ Len(Append(Front(bs), x)) = Len(bs)
          /\ \A j \in 1 .. Len(bs) - 1 : Append(Front(bs), x)[j] = bs[j]
          /\ Append(Front(bs), x)[Len(bs)] = x
      BY <2>8, <3>1, ReplaceLast
    <3> QED BY <2>7, <3>2 DEF n
  <2>10. \A j \in 1 .. n : j \in 1 .. n - 1 \/ j = n
    BY <1>0
  <2>11. \A j \in 1 .. n - 1 : j \in 1 .. n /\ j + 1 \in 1 .. n
    BY <1>0
  <2>12. \A j \in 1 .. Len(u) : u[j].start < u[j].end /\ u[j].end <= total
    <3>1. a < w.end
      BY <1>2, <2>3, <2>5
    <3> QED BY <1>2, <1>3, <2>8, <2>9, <2>10, <2>11, <3>1
  <2>13. \A j \in 1 .. Len(u) - 1 : u[j].end < u[j + 1].start
    <3> SUFFICES ASSUME NEW j \in 1 .. n - 1 PROVE u[j].end < u[j + 1].start
      BY <2>9
    <3>1. u[j + 1].start = bs[j + 1].start
      <4>1. CASE j + 1 = n
        BY <2>8, <2>9, <4>1 DEF a
      <4>2. CASE j + 1 # n
        <5>1. j + 1 \in 1 .. n - 1
          BY <1>0, <4>2
        <5> QED BY <2>9, <5>1
      <4> QED BY <4>1, <4>2
    <3>2. u[j].end = bs[j].end
      BY <2>9
    <3> QED BY <1>4, <3>1, <3>2
  <2>14. Apart(u, total)
    BY <2>9, <2>12, <2>13 DEF Apart
  <2>15. \A l \in Nat : InBlock(l, x) <=> InBlock(l, bs[n]) \/ InBlock(l, w)
    <3> SUFFICES ASSUME NEW l \in Nat PROVE InBlock(l, x) <=> InBlock(l, bs[n]) \/ InBlock(l, w)
      OBVIOUS
    <3>1. InBlock(l, x) <=> a <= l /\ l < w.end
      BY <2>8 DEF InBlock
    <3>2. InBlock(l, bs[n]) <=> a <= l /\ l < b
      BY DEF InBlock, a, b
    <3>3. InBlock(l, w) <=> w.start <= l /\ l < w.end
      BY DEF InBlock
    <3> QED BY <1>2, <2>3, <2>4, <2>5, <3>1, <3>2, <3>3
  <2>16. Covers
    <3> SUFFICES ASSUME NEW l \in Nat
                 PROVE  (\E j \in 1 .. n : InBlock(l, u[j]))
                          <=> (\E j \in 1 .. n : InBlock(l, bs[j])) \/ InBlock(l, w)
      BY <2>9
    <3>1. (\E j \in 1 .. n : InBlock(l, u[j]))
            <=> (\E j \in 1 .. n - 1 : InBlock(l, bs[j])) \/ InBlock(l, x)
      BY <2>1, <2>9, <2>10, <2>11
    <3>2. (\E j \in 1 .. n : InBlock(l, bs[j]))
            <=> (\E j \in 1 .. n - 1 : InBlock(l, bs[j])) \/ InBlock(l, bs[n])
      BY <2>1, <2>10, <2>11
    <3> QED BY <2>15, <3>1, <3>2
  <2>17. Reaches
    BY <2>1, <2>5, <2>8, <2>9
  <2> QED BY <2>14, <2>16, <2>17
<1>8. Apart(u, total) /\ Covers /\ Reaches
  <2> HIDE DEF u, Covers, Reaches
  <2> QED BY <1>6, <1>7
<1> HIDE DEF u
<1>9. \A l \in Nat : (\E j \in 1 .. Len(u) : InBlock(l, u[j]))
                       <=> l < total /\ \E x \in 1 .. k + 1 : Near(l, hits[x], around)
  <2> SUFFICES ASSUME NEW l \in Nat
               PROVE  (\E j \in 1 .. Len(u) : InBlock(l, u[j]))
                        <=> l < total /\ \E x \in 1 .. k + 1 : Near(l, hits[x], around)
    OBVIOUS
  <2>1. (\E x \in 1 .. k + 1 : Near(l, hits[x], around))
          <=> (\E x \in 1 .. k : Near(l, hits[x], around)) \/ Near(l, h, around)
    <3>1. \A x \in 1 .. k + 1 : x \in 1 .. k \/ x = k + 1
      BY <1>1
    <3>2. k + 1 \in 1 .. k + 1 /\ \A x \in 1 .. k : x \in 1 .. k + 1
      BY <1>1
    <3> QED BY <3>1, <3>2 DEF h
  <2>2. (\E j \in 1 .. Len(u) : InBlock(l, u[j]))
          <=> (\E j \in 1 .. n : InBlock(l, bs[j])) \/ InBlock(l, w)
    BY <1>8
  <2>3. InBlock(l, w) <=> l < total /\ Near(l, h, around)
    BY <1>2
  <2>4. (\E j \in 1 .. n : InBlock(l, bs[j]))
          <=> l < total /\ \E x \in 1 .. k : Near(l, hits[x], around)
    BY <1>5
  <2> HIDE DEF Covers, Reaches
  <2> QED BY <2>1, <2>2, <2>3, <2>4
<1>10. k + 1 # 0 /\ k + 1 > 0
  BY <1>1
<1>11. Merged(u, hits, k + 1, total, around)
  BY <1>8, <1>9, <1>10 DEF Merged, w, h
<1> QED BY <1>11 DEF u, h

\* The blocks of all hits.
LEMMA BlocksAre ==
  ASSUME NEW total \in Nat, NEW around \in Nat, NEW hits, HitsIn(hits, total)
  PROVE  Merged(CoalesceWindows(hits, total, around), hits, Len(hits), total, around)
<1>1. hits \in Seq(0 .. total - 1) /\ Len(hits) \in Nat
  BY LenProperties DEF HitsIn
<1>2. PICK st \in [0 .. Len(hits) -> Seq(Ranges)] :
        /\ MergeSteps(hits, total, around, st)
        /\ CoalesceWindows(hits, total, around) = st[Len(hits)]
  BY <1>1, MergeGoes
<1> DEFINE M == {k \in Nat : k <= Len(hits) => Merged(st[k], hits, k, total, around)}
<1>3. 0 \in M
  <2>1. st[0] = <<>> /\ <<>> \in Seq(Ranges) /\ Len(<<>>) = 0
    BY <1>2, EmptySeq DEF MergeSteps
  <2>2. Apart(<<>>, total)
    BY <2>1 DEF Apart
  <2>3. Merged(<<>>, hits, 0, total, around)
    <3>1. 1 .. 0 = {} /\ ~ (0 > 0)
      OBVIOUS
    <3> QED BY <2>1, <2>2, <3>1 DEF Merged
  <2> QED BY <2>1, <2>3
<1>4. ASSUME NEW k \in Nat, k \in M PROVE k + 1 \in M
  <2> SUFFICES ASSUME k + 1 <= Len(hits) PROVE Merged(st[k + 1], hits, k + 1, total, around)
    OBVIOUS
  <2>1. k \in 0 .. Len(hits) - 1 /\ k <= Len(hits) /\ k + 1 \in 1 .. Len(hits) /\ (k + 1) - 1 = k
    BY <1>1
  <2>2. Merged(st[k], hits, k, total, around)
    BY <1>4, <2>1
  <2>3. st[k + 1] = MergeOne(st[k], hits[k + 1], total, around)
    BY <1>2, <2>1 DEF MergeSteps
  <2> QED BY <2>1, <2>2, <2>3, MergesOne
<1> HIDE DEF M
<1>5. Len(hits) \in M
  BY <1>1, <1>3, <1>4, SetInduction
<1> QED BY <1>1, <1>2, <1>5 DEF M

\* Every set of hits on every file.
LEMMA BlocksCover == BytesOnly => BlocksCoverHits
<1> SUFFICES ASSUME BytesOnly, NEW hits \in HitSets, NEW around \in 0 .. 2,
                    NEW total, total = Len(SplitLines(log)),
                    NEW blocks, blocks = CoalesceWindows(Ascending(hits), total, around)
             PROVE  /\ UNION {blocks[k].start .. blocks[k].end - 1 : k \in DOMAIN blocks} =
                         {l \in 0 .. total - 1 : \E h \in hits : l <= h + around /\ h <= l + around}
                    /\ \A k \in DOMAIN blocks : k > 1 => blocks[k - 1].end < blocks[k].start
  BY DEF BlocksCoverHits
<1> DEFINE a == Ascending(hits)
<1>1. total \in Nat /\ around \in Nat
  <2>1. log \in Seq(Alphabet)
    BY DEF BytesOnly
  <2>2. SplitLines(log) \in Seq(Seq(Alphabet))
    BY <2>1, LinesAre
  <2> QED BY <2>2, LenProperties
<1>2. hits \in SUBSET (0 .. total - 1) /\ hits \in SUBSET Nat /\ IsFiniteSet(hits)
  <2>1. hits \in SUBSET (0 .. total - 1)
    BY DEF HitSets
  <2>2. IsFiniteSet(0 .. total - 1)
    BY <1>1, FS_Interval
  <2>3. IsFiniteSet(hits)
    BY <2>1, <2>2, FS_Subset
  <2> QED BY <2>1, <2>3
<1>3. /\ a \in Seq(hits) /\ Len(a) = Cardinality(hits) /\ Len(a) \in Nat
      /\ \A k \in 1 .. Len(a) : a[k] \in hits
      /\ \A x \in hits : \E k \in 1 .. Len(a) : a[k] = x
      /\ \A j, k \in 1 .. Len(a) : j < k => a[j] < a[k]
  <2>1. /\ a \in Seq(hits) /\ Len(a) = Cardinality(hits)
        /\ \A k \in 1 .. Cardinality(hits) : a[k] \in hits
        /\ \A j, k \in 1 .. Cardinality(hits) : j < k => a[j] < a[k]
    BY <1>2, AscendingOrder
  <2>2. \A x \in hits : \E k \in 1 .. Cardinality(hits) : a[k] = x
    BY <1>2, AscendingAt
  <2> HIDE DEF a
  <2> QED BY <2>1, <2>2, LenProperties
<1> HIDE DEF a
<1>4. HitsIn(a, total)
  <2>1. a \in Seq(0 .. total - 1)
    <3>1. a \in [1 .. Len(a) -> 0 .. total - 1]
      <4>1. a \in [1 .. Len(a) -> hits]
        BY <1>3, LenProperties
      <4> QED BY <1>2, <4>1
    <3> QED BY <1>3, <3>1, SeqOfLength
  <2> QED BY <1>3, <2>1 DEF HitsIn
<1>5. Merged(blocks, a, Len(a), total, around)
  BY <1>1, <1>4, BlocksAre DEF a
<1> DEFINE n == Len(blocks)
<1>6. /\ n \in Nat /\ DOMAIN blocks = 1 .. n
      /\ \A j \in 1 .. n : blocks[j].start \in Nat /\ blocks[j].end \in Nat
  <2>1. blocks \in Seq(Ranges)
    BY <1>5 DEF Merged, Apart
  <2>2. \A j \in 1 .. n : blocks[j] \in Ranges
    BY <2>1, ElementOfSeq
  <2> QED BY <2>1, <2>2, LenProperties DEF Ranges
<1>7. \A l \in Nat : (\E j \in 1 .. n : InBlock(l, blocks[j]))
                       <=> l < total /\ \E x \in 1 .. Len(a) : Near(l, a[x], around)
  BY <1>5 DEF Merged
<1>8. \A j \in 1 .. n - 1 : blocks[j].end < blocks[j + 1].start
  BY <1>5 DEF Merged, Apart
<1> HIDE DEF n
<1> DEFINE U == UNION {blocks[k].start .. blocks[k].end - 1 : k \in DOMAIN blocks}
           V == {l \in 0 .. total - 1 : \E h \in hits : l <= h + around /\ h <= l + around}
<1>9. \A l : l \in U <=> l \in Nat /\ \E j \in 1 .. n : InBlock(l, blocks[j])
  <2>1. \A l : l \in U <=> \E j \in 1 .. n : l \in blocks[j].start .. blocks[j].end - 1
    BY <1>6
  <2>2. ASSUME NEW l, NEW j \in 1 .. n
        PROVE  l \in blocks[j].start .. blocks[j].end - 1 <=> l \in Nat /\ InBlock(l, blocks[j])
    BY <1>6 DEF InBlock
  <2> HIDE DEF U
  <2> QED BY <2>1, <2>2
<1>10. \A l : l \in V <=> l \in Nat /\ l < total /\ \E x \in 1 .. Len(a) : Near(l, a[x], around)
  <2>1. \A l : l \in V <=> l \in 0 .. total - 1 /\ \E h \in hits : Near(l, h, around)
    BY DEF Near
  <2>2. \A l : l \in 0 .. total - 1 <=> l \in Nat /\ l < total
    BY <1>1
  <2> HIDE DEF V
  <2> QED BY <1>3, <2>1, <2>2
<1>11. U = V
  <2> HIDE DEF U, V
  <2> QED BY <1>7, <1>9, <1>10
<1>12. \A k \in DOMAIN blocks : k > 1 => blocks[k - 1].end < blocks[k].start
  <2> SUFFICES ASSUME NEW k \in 1 .. n, k > 1 PROVE blocks[k - 1].end < blocks[k].start
    BY <1>6
  <2>1. k - 1 \in 1 .. n - 1 /\ (k - 1) + 1 = k
    BY <1>6
  <2> QED BY <1>8, <2>1
<1> QED BY <1>11, <1>12

------------------------------------------------------------------------------
(* The hits of grep, and its blocks as rows. *)

\* What grep takes for hits, with a limit or without one, are lines of the file
\* in order.
LEMMA HitsOf ==
  ASSUME NEW A, NEW f \in Seq(A), NEW o, o.limit = None \/ o.limit \in Nat
  PROVE  HitsIn(CollectHits(f, o), Len(SplitLines(f))) /\ Len(SplitLines(f)) \in Nat
<1> DEFINE L == SplitLines(f)
           timed == o.since # None \/ o.until # None
           body(line, p) == IF o.full \/ p = None THEN line ELSE From(line, p.body)
           hit(line) == LET p == ParseMsPrefix(line)
                        IN  /\ timed => InTime(p, o.since)
                            /\ IsMatch(o.pattern, Chomp(body(line, p)))
           G == {k \in UpToLate(L, o.since, o.until) : hit(L[k])}
           found == Ascending(G)
           limit == IF o.limit = None THEN Len(found) ELSE Max({o.limit, 1})
           c == Min({limit, Len(found)})
           hits == [k \in 1 .. c |-> found[k] - 1]
           total == Len(L)
<1>1. CollectHits(f, o) = hits
  BY DEF CollectHits
<1>2. L \in Seq(Seq(A)) /\ total \in Nat /\ DOMAIN L = 1 .. total
  <2>1. L \in Seq(Seq(A))
    BY LinesAre
  <2> HIDE DEF L
  <2> QED BY <2>1, LenProperties
<1>3. G \in SUBSET (1 .. total)
  <2> HIDE DEF hit, L
  <2> QED BY <1>2 DEF UpToLate
<1> HIDE DEF G, L
<1>4. G \in SUBSET Nat /\ IsFiniteSet(G)
  <2>1. IsFiniteSet(1 .. total)
    BY <1>2, FS_Interval
  <2>2. IsFiniteSet(G)
    BY <1>3, <2>1, FS_Subset
  <2> QED BY <1>3, <2>2
<1> DEFINE m == Len(found)
<1>5. /\ m \in Nat /\ \A k \in 1 .. m : found[k] \in G
      /\ \A x, y \in 1 .. m : x < y => found[x] < found[y]
  <2>1. /\ found \in Seq(G) /\ m = Cardinality(G) /\ \A k \in 1 .. Cardinality(G) : found[k] \in G
        /\ \A x, y \in 1 .. Cardinality(G) : x < y => found[x] < found[y]
    BY <1>4, AscendingOrder
  <2> HIDE DEF found
  <2> QED BY <2>1, LenProperties
<1> HIDE DEF found
<1>6. c \in Nat /\ c <= m
  <2>1. limit \in Nat
    <3>1. o.limit \in Nat => Max({o.limit, 1}) \in Nat
      BY MaxOfTwo
    <3> QED BY <1>5, <3>1
  <2> HIDE DEF limit, m
  <2>2. Min({limit, m}) = IF limit <= m THEN limit ELSE m
    BY <1>5, <2>1, MinOfTwo
  <2> QED BY <1>5, <2>1, <2>2 DEF m
<1> HIDE DEF c, m, total
<1>7. \A k \in 1 .. c : k \in 1 .. m /\ found[k] \in Nat /\ found[k] - 1 \in 0 .. total - 1
  <2> SUFFICES ASSUME NEW k \in 1 .. c
               PROVE  k \in 1 .. m /\ found[k] \in Nat /\ found[k] - 1 \in 0 .. total - 1
    OBVIOUS
  <2>1. k \in 1 .. m
    BY <1>5, <1>6
  <2>2. found[k] \in 1 .. total
    BY <1>3, <1>5, <2>1
  <2> QED BY <1>2, <2>1, <2>2
<1>8. hits \in Seq(0 .. total - 1) /\ Len(hits) = c
  <2>1. hits \in [1 .. c -> 0 .. total - 1]
    BY <1>7
  <2> HIDE DEF hits
  <2> QED BY <1>6, <2>1, SeqOfLength
<1>9. \A x, y \in 1 .. c : x < y => hits[x] < hits[y]
  <2> SUFFICES ASSUME NEW x \in 1 .. c, NEW y \in 1 .. c, x < y PROVE hits[x] < hits[y]
    OBVIOUS
  <2>1. hits[x] = found[x] - 1 /\ hits[y] = found[y] - 1
    OBVIOUS
  <2>2. found[x] < found[y] /\ found[x] \in Nat /\ found[y] \in Nat
    BY <1>5, <1>7
  <2> HIDE DEF hits
  <2> QED BY <2>1, <2>2
<1> HIDE DEF hits
<1>10. HitsIn(hits, total)
  BY <1>8, <1>9 DEF HitsIn
<1> QED BY <1>1, <1>2, <1>10 DEF total, L

------------------------------------------------------------------------------
(* The listing of --json. *)

\* the ranges of lines that a file of so many lines has
Within(total) == {b \in Ranges : b.start < b.end /\ b.end <= total}

\* line l of the listing, and the listing of a block
Row(lines, hits, l) ==
  [line_no |-> l, content |-> lines[l], is_match |-> Contains(hits, l - 1)]
Rows(lines, hits, b) == [k \in 1 .. b.end - b.start |-> Row(lines, hits, b.start + k)]

\* the listing after one more block
ListOne(s, b, lines) == [s EXCEPT !.blocks = Append(@, Rows(lines, s.hits, b))]

\* the fold of GrepJson over the places of blocks
ListFold(lines, hits, bs, g) ==
  g = [s \in SUBSET DOMAIN bs |->
         IF s = {} THEN [hits |-> hits, blocks |-> <<>>]
         ELSE ListOne(g[s \ {Max(s)}], bs[Max(s)], lines)]

ListAll(lines, hits, bs) == CHOOSE g : ListFold(lines, hits, bs, g)

\* what is listed of the first k blocks
ListedTo(s, k, lines, hits, bs) ==
  /\ s.hits = hits /\ Len(s.blocks) = k
  /\ \A j \in 1 .. k : s.blocks[j] = Rows(lines, hits, bs[j])

\* --json lists the lines of each block, with their numbers.
LEMMA JsonIs ==
  ASSUME NEW f, NEW o, NEW lines, lines = SplitLines(f), NEW total \in Nat,
         NEW hits, hits = CollectHits(f, o), NEW bs \in Seq(Within(total)), bs = Blocks(f, o)
  PROVE  GrepJson(f, o) = [hits |-> hits,
                           blocks |-> [j \in 1 .. Len(bs) |-> Rows(lines, hits, bs[j])]]
<1> DEFINE A == Within(total)
           R == {Rows(lines, hits, b) : b \in A}
           X == [hits : {hits}, blocks : Seq(R)]
           base == [hits |-> hits, blocks |-> <<>>]
           F == [p \in X \X A |-> ListOne(p[1], p[2], lines)]
           D == DOMAIN bs
<1>1. ASSUME NEW x \in X, NEW b \in A
      PROVE  /\ ListOne(x, b, lines) \in X /\ ListOne(x, b, lines).hits = hits
             /\ ListOne(x, b, lines).blocks = Append(x.blocks, Rows(lines, hits, b))
  <2>1. x.hits = hits /\ x.blocks \in Seq(R) /\ Rows(lines, hits, b) \in R
    OBVIOUS
  <2> HIDE DEF R
  <2>2. Append(x.blocks, Rows(lines, hits, b)) \in Seq(R)
    BY <2>1, AppendProperties
  <2>3. ListOne(x, b, lines) = [x EXCEPT !.blocks = Append(x.blocks, Rows(lines, hits, b))]
    BY <2>1 DEF ListOne
  <2> QED BY <2>1, <2>2, <2>3
<1>2. F \in [X \X A -> X]
  <2> SUFFICES ASSUME NEW p \in X \X A PROVE ListOne(p[1], p[2], lines) \in X
    OBVIOUS
  <2>1. p[1] \in X /\ p[2] \in A
    OBVIOUS
  <2> HIDE DEF X, A
  <2> QED BY <1>1, <2>1
<1>3. base \in X
  <2>1. <<>> \in Seq(R)
    BY EmptySeq
  <2> HIDE DEF R
  <2> QED BY <2>1
<1>r. \A x \in X : x.hits = hits /\ x.blocks \in Seq(R) /\ x = [hits |-> x.hits, blocks |-> x.blocks]
  <2> HIDE DEF R
  <2> QED OBVIOUS
<1> HIDE DEF X, A, base
<1>0. bs \in Seq(A)
  BY DEF A
<1>4. \A x \in X, b \in A : F[<<x, b>>] = ListOne(x, b, lines)
  <2> SUFFICES ASSUME NEW x \in X, NEW b \in A PROVE F[<<x, b>>] = ListOne(x, b, lines)
    OBVIOUS
  <2>1. <<x, b>> \in X \X A
    OBVIOUS
  <2> QED BY <2>1
<1> HIDE DEF F
<1>5. PICK g \in [SUBSET D -> X] : IsFold(bs, base, F, g)
  BY <1>0, <1>2, <1>3, FoldsEnd
<1>6. \A s \in SUBSET D : s # {} => g[s \ {Max(s)}] \in X /\ bs[Max(s)] \in A
  BY <1>0, <1>2, <1>3, <1>5, FoldIs
<1>7. ListFold(lines, hits, bs, g)
  <2>1. g = [s \in SUBSET D |->
               IF s = {} THEN base ELSE F[<<g[s \ {Max(s)}], bs[Max(s)]>>]]
    BY <1>5 DEF IsFold
  <2>2. g = [s \in SUBSET D |->
               IF s = {} THEN base ELSE ListOne(g[s \ {Max(s)}], bs[Max(s)], lines)]
    BY <1>4, <1>6, <2>1
  <2> QED BY <2>2 DEF ListFold, base
<1> DEFINE h == ListAll(lines, hits, bs)
<1>8. ListFold(lines, hits, bs, h)
  BY <1>7 DEF ListAll
<1>9. GrepJson(f, o) = h[D]
  <2>1. GrepJson(f, o) =
          ListAll(SplitLines(f), CollectHits(f, o), Blocks(f, o))[DOMAIN Blocks(f, o)]
    BY DEF GrepJson, LineNo, FoldLeft, MapThenFoldSet, ListAll, ListFold, ListOne, Rows, Row
  <2> QED BY <2>1
<1> HIDE DEF h
<1>10. FoldsOn(bs, X, base, F, h)
  <2>1. h[{}] = base
    BY <1>8 DEF ListFold, base
  <2>2. ASSUME NEW s \in SUBSET D, s # {}, h[s \ {Max(s)}] \in X
        PROVE  h[s] = F[<<h[s \ {Max(s)}], bs[Max(s)]>>]
    <3>1. h[s] = ListOne(h[s \ {Max(s)}], bs[Max(s)], lines)
      BY <1>8, <2>2 DEF ListFold
    <3> QED BY <1>4, <1>6, <2>2, <3>1
  <2> QED BY <2>1, <2>2 DEF FoldsOn
<1>t. Taken(bs, X, base, F, h[D])
  BY <1>0, <1>2, <1>3, <1>10, FoldTaken
<1>11. PICK st \in [0 .. Len(bs) -> X] :
         GoesThrough(bs, base, F, st) /\ h[D] = st[Len(bs)]
  BY <1>t DEF Taken
<1> DEFINE M == {k \in Nat : k <= Len(bs) => ListedTo(st[k], k, lines, hits, bs)}
<1>n. Len(bs) \in Nat /\ \A k \in 1 .. Len(bs) : bs[k] \in A
  BY <1>0, LenProperties, ElementOfSeq
<1>12. 0 \in M
  <2>1. st[0] = base
    BY <1>11 DEF GoesThrough
  <2>2. base.hits = hits /\ base.blocks = <<>>
    BY DEF base
  <2>3. Len(<<>>) = 0
    BY EmptySeq
  <2> QED BY <2>1, <2>2, <2>3 DEF ListedTo
<1>13. ASSUME NEW k \in Nat, k \in M PROVE k + 1 \in M
  <2> SUFFICES ASSUME k + 1 <= Len(bs) PROVE ListedTo(st[k + 1], k + 1, lines, hits, bs)
    OBVIOUS
  <2>1. k \in 0 .. Len(bs) /\ k <= Len(bs) /\ k + 1 \in 1 .. Len(bs) /\ (k + 1) - 1 = k
    BY <1>n
  <2>2. ListedTo(st[k], k, lines, hits, bs)
    BY <1>13, <2>1
  <2>3. st[k + 1] = F[<<st[k], bs[k + 1]>>] /\ st[k] \in X /\ bs[k + 1] \in A
    BY <1>11, <1>n, <2>1 DEF GoesThrough
  <2>4. st[k + 1] = ListOne(st[k], bs[k + 1], lines)
    BY <1>4, <2>3
  <2> DEFINE r == Rows(lines, hits, bs[k + 1])
             old == st[k].blocks
             new == st[k + 1].blocks
  <2>5. st[k + 1].hits = hits /\ new = Append(old, r)
    BY <1>1, <2>3, <2>4, SMTT(40)
  <2>6. old \in Seq(R) /\ r \in R /\ Len(old) = k /\ \A j \in 1 .. k : old[j] = Rows(lines, hits, bs[j])
    BY <1>r, <2>2, <2>3 DEF ListedTo
  <2> HIDE DEF R, r, old, new
  <2>7. Len(new) = k + 1 /\ (\A j \in 1 .. k : new[j] = old[j]) /\ new[k + 1] = r
    BY <2>5, <2>6, AppendProperties
  <2>8. \A j \in 1 .. k + 1 : j \in 1 .. k \/ j = k + 1
    OBVIOUS
  <2>9. \A j \in 1 .. k + 1 : new[j] = Rows(lines, hits, bs[j])
    BY <2>6, <2>7, <2>8 DEF r
  <2> QED BY <2>5, <2>7, <2>9 DEF ListedTo, new
<1> HIDE DEF M
<1>14. ListedTo(st[Len(bs)], Len(bs), lines, hits, bs)
  <2>1. Len(bs) \in M
    BY <1>n, <1>12, <1>13, SetInduction
  <2> QED BY <1>n, <2>1 DEF M
<1> DEFINE e == st[Len(bs)]
<1>15. e \in X
  BY <1>11, <1>n
<1>16. e.blocks = [j \in 1 .. Len(bs) |-> Rows(lines, hits, bs[j])]
  <2>1. e.blocks \in [1 .. Len(e.blocks) -> R]
    BY <1>r, <1>15, LenProperties
  <2> HIDE DEF e, R
  <2> QED BY <1>14, <2>1 DEF ListedTo, e
<1>17. e.hits = hits /\ e = [hits |-> e.hits, blocks |-> e.blocks]
  BY <1>r, <1>15
<1> HIDE DEF e
<1> QED BY <1>9, <1>11, <1>16, <1>17 DEF e

------------------------------------------------------------------------------
(* The plain form of grep. *)

\* the bytes of a block
BlockText(lines, b) == FlattenSeq(SubSeq(lines, b.start + 1, b.end))

Separator == <<"--", NL>>

\* the output after one more block
PrintOne(s, b, lines, o) ==
  LET fed == Feed([s.stripper EXCEPT !.out = <<>>], BlockText(lines, b))
  IN  [stripper |-> fed, between |-> Separator,
       out |-> s.out \o s.between \o (IF o.strip THEN fed.out ELSE BlockText(lines, b))]

Unprinted == [stripper |-> NewStripper, between |-> <<>>, out |-> <<>>]

\* the fold of GrepPlain over the places of blocks
PrintFold(lines, bs, o, g) ==
  g = [s \in SUBSET DOMAIN bs |->
         IF s = {} THEN Unprinted ELSE PrintOne(g[s \ {Max(s)}], bs[Max(s)], lines, o)]
PrintAll(lines, bs, o) == CHOOSE g : PrintFold(lines, bs, o, g)

Unstripped(o) == o.strip = FALSE

\* the blocks, a separator before each but the first
Joined(lines, bs) ==
  [j \in 1 .. Len(bs) |-> (IF j > 1 THEN Separator ELSE <<>>) \o BlockText(lines, bs[j])]

LEMMA SeqWider ==
  ASSUME NEW A, NEW B, A \subseteq B, NEW s \in Seq(A)
  PROVE  s \in Seq(B)
<1>1. s \in [1 .. Len(s) -> A] /\ Len(s) \in Nat
  BY LenProperties
<1>2. s \in [1 .. Len(s) -> B]
  BY <1>1
<1> QED BY <1>1, <1>2, SeqDef

LEMMA FlattenType ==
  ASSUME NEW A, NEW seqs \in Seq(Seq(A))
  PROVE  FlattenSeq(seqs) \in Seq(A)
<1>1. PICK st \in [0 .. Len(seqs) -> Seq(A)] : FlattenSeq(seqs) = st[Len(seqs)]
  BY FlattenSteps
<1>2. Len(seqs) \in 0 .. Len(seqs)
  <2>1. Len(seqs) \in Nat
    BY LenProperties
  <2> QED BY <2>1
<1> QED BY <1>1, <1>2

LEMMA FeedType ==
  ASSUME NEW A, NEW f \in Seq(A), NEW stripper \in [state : States, out : Seq(A)]
  PROVE  Feed(stripper, f) \in [state : States, out : Seq(A)]
<1> DEFINE X == [state : States, out : Seq(A)]
<1>1. \E st \in [0 .. Len(f) -> X] : Feed(stripper, f) = st[Len(f)]
  BY FeedSteps
<1>2. Len(f) \in 0 .. Len(f)
  <2>1. Len(f) \in Nat
    BY LenProperties
  <2> QED BY <2>1
<1> HIDE DEF X
<1>3. Feed(stripper, f) \in X
  BY <1>1, <1>2
<1> QED BY <1>3 DEF X

\* s are the lines of a block
LinesIn(s, lines, b) ==
  Len(s) = b.end - b.start /\ \A k \in 1 .. b.end - b.start : s[k] = lines[b.start + k]

\* The lines of a block.
LEMMA BlockIs ==
  ASSUME NEW A, NEW lines \in Seq(Seq(A)), NEW total, total = Len(lines), NEW b \in Within(total)
  PROVE  /\ BlockText(lines, b) \in Seq(A)
         /\ SubSeq(lines, b.start + 1, b.end) \in Seq(Seq(A))
         /\ LinesIn(SubSeq(lines, b.start + 1, b.end), lines, b)
<1>1. b.start \in Nat /\ b.end \in Nat /\ b.start < b.end /\ b.end <= Len(lines)
  BY DEF Within, Ranges
<1>2. PICK p \in Nat, q \in Nat : p = b.start /\ q = b.end /\ p < q /\ q <= Len(lines)
  BY <1>1
<1>3. PICK n \in Nat, u \in Nat : n = q - p /\ u = p + 1
  BY <1>2
<1>6. /\ u > 0 /\ u <= q + 1 /\ (q + 1) - u = n /\ u - 1 = p
  BY <1>2, <1>3, SMTT(40)
<1> DEFINE B == Seq(A)
           s == SubSeq(lines, u, q)
<1> HIDE DEF B
<1>0. lines \in Seq(B)
  BY DEF B
<1>b. /\ s \in Seq(B) /\ Len(s) = n
      /\ \A k \in 1 .. n : s[k] = lines[p + k]
  <2>1. /\ s \in Seq(B) /\ Len(s) = (q + 1) - u
        /\ \A k \in 1 .. (q + 1) - u : s[k] = lines[(u - 1) + k]
    BY <1>0, <1>2, <1>6, BufPart, SMTT(40)
  <2> HIDE DEF s
  <2> QED BY <1>6, <2>1
<1> HIDE DEF s
<1>5. FlattenSeq(s) \in Seq(A)
  BY <1>b, FlattenType DEF B
<1>7. /\ SubSeq(lines, b.start + 1, b.end) = s
      /\ b.end - b.start = n /\ \A k \in 1 .. n : b.start + k = p + k
  BY <1>2, <1>3 DEF s
<1> QED BY <1>b, <1>5, <1>7 DEF BlockText, B, LinesIn

Regroups(r, q, t) == (r \o q) \o t = r \o (q \o t)
LEMMA ConcatRegroups ==
  ASSUME NEW C, NEW r \in Seq(C), NEW q \in Seq(C), NEW t \in Seq(C)
  PROVE  Regroups(r, q, t)
  BY ConcatAssociative DEF Regroups

\* Without --strip-ansi, grep prints the blocks with a separator between them.
LEMMA PlainIs ==
  ASSUME NEW A, NEW f, NEW o, Unstripped(o),
         NEW lines \in Seq(Seq(A)), lines = SplitLines(f), NEW total, total = Len(lines),
         NEW bs \in Seq(Within(total)), bs = Blocks(f, o)
  PROVE  GrepPlain(f, o) = FlattenSeq(Joined(lines, bs))
<1> DEFINE B == Within(total)
           C == A \cup {"--", NL}
           S == [state : States, out : Seq(A)]
           X == [stripper : S, between : {<<>>, Separator}, out : Seq(C)]
           F == [p \in X \X B |-> PrintOne(p[1], p[2], lines, o)]
           D == DOMAIN bs
<1>a. \A b \in B : BlockText(lines, b) \in Seq(A) /\ BlockText(lines, b) \in Seq(C)
  <2> SUFFICES ASSUME NEW b \in B PROVE BlockText(lines, b) \in Seq(A) /\ BlockText(lines, b) \in Seq(C)
    OBVIOUS
  <2>1. BlockText(lines, b) \in Seq(A)
    BY BlockIs
  <2>2. A \subseteq C
    OBVIOUS
  <2> QED BY <2>1, <2>2, SeqWider
<1>b. <<>> \in Seq(A) /\ <<>> \in Seq(C) /\ Separator \in Seq(C)
  <2>1. "--" \in C /\ NL \in C
    OBVIOUS
  <2> HIDE DEF C
  <2> QED BY <2>1, EmptySeq DEF Separator
<1> HIDE DEF C
<1>s. \A x \in X : x.stripper \in S /\ x.between \in {<<>>, Separator} /\ x.out \in Seq(C)
  <2> HIDE DEF S
  <2> QED OBVIOUS
<1>1. ASSUME NEW x \in X, NEW b \in B
      PROVE  /\ PrintOne(x, b, lines, o) \in X /\ PrintOne(x, b, lines, o).between = Separator
             /\ PrintOne(x, b, lines, o).out = (x.out \o x.between) \o BlockText(lines, b)
  <2> DEFINE t == BlockText(lines, b)
             fed == Feed([x.stripper EXCEPT !.out = <<>>], t)
  <2>1. [x.stripper EXCEPT !.out = <<>>] \in S
    <3>1. x.stripper \in S
      BY <1>s
    <3> QED BY <1>b, <3>1
  <2>2. fed \in S
    <3>1. t \in Seq(A)
      BY <1>a
    <3> HIDE DEF t
    <3> QED BY <2>1, <3>1, FeedType
  <2>3. PrintOne(x, b, lines, o) =
          [stripper |-> fed, between |-> Separator, out |-> (x.out \o x.between) \o t]
    BY DEF PrintOne, Unstripped
  <2>4. (x.out \o x.between) \o t \in Seq(C)
    <3>1. x.out \in Seq(C) /\ x.between \in Seq(C) /\ t \in Seq(C)
      BY <1>a, <1>b, <1>s
    <3> HIDE DEF t
    <3>2. x.out \o x.between \in Seq(C)
      BY <3>1, ConcatProperties
    <3> QED BY <3>1, <3>2, ConcatProperties
  <2> HIDE DEF fed, t, S
  <2>5. PrintOne(x, b, lines, o) \in X
    BY <2>2, <2>3, <2>4
  <2> HIDE DEF X
  <2>6. /\ PrintOne(x, b, lines, o).between = Separator
        /\ PrintOne(x, b, lines, o).out = (x.out \o x.between) \o t
    <3>1. PICK z : z = (x.out \o x.between) \o t
      OBVIOUS
    <3>2. PrintOne(x, b, lines, o) = [stripper |-> fed, between |-> Separator, out |-> z]
      BY <2>3, <3>1
    <3>3. PrintOne(x, b, lines, o).between = Separator /\ PrintOne(x, b, lines, o).out = z
      BY <3>2
    <3> QED BY <3>1, <3>3
  <2> QED BY <2>5, <2>6 DEF t
<1>2. F \in [X \X B -> X]
  <2> SUFFICES ASSUME NEW p \in X \X B PROVE PrintOne(p[1], p[2], lines, o) \in X
    OBVIOUS
  <2>1. p[1] \in X /\ p[2] \in B
    OBVIOUS
  <2> HIDE DEF X, B
  <2> QED BY <1>1, <2>1
<1>3. Unprinted \in X
  <2>1. NewStripper \in S
    BY <1>b DEF NewStripper, States
  <2> HIDE DEF S
  <2> QED BY <1>b, <2>1 DEF Unprinted
<1> HIDE DEF X, B
<1>0. bs \in Seq(B)
  BY DEF B
<1>4. \A x \in X, b \in B : F[<<x, b>>] = PrintOne(x, b, lines, o)
  <2> SUFFICES ASSUME NEW x \in X, NEW b \in B PROVE F[<<x, b>>] = PrintOne(x, b, lines, o)
    OBVIOUS
  <2>1. <<x, b>> \in X \X B
    OBVIOUS
  <2> QED BY <2>1
<1> HIDE DEF F
<1>5. PICK g \in [SUBSET D -> X] : IsFold(bs, Unprinted, F, g)
  BY <1>0, <1>2, <1>3, FoldsEnd
<1>6. \A s \in SUBSET D : s # {} => g[s \ {Max(s)}] \in X /\ bs[Max(s)] \in B
  BY <1>0, <1>2, <1>3, <1>5, FoldIs
<1>7. PrintFold(lines, bs, o, g)
  <2>1. g = [s \in SUBSET D |->
               IF s = {} THEN Unprinted ELSE F[<<g[s \ {Max(s)}], bs[Max(s)]>>]]
    BY <1>5 DEF IsFold
  <2>2. g = [s \in SUBSET D |->
               IF s = {} THEN Unprinted ELSE PrintOne(g[s \ {Max(s)}], bs[Max(s)], lines, o)]
    BY <1>4, <1>6, <2>1
  <2> QED BY <2>2 DEF PrintFold
<1> DEFINE h == PrintAll(lines, bs, o)
<1>8. PrintFold(lines, bs, o, h)
  BY <1>7 DEF PrintAll
<1>9. GrepPlain(f, o) = h[D].out
  <2>1. GrepPlain(f, o) = PrintAll(SplitLines(f), Blocks(f, o), o)[DOMAIN Blocks(f, o)].out
    BY DEF GrepPlain, FoldLeft, MapThenFoldSet, PrintAll, PrintFold, PrintOne, BlockText,
           Separator, Unprinted
  <2> QED BY <2>1
<1> HIDE DEF h
<1>10. FoldsOn(bs, X, Unprinted, F, h)
  <2>1. h[{}] = Unprinted
    BY <1>8 DEF PrintFold
  <2>2. ASSUME NEW s \in SUBSET D, s # {}, h[s \ {Max(s)}] \in X
        PROVE  h[s] = F[<<h[s \ {Max(s)}], bs[Max(s)]>>]
    <3>1. h[s] = PrintOne(h[s \ {Max(s)}], bs[Max(s)], lines, o)
      BY <1>8, <2>2 DEF PrintFold
    <3> QED BY <1>4, <1>6, <2>2, <3>1
  <2> QED BY <2>1, <2>2 DEF FoldsOn
<1>t. Taken(bs, X, Unprinted, F, h[D])
  BY <1>0, <1>2, <1>3, <1>10, FoldTaken
<1>11. PICK st \in [0 .. Len(bs) -> X] :
         GoesThrough(bs, Unprinted, F, st) /\ h[D] = st[Len(bs)]
  BY <1>t DEF Taken
<1>n. Len(bs) \in Nat /\ \A k \in 1 .. Len(bs) : bs[k] \in B
  BY <1>0, LenProperties, ElementOfSeq
<1> DEFINE J == Joined(lines, bs)
<1>12. /\ J \in Seq(Seq(C)) /\ Len(J) = Len(bs)
       /\ \A k \in 1 .. Len(bs) :
            J[k] = (IF k > 1 THEN Separator ELSE <<>>) \o BlockText(lines, bs[k])
  <2>1. \A k \in 1 .. Len(bs) :
          /\ (IF k > 1 THEN Separator ELSE <<>>) \in Seq(C) /\ BlockText(lines, bs[k]) \in Seq(C)
          /\ J[k] = (IF k > 1 THEN Separator ELSE <<>>) \o BlockText(lines, bs[k])
    <3>1. \A k \in 1 .. Len(bs) : (IF k > 1 THEN Separator ELSE <<>>) \in Seq(C)
      BY <1>b
    <3>2. \A k \in 1 .. Len(bs) : BlockText(lines, bs[k]) \in Seq(C)
      BY <1>a, <1>n
    <3>3. \A k \in 1 .. Len(bs) :
            J[k] = (IF k > 1 THEN Separator ELSE <<>>) \o BlockText(lines, bs[k])
      BY DEF Joined
    <3> HIDE DEF J
    <3> QED BY <3>1, <3>2, <3>3
  <2>2. \A k \in 1 .. Len(bs) : J[k] \in Seq(C)
    <3> HIDE DEF J
    <3> SUFFICES ASSUME NEW k \in 1 .. Len(bs) PROVE J[k] \in Seq(C)
      OBVIOUS
    <3>1. PICK q, t : q = (IF k > 1 THEN Separator ELSE <<>>) /\ t = BlockText(lines, bs[k])
      OBVIOUS
    <3>2. q \in Seq(C) /\ t \in Seq(C) /\ J[k] = q \o t
      BY <2>1, <3>1
    <3>3. q \o t \in Seq(C)
      BY <3>2, ConcatProperties
    <3> QED BY <3>2, <3>3
  <2>3. J = [k \in 1 .. Len(bs) |-> J[k]]
    BY DEF Joined
  <2> HIDE DEF J
  <2>4. J \in [1 .. Len(bs) -> Seq(C)]
    <3>1. PICK j, I : j = J /\ I = 1 .. Len(bs)
      OBVIOUS
    <3>2. j \in [I -> Seq(C)]
      BY <2>2, <2>3, <3>1, SMTT(40)
    <3> QED BY <3>1, <3>2
  <2>5. J \in Seq(Seq(C)) /\ Len(J) = Len(bs)
    BY <1>n, <2>4, SeqOfLength
  <2> QED BY <2>1, <2>5
<1> HIDE DEF J
<1>13. PICK sf \in [0 .. Len(bs) -> Seq(C)] : Flattens(J, sf) /\ FlattenSeq(J) = sf[Len(bs)]
  BY <1>12, FlattenSteps, ZenonT(40)
<1> DEFINE Printed(s, k) == s.out = sf[k] /\ s.between = IF k = 0 THEN <<>> ELSE Separator
           M == {k \in Nat : k <= Len(bs) => Printed(st[k], k)}
<1>14. 0 \in M
  <2>1. st[0] = Unprinted /\ sf[0] = <<>>
    BY <1>11, <1>13 DEF GoesThrough, Flattens
  <2> QED BY <2>1 DEF Unprinted
<1>15. ASSUME NEW k \in Nat, k \in M PROVE k + 1 \in M
  <2> SUFFICES ASSUME k + 1 <= Len(bs) PROVE Printed(st[k + 1], k + 1)
    OBVIOUS
  <2>1. /\ k \in 0 .. Len(bs) /\ k <= Len(bs) /\ k + 1 \in 1 .. Len(bs) /\ (k + 1) - 1 = k
        /\ k + 1 # 0 /\ (k + 1 > 1 <=> k # 0)
    BY <1>n
  <2>2. Printed(st[k], k)
    BY <1>15, <2>1
  <2>3. st[k + 1] = F[<<st[k], bs[k + 1]>>] /\ st[k] \in X /\ bs[k + 1] \in B
    BY <1>11, <1>n, <2>1 DEF GoesThrough
  <2>4. st[k + 1] = PrintOne(st[k], bs[k + 1], lines, o)
    BY <1>4, <2>3
  <2>d. PICK x \in X, b \in B : x = st[k] /\ b = bs[k + 1]
    BY <2>3
  <2>e. /\ PrintOne(x, b, lines, o).between = Separator
        /\ PrintOne(x, b, lines, o).out = (x.out \o x.between) \o BlockText(lines, b)
    BY <1>1
  <2> DEFINE t == BlockText(lines, bs[k + 1])
             q == st[k].between
             r == st[k].out
  <2>5. st[k + 1].between = Separator /\ st[k + 1].out = (r \o q) \o t
    BY <2>4, <2>d, <2>e
  <2>6. q \in Seq(C) /\ r \in Seq(C) /\ t \in Seq(C)
    BY <1>a, <1>b, <1>s, <2>3
  <2>7. J[k + 1] = q \o t
    BY <1>12, <2>1, <2>2
  <2>8. sf[k + 1] = r \o J[k + 1]
    <3>1. sf[k + 1] = sf[k] \o J[k + 1]
      BY <1>12, <1>13, <2>1 DEF Flattens
    <3>2. sf[k] = r
      BY <2>2
    <3> QED BY <3>1, <3>2
  <2> HIDE DEF q, r, t
  <2>9. (r \o q) \o t = r \o (q \o t)
    <3>1. Regroups(r, q, t)
      BY <2>6, ConcatRegroups
    <3> QED BY <3>1 DEF Regroups
  <2> QED BY <2>1, <2>5, <2>7, <2>8, <2>9
<1> HIDE DEF M
<1>16. Printed(st[Len(bs)], Len(bs))
  <2>1. Len(bs) \in M
    BY <1>n, <1>14, <1>15, SetInduction
  <2> QED BY <1>n, <2>1 DEF M
<1> QED BY <1>9, <1>11, <1>13, <1>16 DEF J

------------------------------------------------------------------------------
(* The two forms of grep. *)

\* the rows of the lines of a file
RowsOf(lines, hits) == {Row(lines, hits, l) : l \in 1 .. Len(lines)}

\* the rows of each block
RowBlocks(lines, hits, bs) == [j \in 1 .. Len(bs) |-> Rows(lines, hits, bs[j])]

\* the marked ones, and the lines that they are for
Marked(listed) == Picked(listed, {k \in DOMAIN listed : listed[k].is_match})
HitsOfRows(marked) == [k \in DOMAIN marked |-> marked[k].line_no - 1]

\* each hit is in a block
Covered(hits, bs) == \A x \in 1 .. Len(hits) : \E j \in 1 .. Len(bs) : InBlock(hits[x], bs[j])

\* what GrepFormsAgree says of a listing
FormsTell(o, json, listed) ==
  LET lines == SplitLines(log)
      marked == Picked(listed, {k \in DOMAIN listed : listed[k].is_match})
      contents(b) == FlattenSeq([k \in DOMAIN b |-> b[k].content])
      joined == [i \in DOMAIN json.blocks |->
                   (IF i > 1 THEN <<"--", NL>> ELSE <<>>) \o contents(json.blocks[i])]
  IN  /\ \A k \in DOMAIN listed :
           /\ listed[k].line_no \in DOMAIN lines
           /\ listed[k].content = lines[listed[k].line_no]
      /\ [k \in DOMAIN marked |-> marked[k].line_no - 1] = json.hits
      /\ GrepPlain(log, o) = FlattenSeq(joined)

\* A listing of the first k blocks: their lines, in order, and no line after them.
Lists(s, rows, bs, k) ==
  /\ s \in Seq(rows)
  /\ \A x, y \in 1 .. Len(s) : x < y => s[x].line_no < s[y].line_no
  /\ k = 0 => Len(s) = 0
  /\ k > 0 => \A x \in 1 .. Len(s) : s[x].line_no <= bs[k].end
  /\ \A j \in 1 .. k : \A l \in Nat :
       InBlock(l, bs[j]) => \E x \in 1 .. Len(s) : s[x].line_no = l + 1

\* The rows of a block are numbered from its start on.
LEMMA RowsAre ==
  ASSUME NEW A, NEW lines \in Seq(Seq(A)), NEW total, total = Len(lines), NEW hits,
         NEW b \in Within(total), NEW t, t = Rows(lines, hits, b)
  PROVE  /\ t \in Seq(RowsOf(lines, hits)) /\ Len(t) = b.end - b.start
         /\ \A k \in 1 .. b.end - b.start : t[k].line_no = b.start + k
<1> DEFINE n == b.end - b.start
           R == RowsOf(lines, hits)
<1>1. b.start \in Nat /\ b.end \in Nat /\ b.start < b.end /\ b.end <= Len(lines)
  BY DEF Within, Ranges
<1>2. n \in Nat /\ \A k \in 1 .. n : b.start + k \in 1 .. Len(lines)
  <2>1. PICK p \in Nat, q \in Nat, l \in Nat :
          p = b.start /\ q = b.end /\ l = Len(lines) /\ p < q /\ q <= l
    BY <1>1, LenProperties
  <2>2. q - p \in Nat /\ \A k \in 1 .. q - p : p + k \in 1 .. l
    BY <2>1, SMTT(40)
  <2> QED BY <2>1, <2>2
<1> HIDE DEF n
<1>3. t = [k \in 1 .. n |-> Row(lines, hits, b.start + k)]
  BY DEF Rows, n
<1>4. \A k \in 1 .. n : t[k] = Row(lines, hits, b.start + k) /\ Row(lines, hits, b.start + k) \in R
  BY <1>2, <1>3 DEF RowsOf
<1>5. \A k \in 1 .. n : t[k].line_no = b.start + k
  <2>1. \A l : Row(lines, hits, l).line_no = l
    BY DEF Row
  <2> HIDE DEF R
  <2> QED BY <1>4, <2>1
<1> HIDE DEF R
<1>6. t \in [1 .. n -> R]
  BY <1>3, <1>4
<1>7. t \in Seq(R) /\ Len(t) = n
  BY <1>2, <1>6, SeqOfLength
<1> QED BY <1>5, <1>7 DEF n, R

\* One more block.
LEMMA ListsOne ==
  ASSUME NEW A, NEW lines \in Seq(Seq(A)), NEW total, total = Len(lines), NEW hits,
         NEW bs, Apart(bs, total), NEW k \in 0 .. Len(bs) - 1,
         NEW rows, rows = RowsOf(lines, hits),
         NEW s, Lists(s, rows, bs, k)
  PROVE  Lists(s \o Rows(lines, hits, bs[k + 1]), rows, bs, k + 1)
<1>0. PICK t : t = Rows(lines, hits, bs[k + 1])
  OBVIOUS
<1>1. PICK b : b = bs[k + 1]
  OBVIOUS
<1>2. /\ Len(bs) \in Nat /\ k \in Nat /\ k + 1 \in 1 .. Len(bs) /\ total \in Nat
      /\ \A j \in 1 .. Len(bs) : bs[j] \in Within(total) /\ bs[j].start \in Nat /\ bs[j].end \in Nat
  <2>1. bs \in Seq(Ranges) /\ total \in Nat
    BY LenProperties DEF Apart
  <2>2. Len(bs) \in Nat /\ \A j \in 1 .. Len(bs) : bs[j] \in Ranges
    BY <2>1, LenProperties, ElementOfSeq
  <2>3. \A j \in 1 .. Len(bs) : bs[j] \in Within(total)
    BY <2>2 DEF Apart, Within
  <2>4. \A j \in 1 .. Len(bs) : bs[j].start \in Nat /\ bs[j].end \in Nat
    BY <2>2 DEF Ranges
  <2>5. k \in Nat /\ k + 1 \in 1 .. Len(bs)
    BY <2>2
  <2> QED BY <2>1, <2>2, <2>3, <2>4, <2>5
<1>3. b \in Within(total) /\ b.start \in Nat /\ b.end \in Nat /\ b.start < b.end
  <2>1. b.start < b.end
    BY <1>1, <1>2 DEF Apart
  <2> QED BY <1>1, <1>2, <2>1
<1>4. PICK m \in Nat : m = b.end - b.start
  BY <1>3
<1>5. /\ t \in Seq(rows) /\ Len(t) = m /\ \A x \in 1 .. m : t[x].line_no = b.start + x
  <2>1. t = Rows(lines, hits, b)
    BY <1>0, <1>1
  <2>2. /\ t \in Seq(RowsOf(lines, hits)) /\ Len(t) = b.end - b.start
        /\ \A x \in 1 .. b.end - b.start : t[x].line_no = b.start + x
    BY <1>3, <2>1, RowsAre
  <2> QED BY <1>4, <2>2
<1>6. PICK n \in Nat : n = Len(s) /\ s \in Seq(rows)
  BY LenProperties DEF Lists
<1>7. PICK u : u = s \o t
  OBVIOUS
<1>8. /\ u \in Seq(rows) /\ Len(u) = n + m
      /\ \A x \in 1 .. n + m : u[x] = IF x <= n THEN s[x] ELSE t[x - n]
  BY <1>5, <1>6, <1>7, ConcatProperties
<1>9. /\ \A x \in 1 .. n : u[x] = s[x]
      /\ \A x \in 1 .. m : u[n + x].line_no = b.start + x
  <2>1. \A x \in 1 .. n : x \in 1 .. n + m /\ x <= n
    OBVIOUS
  <2>2. \A x \in 1 .. m : n + x \in 1 .. n + m /\ ~ (n + x <= n) /\ (n + x) - n = x
    OBVIOUS
  <2>3. \A x \in 1 .. m : u[n + x] = t[x]
    BY <1>8, <2>2
  <2> QED BY <1>5, <1>8, <2>1, <2>3
<1>10. \A x \in 1 .. n + m : x \in 1 .. n \/ \E y \in 1 .. m : x = n + y
  <2> SUFFICES ASSUME NEW x \in 1 .. n + m, x \notin 1 .. n PROVE \E y \in 1 .. m : x = n + y
    OBVIOUS
  <2>1. x - n \in 1 .. m /\ x = n + (x - n)
    OBVIOUS
  <2> QED BY <2>1
<1>11. \A x \in 1 .. n : s[x].line_no \in Nat /\ s[x].line_no < b.start
  <2> SUFFICES ASSUME NEW x \in 1 .. n PROVE s[x].line_no \in Nat /\ s[x].line_no < b.start
    OBVIOUS
  <2>1. s[x] \in RowsOf(lines, hits)
    BY <1>6, ElementOfSeq
  <2>2. s[x].line_no \in Nat
    <3>1. PICK l \in 1 .. Len(lines) : s[x] = Row(lines, hits, l)
      BY <2>1 DEF RowsOf
    <3>2. s[x].line_no = l /\ l \in Nat
      BY <3>1 DEF Row
    <3> QED BY <3>2
  <2>3. k > 0
    <3>1. k # 0
      BY <1>6 DEF Lists
    <3> QED BY <1>2, <3>1
  <2>4. s[x].line_no <= bs[k].end
    BY <1>6, <2>3 DEF Lists
  <2>5. k \in 1 .. Len(bs) - 1 /\ k \in 1 .. Len(bs)
    BY <1>2, <2>3
  <2>6. bs[k].end < b.start /\ bs[k].end \in Nat
    BY <1>1, <1>2, <2>5 DEF Apart
  <2> QED BY <1>3, <2>2, <2>4, <2>6
<1>12. \A x, y \in 1 .. n + m : x < y => u[x].line_no < u[y].line_no
  <2> SUFFICES ASSUME NEW x \in 1 .. n + m, NEW y \in 1 .. n + m, x < y
               PROVE  u[x].line_no < u[y].line_no
    OBVIOUS
  <2>1. CASE x \in 1 .. n /\ y \in 1 .. n
    <3>1. s[x].line_no < s[y].line_no
      BY <1>6, <2>1 DEF Lists
    <3> QED BY <1>9, <2>1, <3>1
  <2>2. CASE y \notin 1 .. n
    <3>1. PICK w \in 1 .. m : y = n + w
      BY <1>10, <2>2
    <3>2. u[y].line_no = b.start + w
      BY <1>9, <3>1
    <3>3. CASE x \in 1 .. n
      <4>1. u[x].line_no \in Nat /\ u[x].line_no < b.start
        BY <1>9, <1>11, <3>3
      <4> QED BY <1>3, <3>2, <4>1
    <3>4. CASE x \notin 1 .. n
      <4>1. PICK v \in 1 .. m : x = n + v
        BY <1>10, <3>4
      <4>2. u[x].line_no = b.start + v /\ v < w
        BY <1>9, <3>1, <4>1
      <4> QED BY <1>3, <3>2, <4>2
    <3> QED BY <3>3, <3>4
  <2>3. y \in 1 .. n => x \in 1 .. n
    OBVIOUS
  <2> QED BY <2>1, <2>2, <2>3
<1>13. \A x \in 1 .. n + m : u[x].line_no <= bs[k + 1].end
  <2> SUFFICES ASSUME NEW x \in 1 .. n + m PROVE u[x].line_no <= b.end
    BY <1>1
  <2>1. CASE x \in 1 .. n
    <3>1. u[x].line_no \in Nat /\ u[x].line_no < b.start
      BY <1>9, <1>11, <2>1
    <3> QED BY <1>3, <3>1
  <2>2. CASE x \notin 1 .. n
    <3>1. PICK v \in 1 .. m : x = n + v
      BY <1>10, <2>2
    <3>2. u[x].line_no = b.start + v
      BY <1>9, <3>1
    <3>3. b.start + v <= b.end
      BY <1>3, <1>4, SMTT(40)
    <3> QED BY <3>2, <3>3
  <2> QED BY <2>1, <2>2
<1>14. ASSUME NEW j \in 1 .. k + 1, NEW l \in Nat, InBlock(l, bs[j])
       PROVE  \E x \in 1 .. n + m : u[x].line_no = l + 1
  <2>1. CASE j \in 1 .. k
    <3>1. PICK x \in 1 .. n : s[x].line_no = l + 1
      BY <1>6, <1>14, <2>1 DEF Lists
    <3>2. x \in 1 .. n + m /\ u[x].line_no = l + 1
      BY <1>9, <3>1
    <3> QED BY <3>2
  <2>2. CASE j \notin 1 .. k
    <3>1. j = k + 1
      BY <1>2, <2>2
    <3>2. b.start <= l /\ l < b.end
      BY <1>1, <1>14, <3>1 DEF InBlock
    <3>3. PICK x \in 1 .. m : b.start + x = l + 1
      <4>1. (l + 1) - b.start \in 1 .. m /\ b.start + ((l + 1) - b.start) = l + 1
        BY <1>3, <1>4, <3>2, SMTT(40)
      <4> QED BY <4>1
    <3>4. n + x \in 1 .. n + m /\ u[n + x].line_no = l + 1
      BY <1>9, <3>3, SMTT(40)
    <3> QED BY <3>4
  <2> QED BY <2>1, <2>2
<1>15. k + 1 # 0 /\ k + 1 > 0
  BY <1>2
<1>16. Lists(u, rows, bs, k + 1)
  BY <1>8, <1>12, <1>13, <1>14, <1>15 DEF Lists
<1> QED BY <1>0, <1>7, <1>16

\* The blocks of a listing, joined, list them all.
LEMMA ListingIs ==
  ASSUME NEW A, NEW lines \in Seq(Seq(A)), NEW total, total = Len(lines), NEW hits,
         NEW bs, Apart(bs, total), NEW rows, rows = RowsOf(lines, hits),
         NEW blocks, blocks = RowBlocks(lines, hits, bs)
  PROVE  Lists(FlattenSeq(blocks), rows, bs, Len(bs))
<1>1. Len(bs) \in Nat /\ \A j \in 1 .. Len(bs) : bs[j] \in Within(total)
  <2>1. bs \in Seq(Ranges)
    BY DEF Apart
  <2>2. Len(bs) \in Nat /\ \A j \in 1 .. Len(bs) : bs[j] \in Ranges
    BY <2>1, LenProperties, ElementOfSeq
  <2> QED BY <2>2 DEF Apart, Within
<1>2. /\ blocks \in Seq(Seq(rows)) /\ Len(blocks) = Len(bs)
      /\ \A j \in 1 .. Len(bs) : blocks[j] = Rows(lines, hits, bs[j])
  <2>1. \A j \in 1 .. Len(bs) : Rows(lines, hits, bs[j]) \in Seq(rows)
    <3> SUFFICES ASSUME NEW j \in 1 .. Len(bs) PROVE Rows(lines, hits, bs[j]) \in Seq(rows)
      OBVIOUS
    <3>1. PICK b, t : b \in Within(total) /\ b = bs[j] /\ t = Rows(lines, hits, b)
      BY <1>1
    <3>2. t \in Seq(RowsOf(lines, hits))
      BY <3>1, RowsAre
    <3> QED BY <3>1, <3>2
  <2>2. /\ blocks = [j \in 1 .. Len(bs) |-> Rows(lines, hits, bs[j])]
        /\ blocks \in [1 .. Len(bs) -> Seq(rows)]
    BY <2>1 DEF RowBlocks
  <2>3. \A j \in 1 .. Len(bs) : blocks[j] = Rows(lines, hits, bs[j])
    BY <2>2
  <2>4. blocks \in Seq(Seq(rows)) /\ Len(blocks) = Len(bs)
    BY <1>1, <2>2, SeqOfLength
  <2> QED BY <2>3, <2>4
<1>3. PICK st \in [0 .. Len(blocks) -> Seq(rows)] :
        Flattens(blocks, st) /\ FlattenSeq(blocks) = st[Len(blocks)]
  BY <1>2, FlattenSteps
<1> DEFINE M == {k \in Nat : k <= Len(bs) => Lists(st[k], rows, bs, k)}
<1>4. 0 \in M
  <2>1. st[0] = <<>> /\ <<>> \in Seq(rows) /\ Len(<<>>) = 0
    BY <1>3, EmptySeq DEF Flattens
  <2>2. 1 .. 0 = {} /\ ~ (0 > 0)
    OBVIOUS
  <2>3. Lists(<<>>, rows, bs, 0)
    BY <2>1, <2>2 DEF Lists
  <2> QED BY <2>1, <2>3
<1>5. ASSUME NEW k \in Nat, k \in M PROVE k + 1 \in M
  <2> SUFFICES ASSUME k + 1 <= Len(bs) PROVE Lists(st[k + 1], rows, bs, k + 1)
    OBVIOUS
  <2>1. k \in 0 .. Len(bs) - 1 /\ k <= Len(bs) /\ k + 1 \in 1 .. Len(bs) /\ (k + 1) - 1 = k
    BY <1>1
  <2>2. Lists(st[k], rows, bs, k)
    BY <1>5, <2>1
  <2>3. st[k + 1] = st[k] \o Rows(lines, hits, bs[k + 1])
    BY <1>2, <1>3, <2>1 DEF Flattens
  <2> QED BY <2>1, <2>2, <2>3, ListsOne
<1> HIDE DEF M
<1>6. Len(bs) \in M
  BY <1>1, <1>4, <1>5, SetInduction
<1> QED BY <1>1, <1>2, <1>3, <1>6 DEF M

\* The marked rows of a listing of blocks around all hits are the hits.
LEMMA MarksAre ==
  ASSUME NEW A, NEW lines \in Seq(Seq(A)), NEW total, total = Len(lines),
         NEW hits, HitsIn(hits, total), NEW bs,
         Covered(hits, bs), NEW rows, rows = RowsOf(lines, hits),
         NEW listed, Lists(listed, rows, bs, Len(bs)),
         NEW marked, marked = Marked(listed)
  PROVE  HitsOfRows(marked) = hits
<1> DEFINE n == Len(listed)
           K == {k \in DOMAIN listed : listed[k].is_match}
           c == Cardinality(K)
           a == Ascending(K)
           d == [k \in DOMAIN marked |-> marked[k].line_no - 1]
           T == {hits[x] : x \in 1 .. Len(hits)}
<1>1. listed \in Seq(rows) /\ n \in Nat /\ DOMAIN listed = 1 .. n
  BY LenProperties DEF Lists
<1>2. \A x \in 1 .. n : /\ listed[x].line_no \in Nat /\ listed[x].line_no >= 1
                        /\ listed[x].is_match = Contains(hits, listed[x].line_no - 1)
  <2> SUFFICES ASSUME NEW x \in 1 .. n
               PROVE  /\ listed[x].line_no \in Nat /\ listed[x].line_no >= 1
                      /\ listed[x].is_match = Contains(hits, listed[x].line_no - 1)
    OBVIOUS
  <2>1. listed[x] \in RowsOf(lines, hits)
    BY <1>1, ElementOfSeq
  <2>2. PICK l \in 1 .. Len(lines) : listed[x] = Row(lines, hits, l)
    BY <2>1 DEF RowsOf
  <2>3. listed[x].line_no = l /\ listed[x].is_match = Contains(hits, l - 1) /\ l \in Nat /\ l >= 1
    BY <2>2 DEF Row
  <2> QED BY <2>3
<1>3. \A x, y \in 1 .. n : x < y => listed[x].line_no < listed[y].line_no
  BY DEF Lists
<1>4. /\ hits \in Seq(Nat) /\ Len(hits) \in Nat
      /\ \A x \in 1 .. Len(hits) : hits[x] \in Nat
      /\ \A x, y \in 1 .. Len(hits) : x < y => hits[x] < hits[y]
  <2>1. hits \in Seq(0 .. total - 1) /\ total \in Nat
    BY LenProperties DEF HitsIn
  <2>2. 0 .. total - 1 \subseteq Nat
    BY <2>1
  <2>3. hits \in Seq(Nat)
    BY <2>1, <2>2, SeqWider
  <2> QED BY <2>3, LenProperties, ElementOfSeq DEF HitsIn
<1>5. K \in SUBSET (1 .. n)
  BY <1>1
<1>6. \A x \in 1 .. n : x \in K <=> \E y \in 1 .. Len(hits) : hits[y] = listed[x].line_no - 1
  BY <1>1, <1>2 DEF Contains
<1> HIDE DEF K
<1>7. /\ K \in SUBSET Nat /\ IsFiniteSet(K) /\ c \in Nat
      /\ marked \in Seq(rows) /\ DOMAIN marked = 1 .. c
      /\ \A k \in 1 .. c : a[k] \in K /\ marked[k] = listed[a[k]]
  <2>1. marked = Picked(listed, K)
    BY DEF Marked, K
  <2>2. PICK s, S : S \in SUBSET (1 .. Len(s)) /\ s = listed /\ S = K
    BY <1>5
  <2>3. /\ S \in SUBSET Nat /\ IsFiniteSet(S) /\ Cardinality(S) \in Nat
        /\ Picked(s, S) \in Seq(rows) /\ DOMAIN Picked(s, S) = 1 .. Cardinality(S)
        /\ \A k \in 1 .. Cardinality(S) :
             Ascending(S)[k] \in S /\ Picked(s, S)[k] = s[Ascending(S)[k]]
    BY <1>1, <2>2, PickedType
  <2> QED BY <2>1, <2>2, <2>3
<1>8. \A x, y \in 1 .. c : x < y => a[x] < a[y]
  BY <1>7, AscendingOrder
<1>9. \A x \in K : \E k \in 1 .. c : a[k] = x
  BY <1>7, AscendingAt
<1> HIDE DEF a, c
<1>10. d = [k \in 1 .. c |-> listed[a[k]].line_no - 1]
  BY <1>7
<1> HIDE DEF d
<1>11. \A k \in 1 .. c : /\ a[k] \in 1 .. n /\ d[k] = listed[a[k]].line_no - 1 /\ d[k] \in Nat
                         /\ listed[a[k]].line_no \in Nat
  <2> SUFFICES ASSUME NEW k \in 1 .. c
               PROVE  /\ a[k] \in 1 .. n /\ d[k] = listed[a[k]].line_no - 1 /\ d[k] \in Nat
                      /\ listed[a[k]].line_no \in Nat
    OBVIOUS
  <2>1. a[k] \in 1 .. n
    BY <1>5, <1>7
  <2>2. PICK l : l = listed[a[k]].line_no /\ l \in Nat /\ l >= 1
    BY <1>2, <2>1
  <2>3. d[k] = listed[a[k]].line_no - 1
    BY <1>10
  <2>4. l - 1 \in Nat
    BY <2>2
  <2> QED BY <2>1, <2>2, <2>3, <2>4
<1>12. ListedBy(T, c, d)
  <2>1. d \in [1 .. c -> Nat]
    BY <1>10, <1>11
  <2>2. ASSUME NEW x \in 1 .. c, NEW y \in 1 .. c, x < y PROVE d[x] < d[y]
    <3>1. listed[a[x]].line_no < listed[a[y]].line_no
      <4>1. a[x] \in 1 .. n /\ a[y] \in 1 .. n
        BY <1>11
      <4>2. a[x] < a[y]
        BY <1>8, <2>2
      <4> HIDE DEF n
      <4> QED BY <1>3, <4>1, <4>2
    <3>2. PICK l \in Nat, m \in Nat : l = listed[a[x]].line_no /\ m = listed[a[y]].line_no
      BY <1>11
    <3>3. l - 1 < m - 1
      <4>1. l < m
        BY <3>1, <3>2
      <4> QED BY <4>1
    <3>4. d[x] = l - 1 /\ d[y] = m - 1
      BY <1>11, <3>2
    <3> QED BY <3>3, <3>4
  <2>3. ASSUME NEW k \in 1 .. c PROVE d[k] \in T
    <3>1. PICK y \in 1 .. Len(hits) : hits[y] = listed[a[k]].line_no - 1
      BY <1>6, <1>7, <1>11
    <3> QED BY <1>11, <3>1
  <2>4. ASSUME NEW x \in T PROVE \E k \in 1 .. c : x = d[k]
    <3>1. PICK y \in 1 .. Len(hits) : x = hits[y]
      OBVIOUS
    <3>2. PICK j \in 1 .. Len(bs) : InBlock(x, bs[j])
      BY <3>1 DEF Covered
    <3>3. x \in Nat
      BY <1>4, <3>1
    <3>4. PICK p \in 1 .. n : listed[p].line_no = x + 1
      BY <3>2, <3>3 DEF Lists
    <3>5. listed[p].line_no - 1 = x
      BY <3>3, <3>4
    <3>6. p \in K
      BY <1>6, <3>1, <3>5
    <3>7. PICK k \in 1 .. c : a[k] = p
      BY <1>9, <3>6
    <3> QED BY <1>11, <3>5, <3>7
  <2> HIDE DEF T
  <2> QED BY <1>7, <2>1, <2>2, <2>3, <2>4 DEF ListedBy
<1>13. ListedBy(T, Len(hits), hits)
  <2>1. hits \in [1 .. Len(hits) -> Nat]
    BY <1>4, LenProperties
  <2>2. \A x \in 1 .. Len(hits) : hits[x] \in T
    OBVIOUS
  <2>3. \A x \in T : \E y \in 1 .. Len(hits) : x = hits[y]
    OBVIOUS
  <2> HIDE DEF T
  <2> QED BY <1>4, <2>1, <2>2, <2>3 DEF ListedBy
<1> HIDE DEF T
<1>14. Cardinality(T) = c /\ \A k \in 1 .. c : Ascending(T)[k] = d[k]
  BY <1>12, AscendingIs
<1>15. Cardinality(T) = Len(hits) /\ \A k \in 1 .. Len(hits) : Ascending(T)[k] = hits[k]
  BY <1>13, AscendingIs
<1>16. d = hits
  <2>1. d = [k \in 1 .. c |-> d[k]]
    BY <1>10, <1>11
  <2>2. hits = [k \in 1 .. Len(hits) |-> hits[k]]
    BY <1>4, LenProperties
  <2>3. \A k \in 1 .. c : d[k] = hits[k]
    BY <1>14, <1>15
  <2> QED BY <1>14, <1>15, <2>1, <2>2, <2>3
<1> QED BY <1>16 DEF d, HitsOfRows

LEMMA SearchIs ==
  ASSUME NEW o \in Searches
  PROVE  Unstripped(o) /\ (o.limit = None \/ o.limit \in Nat) /\ o.around \in Nat
<1>1. o.limit \in {None, 1, 2} /\ o.around \in 0 .. 2
  BY DEF Searches
<1>2. Unstripped(o)
  BY DEF Searches, Unstripped
<1>3. o.limit = None \/ o.limit \in Nat
  BY <1>1
<1>4. o.around \in Nat
  BY <1>1
<1> QED BY <1>2, <1>3, <1>4

\* Both forms of grep, of every log and search.
LEMMA FormsTellIt ==
  ASSUME BytesOnly, NEW o \in Searches, NEW json, json = GrepJson(log, o),
         NEW listed, listed = FlattenSeq(json.blocks)
  PROVE  FormsTell(o, json, listed)
<1> DEFINE lines == SplitLines(log)
           marked == Marked(listed)
           contents(b) == FlattenSeq([k \in DOMAIN b |-> b[k].content])
           joined == [i \in DOMAIN json.blocks |->
                        (IF i > 1 THEN <<"--", NL>> ELSE <<>>) \o contents(json.blocks[i])]
<1>0. lines = SplitLines(log) /\ marked = Marked(listed)
  OBVIOUS
<1>1. Unstripped(o) /\ (o.limit = None \/ o.limit \in Nat) /\ o.around \in Nat
  BY SearchIs
<1> HIDE DEF lines, marked, joined, contents
<1>2. PICK total, hits : total = Len(lines) /\ hits = CollectHits(log, o)
  OBVIOUS
<1>3. log \in Seq(Alphabet)
  BY DEF BytesOnly
<1>4. lines \in Seq(Seq(Alphabet)) /\ total \in Nat /\ DOMAIN lines = 1 .. total
  <2>1. lines \in Seq(Seq(Alphabet))
    BY <1>0, <1>3, LinesAre
  <2> QED BY <1>2, <2>1, LenProperties
<1>5. HitsIn(hits, total)
  <2>1. HitsIn(CollectHits(log, o), Len(SplitLines(log)))
    BY <1>1, <1>3, HitsOf
  <2> QED BY <1>0, <1>2, <2>1
<1>6. PICK bs : bs = Blocks(log, o)
  OBVIOUS
<1>7. Merged(bs, hits, Len(hits), total, o.around)
  <2>1. bs = CoalesceWindows(hits, total, o.around)
    BY <1>0, <1>2, <1>6 DEF Blocks
  <2> QED BY <1>1, <1>4, <1>5, <2>1, BlocksAre
<1>8. Apart(bs, total)
  BY <1>7 DEF Merged
<1>9. bs \in Seq(Within(total)) /\ Len(bs) \in Nat /\ \A j \in 1 .. Len(bs) : bs[j] \in Within(total)
  <2>1. bs \in Seq(Ranges)
    BY <1>8 DEF Apart
  <2>2. Len(bs) \in Nat /\ bs \in [1 .. Len(bs) -> Ranges]
    BY <2>1, LenProperties
  <2>3. \A j \in 1 .. Len(bs) : bs[j] \in Within(total)
    BY <1>8, <2>2 DEF Apart, Within
  <2>4. bs \in [1 .. Len(bs) -> Within(total)]
    BY <2>2, <2>3
  <2> QED BY <2>2, <2>3, <2>4, SeqOfLength
<1>10. json.hits = hits /\ json.blocks = RowBlocks(lines, hits, bs)
  <2>1. GrepJson(log, o) = [hits |-> hits,
                            blocks |-> [j \in 1 .. Len(bs) |-> Rows(lines, hits, bs[j])]]
    BY <1>0, <1>2, <1>4, <1>6, <1>9, JsonIs
  <2>2. json = [hits |-> hits, blocks |-> RowBlocks(lines, hits, bs)]
    BY <2>1 DEF RowBlocks
  <2> QED BY <2>2
<1>11. PICK rows : rows = RowsOf(lines, hits)
  OBVIOUS
<1>12. Lists(listed, rows, bs, Len(bs))
  BY <1>2, <1>4, <1>8, <1>10, <1>11, ListingIs
<1>13. \A k \in DOMAIN listed : /\ listed[k].line_no \in DOMAIN lines
                                /\ listed[k].content = lines[listed[k].line_no]
  <2>1. listed \in Seq(rows)
    BY <1>12 DEF Lists
  <2> SUFFICES ASSUME NEW k \in DOMAIN listed
               PROVE  /\ listed[k].line_no \in DOMAIN lines
                      /\ listed[k].content = lines[listed[k].line_no]
    OBVIOUS
  <2>2. listed[k] \in RowsOf(lines, hits)
    BY <1>11, <2>1, ElementOfSeq, LenProperties
  <2>3. PICK l \in 1 .. Len(lines) : listed[k] = Row(lines, hits, l)
    BY <2>2 DEF RowsOf
  <2>4. listed[k].line_no = l /\ listed[k].content = lines[l]
    BY <2>3 DEF Row
  <2> QED BY <1>2, <1>4, <2>4
<1>14. HitsOfRows(marked) = json.hits
  <2>1. Covered(hits, bs)
    <3> SUFFICES ASSUME NEW x \in 1 .. Len(hits)
                 PROVE  \E j \in 1 .. Len(bs) : InBlock(hits[x], bs[j])
      BY DEF Covered
    <3>1. hits[x] \in Nat /\ hits[x] < total
      <4>1. hits[x] \in 0 .. total - 1
        BY <1>5, ElementOfSeq DEF HitsIn
      <4> QED BY <1>4, <4>1
    <3>2. Near(hits[x], hits[x], o.around)
      BY <1>1, <3>1 DEF Near
    <3> QED BY <1>7, <3>1, <3>2 DEF Merged
  <2>2. HitsOfRows(marked) = hits
    BY <1>0, <1>2, <1>4, <1>5, <1>11, <1>12, <2>1, MarksAre
  <2> QED BY <1>10, <2>2
<1>15. GrepPlain(log, o) = FlattenSeq(joined)
  <2>1. GrepPlain(log, o) = FlattenSeq(Joined(lines, bs))
    BY <1>0, <1>1, <1>2, <1>4, <1>6, <1>9, PlainIs
  <2>2. /\ DOMAIN json.blocks = 1 .. Len(bs)
        /\ \A j \in 1 .. Len(bs) : json.blocks[j] = Rows(lines, hits, bs[j])
    <3>1. json.blocks = [j \in 1 .. Len(bs) |-> Rows(lines, hits, bs[j])]
      BY <1>10 DEF RowBlocks
    <3> QED BY <3>1
  <2>3. ASSUME NEW j \in 1 .. Len(bs)
        PROVE  contents(json.blocks[j]) = BlockText(lines, bs[j])
    <3>1. PICK b, r : b \in Within(total) /\ b = bs[j] /\ r = Rows(lines, hits, b)
      BY <1>9
    <3>2. PICK n, s : n = b.end - b.start /\ s = SubSeq(lines, b.start + 1, b.end)
      OBVIOUS
    <3>3. s \in Seq(Seq(Alphabet)) /\ Len(s) = n /\ \A k \in 1 .. n : s[k] = lines[b.start + k]
      <4>1. /\ SubSeq(lines, b.start + 1, b.end) \in Seq(Seq(Alphabet))
            /\ LinesIn(SubSeq(lines, b.start + 1, b.end), lines, b)
        BY <1>2, <1>4, <3>1, BlockIs
      <4>2. LinesIn(s, lines, b)
        BY <3>2, <4>1
      <4> QED BY <3>2, <4>1, <4>2 DEF LinesIn
    <3>4. DOMAIN r = 1 .. n /\ \A k \in 1 .. n : r[k].content = lines[b.start + k]
      <4>1. r = [k \in 1 .. n |-> Row(lines, hits, b.start + k)]
        BY <3>1, <3>2 DEF Rows
      <4>2. \A l : Row(lines, hits, l).content = lines[l]
        BY DEF Row
      <4> QED BY <4>1, <4>2
    <3>5. [k \in DOMAIN r |-> r[k].content] = s
      <4>1. DOMAIN s = 1 .. n /\ s = [k \in 1 .. n |-> s[k]]
        BY <3>3, LenProperties
      <4>2. \A k \in 1 .. n : s[k] = r[k].content
        BY <3>3, <3>4
      <4> QED BY <3>4, <4>1, <4>2
    <3>6. contents(r) = FlattenSeq(s)
      BY <3>5 DEF contents
    <3> QED BY <2>2, <3>1, <3>2, <3>6 DEF BlockText
  <2>4. joined = Joined(lines, bs)
    BY <2>2, <2>3 DEF Joined, Separator, joined
  <2> QED BY <2>1, <2>4
<1> QED BY <1>13, <1>14, <1>15 DEF FormsTell, HitsOfRows, Marked, lines, marked, joined, contents

LEMMA FormsAgree == BytesOnly => GrepFormsAgree
<1>1. BytesOnly => \A o \in Searches : \A json \in {GrepJson(log, o)} :
                     \A listed \in {FlattenSeq(json.blocks)} : FormsTell(o, json, listed)
  BY FormsTellIt
<1> QED BY <1>1 DEF GrepFormsAgree, FormsTell

\* grep shows each hit and its surroundings, once and in order, whatever the
\* limit, and its two forms tell the same, of every log (grep.rs:221-310).
THEOREM GrepInvariance == Spec => []GrepShowsItsHits
<1>1. BytesOnly => GrepShowsItsHits
  BY BlocksCover, FormsAgree DEF GrepShowsItsHits
<1> QED BY <1>1, LogIsBytes, PTL
=============================================================================
