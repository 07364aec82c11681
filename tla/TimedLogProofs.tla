---------------------------- MODULE TimedLogProofs ----------------------------
(***************************************************************************)
(* Which lines of a log carry a stamp, for any text of the child, any      *)
(* chunks and sizes of a file, and any number of daemons, whether they     *)
(* stamp or not.                                                           *)
(***************************************************************************)
EXTENDS MCTimedLog, LogTextLemmas

\* what a log may hold
Bytes == Text \cup {"[", "]", " "} \cup Range(Digits)

\* Bounds are numbers, and a time is a digit.
LEMMA ConstantTypes ==
  /\ FileSizes \in SUBSET Nat /\ MaxChunk \in Nat /\ MaxChunk > 0 /\ MaxBytes \in Nat
  /\ MaxTime \in Nat /\ 1 <= MaxTime /\ MaxTime <= 9 /\ MaxRestarts \in Nat
  /\ Modes \subseteq BOOLEAN
  BY BoundsAssumption, ModesAssumption DEF Digits

\* The digits are bytes, and none is a bracket or a newline.
LEMMA DigitTypes ==
  /\ DOMAIN Digits = 1 .. 9
  /\ \A d \in 1 .. 9 : /\ Digits[d] \in Range(Digits) /\ Digits[d] \in Bytes
                       /\ Digits[d] \notin {NL, "[", "]", " "}
<1>1. DOMAIN Digits = 1 .. 9
  BY DEF Digits
<1>2. \A d \in 1 .. 9 : Digits[d] \in Range(Digits)
  BY <1>1 DEF Range
<1>3. ASSUME NEW d \in 1 .. 9 PROVE Digits[d] \notin {NL, "[", "]", " "}
  <2>1. d \in {1, 2, 3, 4, 5, 6, 7, 8, 9}
    OBVIOUS
  <2>2. /\ Digits[1] = "1" /\ Digits[2] = "2" /\ Digits[3] = "3" /\ Digits[4] = "4"
        /\ Digits[5] = "5" /\ Digits[6] = "6" /\ Digits[7] = "7" /\ Digits[8] = "8"
        /\ Digits[9] = "9"
    BY DEF Digits
  <2> QED BY <2>1, <2>2 DEF NL
<1> QED BY <1>1, <1>2, <1>3 DEF Bytes

\* Four of a set.
LEMMA FourOf ==
  ASSUME NEW S, NEW a \in S, NEW b \in S, NEW c \in S, NEW d \in S
  PROVE  <<a, b, c, d>> \in Seq(S)
  OBVIOUS

\* The stamp of a time.
LEMMA PrefixIs ==
  ASSUME NEW t \in 1 .. MaxTime
  PROVE  /\ Prefix(t) \in Seq(Bytes) /\ Len(Prefix(t)) = 4
         /\ Prefix(t)[1] = "[" /\ Prefix(t)[2] = Digits[t] /\ t \in 1 .. 9
         /\ Prefix(t)[3] = "]" /\ Prefix(t)[4] = " "
         /\ \A x \in 1 .. 4 : Prefix(t)[x] # NL
<1>1. t \in 1 .. 9
  BY ConstantTypes
<1>2. Digits[t] \in Bytes /\ Digits[t] # NL
  BY <1>1, DigitTypes
<1>3. "[" \in Bytes /\ "]" \in Bytes /\ " " \in Bytes
  BY DEF Bytes
<1>4. /\ Len(Prefix(t)) = 4 /\ DOMAIN Prefix(t) = 1 .. 4
      /\ Prefix(t)[1] = "[" /\ Prefix(t)[2] = Digits[t]
      /\ Prefix(t)[3] = "]" /\ Prefix(t)[4] = " "
  BY DEF Prefix
<1>5. \A x \in 1 .. 4 : Prefix(t)[x] \in Bytes /\ Prefix(t)[x] # NL
  <2> SUFFICES ASSUME NEW x \in 1 .. 4 PROVE Prefix(t)[x] \in Bytes /\ Prefix(t)[x] # NL
    OBVIOUS
  <2>1. x = 1 \/ x = 2 \/ x = 3 \/ x = 4
    OBVIOUS
  <2> QED BY <1>2, <1>3, <1>4, <2>1 DEF NL
<1>6. Prefix(t) \in Seq(Bytes)
  BY <1>2, <1>3, FourOf, Zenon DEF Prefix
<1> QED BY <1>1, <1>4, <1>5, <1>6

------------------------------------------------------------------------------
(* What write_raw does to the files. *)

\* one byte into files of n bytes
PutOne(n, s, b) ==
  IF n > 0 /\ Len(s.file) + 1 = n
  THEN [file |-> <<>>, sealed |-> s.sealed \o Append(s.file, b)]
  ELSE [s EXCEPT !.file = Append(@, b)]

\* the fold of write_raw over the places of f
PutFold(n, base, f, g) ==
  g = [s \in SUBSET DOMAIN f |->
         IF s = {} THEN base ELSE PutOne(n, g[s \ {Max(s)}], f[Max(s)])]

\* st[k] is what the files are after k bytes
PutSteps(n, base, f, st) ==
  /\ st[0] = base
  /\ \A k \in 1 .. Len(f) : st[k] = PutOne(n, st[k - 1], f[k])

Files(A) == [file : Seq(A), sealed : Seq(A)]

\* Files of which one is replaced.
LEMMA ReplaceFile ==
  ASSUME NEW A, NEW s \in [file : A, sealed : A], NEW x
  PROVE  [s EXCEPT !.file = x] = [file |-> x, sealed |-> s.sealed]
  OBVIOUS

\* A byte is added to the files.
LEMMA PutType ==
  ASSUME NEW A, NEW n, NEW s \in Files(A), NEW b \in A
  PROVE  PutOne(n, s, b) \in Files(A)
<1>1. s.file \in Seq(A) /\ s.sealed \in Seq(A) /\ <<>> \in Seq(A)
  BY EmptySeq DEF Files
<1>2. Append(s.file, b) \in Seq(A)
  BY <1>1, AppendProperties
<1>3. s.sealed \o Append(s.file, b) \in Seq(A)
  BY <1>1, <1>2, ConcatProperties
<1>4. [s EXCEPT !.file = Append(@, b)] = [file |-> Append(s.file, b), sealed |-> s.sealed]
  BY ReplaceFile DEF Files
<1>5. [file |-> <<>>, sealed |-> s.sealed \o Append(s.file, b)] \in Files(A)
  BY <1>1, <1>3 DEF Files
<1>6. [s EXCEPT !.file = Append(@, b)] \in Files(A)
  <2>1. [file |-> Append(s.file, b), sealed |-> s.sealed] \in Files(A)
    BY <1>1, <1>2 DEF Files
  <2> QED BY <1>4, <2>1, Zenon
<1> QED BY <1>5, <1>6 DEF PutOne

\* Writing bytes goes through one state of the files per byte.
LEMMA WriteSteps ==
  ASSUME NEW A, NEW bytes \in Seq(A), file \in Seq(A), sealed \in Seq(A), WriteRaw(bytes)
  PROVE  \E st \in [0 .. Len(bytes) -> Files(A)] :
           /\ PutSteps(size, [file |-> file, sealed |-> sealed], bytes, st)
           /\ file' = st[Len(bytes)].file /\ sealed' = st[Len(bytes)].sealed
<1> DEFINE X == Files(A)
           base == [file |-> file, sealed |-> sealed]
           F == [p \in X \X A |-> PutOne(size, p[1], p[2])]
           D == DOMAIN bytes
<1>0. Len(bytes) \in Nat /\ D = 1 .. Len(bytes) /\ \A k \in 1 .. Len(bytes) : bytes[k] \in A
  BY NewlinesFinite, ElementOfSeq
<1>1. \A x \in X, b \in A : PutOne(size, x, b) \in X
  BY PutType
<1>2. F \in [X \X A -> X]
  <2> SUFFICES ASSUME NEW p \in X \X A PROVE PutOne(size, p[1], p[2]) \in X
    OBVIOUS
  <2>1. p[1] \in X /\ p[2] \in A
    OBVIOUS
  <2> HIDE DEF X
  <2> QED BY <1>1, <2>1
<1>3. base \in X
  BY DEF Files
<1>4. PICK g \in [SUBSET D -> X] : IsFold(bytes, base, F, g)
  <2> HIDE DEF X, F, base
  <2> QED BY <1>2, <1>3, FoldsEnd
<1>5. PutFold(size, base, bytes, g)
  <2>1. ASSUME NEW s \in SUBSET D, s # {}
        PROVE  F[<<g[s \ {Max(s)}], bytes[Max(s)]>>] = PutOne(size, g[s \ {Max(s)}], bytes[Max(s)])
    <3>1. Max(s) \in s /\ bytes[Max(s)] \in A
      BY <1>0, <2>1, GreatestOf
    <3>2. g[s \ {Max(s)}] \in X
      <4> HIDE DEF X
      <4>1. s \ {Max(s)} \in SUBSET D
        OBVIOUS
      <4> QED BY <4>1
    <3>3. <<g[s \ {Max(s)}], bytes[Max(s)]>> \in X \X A
      <4> HIDE DEF X
      <4> QED BY <3>1, <3>2
    <3> HIDE DEF X
    <3> QED BY <3>3
  <2>2. g = [s \in SUBSET D |->
               IF s = {} THEN base ELSE F[<<g[s \ {Max(s)}], bytes[Max(s)]>>]]
    <3> HIDE DEF F, X, base
    <3> QED BY <1>4 DEF IsFold
  <2> HIDE DEF F, X, base
  <2>3. g = [s \in SUBSET D |->
               IF s = {} THEN base ELSE PutOne(size, g[s \ {Max(s)}], bytes[Max(s)])]
    BY <2>1, <2>2
  <2> QED BY <2>3 DEF PutFold
<1> DEFINE h == CHOOSE q : PutFold(size, base, bytes, q)
<1>6. PutFold(size, base, bytes, h)
  BY <1>5
<1>7. file' = h[D].file /\ sealed' = h[D].sealed
  BY DEF WriteRaw, FoldLeft, MapThenFoldSet, PutFold, PutOne
<1> HIDE DEF h
<1> DEFINE st == [k \in 0 .. Len(bytes) |-> h[1 .. k]]
<1>8. st[0] = base
  <2>1. 1 .. 0 = {} /\ 0 \in 0 .. Len(bytes)
    BY <1>0
  <2>2. h[{}] = base
    BY <1>6 DEF PutFold
  <2> QED BY <2>1, <2>2
<1>9. ASSUME NEW k \in 1 .. Len(bytes) PROVE st[k] = PutOne(size, st[k - 1], bytes[k])
  <2>1. /\ 1 .. k \in SUBSET D /\ 1 .. k # {} /\ Max(1 .. k) = k
        /\ (1 .. k) \ {k} = 1 .. k - 1 /\ k \in 0 .. Len(bytes) /\ k - 1 \in 0 .. Len(bytes)
    BY <1>0, PlacesUpTo
  <2>2. h[1 .. k] = PutOne(size, h[(1 .. k) \ {Max(1 .. k)}], bytes[Max(1 .. k)])
    BY <1>6, <2>1 DEF PutFold
  <2> QED BY <2>1, <2>2
<1>10. \A k \in 0 .. Len(bytes) : st[k] \in X
  <2> DEFINE M == {k \in Nat : k <= Len(bytes) => st[k] \in X}
  <2> HIDE DEF st, X, base
  <2>1. 0 \in M
    BY <1>3, <1>8
  <2>2. \A k \in Nat : k \in M => k + 1 \in M
    <3> SUFFICES ASSUME NEW k \in Nat, k \in M, k + 1 <= Len(bytes) PROVE st[k + 1] \in X
      OBVIOUS
    <3>1. k + 1 \in 1 .. Len(bytes) /\ (k + 1) - 1 = k /\ k <= Len(bytes)
      BY <1>0
    <3>2. st[k] \in X /\ bytes[k + 1] \in A /\ st[k + 1] = PutOne(size, st[k], bytes[k + 1])
      BY <1>0, <1>9, <3>1
    <3> QED BY <1>1, <3>2
  <2> HIDE DEF M
  <2>3. Nat \subseteq M
    BY <2>1, <2>2, SetInduction
  <2> QED BY <1>0, <2>3 DEF M
<1>11. st \in [0 .. Len(bytes) -> X]
  <2> HIDE DEF X
  <2> QED BY <1>10
<1>12. PutSteps(size, base, bytes, st)
  <2> HIDE DEF st, base
  <2> QED BY <1>8, <1>9 DEF PutSteps
<1>13. file' = st[Len(bytes)].file /\ sealed' = st[Len(bytes)].sealed
  BY <1>0, <1>7
<1> HIDE DEF st, X
<1> QED BY <1>11, <1>12, <1>13 DEF X
\* The last byte of what is put behind something.
LEMMA LastOfBoth ==
  ASSUME NEW A, NEW s \in Seq(A), NEW t \in Seq(A), t # <<>>
  PROVE  s \o t # <<>> /\ Last(s \o t) = Last(t)
<1>1. Len(s) \in Nat /\ Len(t) \in Nat /\ Len(t) > 0
  BY EmptySeq, LenProperties
<1>2. /\ s \o t \in Seq(A) /\ Len(s \o t) = Len(s) + Len(t)
      /\ \A k \in 1 .. Len(s) + Len(t) :
           (s \o t)[k] = IF k <= Len(s) THEN s[k] ELSE t[k - Len(s)]
  BY ConcatProperties
<1>3. (s \o t)[Len(s) + Len(t)] = t[Len(t)]
  <2>1. /\ Len(s) + Len(t) \in 1 .. Len(s) + Len(t) /\ ~ (Len(s) + Len(t) <= Len(s))
        /\ (Len(s) + Len(t)) - Len(s) = Len(t)
    BY <1>1
  <2> QED BY <1>2, <2>1
<1>4. s \o t # <<>>
  BY <1>1, <1>2, EmptySeq
<1> QED BY <1>2, <1>3, <1>4 DEF Last

\* One more byte of a part.
LEMMA PartGrows ==
  ASSUME NEW A, NEW f \in Seq(A), NEW a \in 0 .. Len(f), NEW b \in a .. Len(f), b # Len(f)
  PROVE  /\ SubSeq(f, a + 1, b) \in Seq(A) /\ f[b + 1] \in A
         /\ SubSeq(f, a + 1, b + 1) = Append(SubSeq(f, a + 1, b), f[b + 1])
<1>1. /\ Len(f) \in Nat /\ a \in Nat /\ b \in Nat /\ a <= b /\ b + 1 <= Len(f)
      /\ a + 1 \in 1 .. Len(f) /\ b + 1 \in a + 1 .. Len(f) /\ (b + 1) - 1 = b
  BY LenProperties
<1>2. f[b + 1] \in A
  BY <1>1, ElementOfSeq
<1>3. SubSeq(f, a + 1, b) \in Seq(A)
  <2>1. PICK m \in Nat : b = a + m /\ a + m <= Len(f)
    <3>1. b - a \in Nat /\ b = a + (b - a)
      BY <1>1
    <3> QED BY <1>1, <3>1
  <2> QED BY <1>1, <2>1, Part
<1>4. SubSeq(f, a + 1, b + 1) = SubSeq(f, a + 1, (b + 1) - 1) \o <<f[b + 1]>>
  BY <1>1, SubSeqRecursiveSecond
<1> QED BY <1>1, <1>2, <1>3, <1>4, AppendIsConcat

\* The bytes of a write that went into full files, which were put away, and the
\* rest of them, which `.log` holds: after the first k, or all behind what it held.
Wrote(f0, s0, bytes, k, f, s) ==
  /\ k = 0 => f = f0 \o bytes /\ s = s0
  /\ k > 0 => f = From(bytes, k) /\ s # <<>> /\ Last(s) = bytes[k]

\* One byte goes to the end of the file, or with all of the file out of it.
LEMMA PutGrows ==
  ASSUME NEW A, NEW n \in Nat, NEW f \in Seq(A), NEW s \in Seq(A), NEW b \in A,
         n > 0 => Len(f) < n,
         NEW p, p = PutOne(n, [file |-> f, sealed |-> s], b)
  PROVE  /\ n > 0 => Len(p.file) < n
         /\ \/ p.file = Append(f, b) /\ p.sealed = s
            \/ p.file = <<>> /\ p.sealed # <<>> /\ Last(p.sealed) = b
<1>1. /\ Append(f, b) \in Seq(A) /\ Append(f, b) # <<>> /\ Len(Append(f, b)) = Len(f) + 1
      /\ Append(f, b)[Len(f) + 1] = b
  BY AppendProperties
<1>2. Len(f) \in Nat
  BY LenProperties
<1>3. CASE n > 0 /\ Len(f) + 1 = n
  <2>1. p.file = <<>> /\ p.sealed = s \o Append(f, b)
    BY <1>3 DEF PutOne
  <2>2. s \o Append(f, b) # <<>> /\ Last(s \o Append(f, b)) = Last(Append(f, b))
    BY <1>1, LastOfBoth
  <2>3. Last(Append(f, b)) = b
    BY <1>1 DEF Last
  <2> QED BY <1>3, <2>1, <2>2, <2>3, EmptySeq
<1>4. CASE ~ (n > 0 /\ Len(f) + 1 = n)
  <2>1. p = [[file |-> f, sealed |-> s] EXCEPT !.file = Append(f, b)]
    BY <1>4 DEF PutOne
  <2>2. p.file = Append(f, b) /\ p.sealed = s
    BY <2>1
  <2> QED BY <1>1, <1>2, <1>4, <2>2
<1> QED BY <1>3, <1>4

\* f is y put behind x
Behind(f, x, y) == f = x \o y

\* A byte behind two parts.
LEMMA OneBehindTwo ==
  ASSUME NEW A, NEW x \in Seq(A), NEW y \in Seq(A), NEW b \in A, NEW z, z = Append(y, b),
         NEW f, Behind(f, x, y)
  PROVE  Behind(Append(f, b), x, z)
<1>1. f = x \o y
  BY DEF Behind
<1>2. <<b>> \in Seq(A) /\ f \in Seq(A)
  BY <1>1, ConcatProperties
<1>3. (x \o y) \o <<b>> = x \o (y \o <<b>>)
  BY <1>2, ConcatAssociative, SMTT(40)
<1>4. Append(f, b) = f \o <<b>> /\ Append(y, b) = y \o <<b>>
  BY <1>2, AppendIsConcat
<1> QED BY <1>1, <1>3, <1>4 DEF Behind

\* after m bytes
WroteUpto(f0, s0, bytes, k, m, f, s) ==
  /\ k = 0 => Behind(f, f0, SubSeq(bytes, 1, m)) /\ s = s0
  /\ k > 0 => f = SubSeq(bytes, k + 1, m) /\ s # <<>> /\ Last(s) = bytes[k]

\* A byte written behind them stays in the file.
LEMMA WroteOneMore ==
  ASSUME NEW A, NEW bytes \in Seq(A), NEW f0 \in Seq(A), NEW s0,
         NEW m \in 0 .. Len(bytes), m # Len(bytes), NEW k \in 0 .. m, NEW f, NEW s,
         WroteUpto(f0, s0, bytes, k, m, f, s)
  PROVE  WroteUpto(f0, s0, bytes, k, m + 1, Append(f, bytes[m + 1]), s)
<1>1. /\ m \in Nat /\ k \in Nat /\ Len(bytes) \in Nat
      /\ 0 \in 0 .. Len(bytes) /\ m \in 0 .. Len(bytes) /\ k \in 0 .. Len(bytes) /\ m \in k .. Len(bytes)
  BY LenProperties
<1>2. /\ SubSeq(bytes, k + 1, m) \in Seq(A) /\ bytes[m + 1] \in A
      /\ SubSeq(bytes, k + 1, m + 1) = Append(SubSeq(bytes, k + 1, m), bytes[m + 1])
  BY <1>1, PartGrows
<1>3. CASE k = 0
  <2>1. Behind(f, f0, SubSeq(bytes, 1, m)) /\ s = s0
    BY <1>3 DEF WroteUpto
  <2>2. k + 1 = 1
    BY <1>3
  <2>3. /\ SubSeq(bytes, 1, m) \in Seq(A) /\ bytes[m + 1] \in A
        /\ SubSeq(bytes, 1, m + 1) = Append(SubSeq(bytes, 1, m), bytes[m + 1])
    BY <1>2, <2>2
  <2>5. Behind(Append(f, bytes[m + 1]), f0, SubSeq(bytes, 1, m + 1))
    BY <2>1, <2>3, OneBehindTwo
  <2>7. ~ (k > 0)
    BY <1>3
  <2> QED BY <1>3, <2>1, <2>5, <2>7, Zenon DEF WroteUpto
<1>4. CASE k # 0
  <2>1. f = SubSeq(bytes, k + 1, m) /\ s # <<>> /\ Last(s) = bytes[k]
    BY <1>1, <1>4 DEF WroteUpto
  <2> QED BY <1>2, <1>4, <2>1 DEF WroteUpto
<1> QED BY <1>3, <1>4

\* A byte written behind them fills it.
LEMMA WroteFull ==
  ASSUME NEW A, NEW bytes \in Seq(A), NEW f0, NEW s0,
         NEW m \in 0 .. Len(bytes), m # Len(bytes), NEW s, s # <<>>, Last(s) = bytes[m + 1]
  PROVE  WroteUpto(f0, s0, bytes, m + 1, m + 1, <<>>, s)
<1>1. m \in Nat /\ m + 1 # 0
  BY LenProperties
<1>2. SubSeq(bytes, (m + 1) + 1, m + 1) = <<>>
  BY <1>1, SubSeqEmpty
<1> QED BY <1>1, <1>2 DEF WroteUpto

\* write_raw fills files one after the other; none is full when it returns.
LEMMA WriteRawDoes ==
  ASSUME NEW A, NEW bytes \in Seq(A), file \in Seq(A), sealed \in Seq(A), size \in Nat,
         size > 0 => Len(file) < size, WriteRaw(bytes)
  PROVE  /\ file' \in Seq(A) /\ sealed' \in Seq(A)
         /\ size > 0 => Len(file') < size
         /\ \E k \in 0 .. Len(bytes) : Wrote(file, sealed, bytes, k, file', sealed')
<1> DEFINE n == Len(bytes)
           base == [file |-> file, sealed |-> sealed]
<1>1. PICK st \in [0 .. n -> Files(A)] :
        PutSteps(size, base, bytes, st) /\ file' = st[n].file /\ sealed' = st[n].sealed
  BY WriteSteps
<1>2. /\ st[0] = base /\ \A m \in 1 .. n : st[m] = PutOne(size, st[m - 1], bytes[m])
      /\ n \in Nat /\ \A m \in 1 .. n : bytes[m] \in A
      /\ \A m \in 0 .. n : st[m] \in Files(A)
  <2>1. n \in Nat /\ \A m \in 1 .. n : bytes[m] \in A
    BY LenProperties, ElementOfSeq
  <2> HIDE DEF base
  <2> QED BY <1>1, <2>1 DEF PutSteps
<1> DEFINE Good(m) == /\ size > 0 => Len(st[m].file) < size
                      /\ \E k \in 0 .. m : WroteUpto(file, sealed, bytes, k, m, st[m].file, st[m].sealed)
           M == {m \in Nat : m <= n => Good(m)}
<1>3. 0 \in M
  <2>1. SubSeq(bytes, 1, 0) = <<>> /\ file \o <<>> = file
    BY SubSeqEmpty, ConcatEmptySeq
  <2>2. st[0].file = file /\ st[0].sealed = sealed
    BY <1>2
  <2>3. WroteUpto(file, sealed, bytes, 0, 0, st[0].file, st[0].sealed) /\ 0 \in 0 .. 0
    BY <2>1, <2>2 DEF WroteUpto, Behind
  <2> QED BY <2>2, <2>3
<1>4. \A m \in Nat : m \in M => m + 1 \in M
  <2> SUFFICES ASSUME NEW m \in Nat, m \in M, m + 1 <= n PROVE Good(m + 1)
    <3> HIDE DEF Good
    <3> QED OBVIOUS
  <2> HIDE DEF M, n, base
  <2>1. m + 1 \in 1 .. n /\ (m + 1) - 1 = m /\ m <= n /\ m \in 0 .. n /\ m # n
    BY <1>2
  <2>2. /\ size > 0 => Len(st[m].file) < size
        /\ \E k \in 0 .. m : WroteUpto(file, sealed, bytes, k, m, st[m].file, st[m].sealed)
    BY <2>1 DEF M
  <2> HIDE DEF Good
  <2>3. PICK f \in Seq(A), s \in Seq(A) : st[m] = [file |-> f, sealed |-> s]
    BY <1>2, <2>1 DEF Files
  <2>4. st[m].file = f /\ st[m].sealed = s
    BY <2>3
  <2>5. PICK k \in 0 .. m : WroteUpto(file, sealed, bytes, k, m, f, s)
    BY <2>2, <2>4
  <2>6. st[m + 1] = PutOne(size, [file |-> f, sealed |-> s], bytes[m + 1]) /\ bytes[m + 1] \in A
    BY <1>2, <2>1, <2>3
  <2>13. PICK p : p = st[m + 1]
    OBVIOUS
  <2>7. PICK b \in A : b = bytes[m + 1] /\ p = PutOne(size, [file |-> f, sealed |-> s], b)
    BY <2>6, <2>13
  <2>11. size > 0 => Len(f) < size
    BY <2>2, <2>4
  <2>12. /\ size > 0 => Len(p.file) < size
         /\ \/ p.file = Append(f, b) /\ p.sealed = s
            \/ p.file = <<>> /\ p.sealed # <<>> /\ Last(p.sealed) = b
    <3>1. p = PutOne(size, [file |-> f, sealed |-> s], b)
      BY <2>7
    <3> HIDE <2>7
    <3> QED BY ONLY SMTT(40), <2>11, <3>1, PutGrows, size \in Nat, f \in Seq(A), s \in Seq(A), b \in A
  <2>8. WroteUpto(file, sealed, bytes, k, m + 1, Append(f, bytes[m + 1]), s)
    BY <2>1, <2>5, WroteOneMore DEF n
  <2>9. k \in 0 .. m + 1 /\ m + 1 \in 0 .. m + 1
    OBVIOUS
  <2>10. \E l \in 0 .. m + 1 : WroteUpto(file, sealed, bytes, l, m + 1, p.file, p.sealed)
    <3>1. CASE p.file = Append(f, b) /\ p.sealed = s
      <4>1. WroteUpto(file, sealed, bytes, k, m + 1, p.file, p.sealed)
        BY <2>7, <2>8, <3>1, Zenon
      <4> QED BY <2>9, <4>1
    <3>2. CASE p.file = <<>> /\ p.sealed # <<>> /\ Last(p.sealed) = b
      <4>1. WroteUpto(file, sealed, bytes, m + 1, m + 1, <<>>, p.sealed)
        BY <2>1, <2>7, <3>2, WroteFull DEF n
      <4> QED BY <2>9, <3>2, <4>1
    <3> QED BY <2>12, <3>1, <3>2
  <2> QED BY <2>10, <2>12, <2>13 DEF Good
<1>5. Good(n)
  <2>1. n \in M
    <3> HIDE DEF M
    <3> QED BY <1>2, <1>3, <1>4, SetInduction
  <2> HIDE DEF Good
  <2> QED BY <1>2, <2>1
<1>6. file' \in Seq(A) /\ sealed' \in Seq(A)
  <2>1. st[n] \in Files(A)
    BY <1>2
  <2> QED BY <1>1, <2>1 DEF Files
<1>7. \E k \in 0 .. n : Wrote(file, sealed, bytes, k, file', sealed')
  <2>1. PICK k \in 0 .. n : WroteUpto(file, sealed, bytes, k, n, file', sealed')
    BY <1>1, <1>5
  <2>2. SubSeq(bytes, 1, n) = bytes
    BY SubSeqFull
  <2> QED BY <2>1, <2>2 DEF Wrote, WroteUpto, Behind, From
<1> QED BY <1>1, <1>5, <1>6, <1>7
------------------------------------------------------------------------------
(* The types. *)

\* a stamped line of the history
Line == [at : 1 .. MaxTime, text : Seq(Text)]

\* TypeOK, with the types of the histories, and what keeps the loop of
\* write_all inside its buffer and `unstamped` below its bound.
TypeInv ==
  /\ TypeOK
  /\ sealed \in Seq(Bytes) /\ said \in Seq(Line)
  /\ i <= Len(buf) + 1
  /\ unstamped <= restarts + 1

\* What the child prints may be in a log.
LEMMA TextInLog ==
  ASSUME NEW s \in Seq(Text)
  PROVE  s \in Seq(Bytes)
<1>1. Len(s) \in Nat /\ DOMAIN s = 1 .. Len(s) /\ \A k \in 1 .. Len(s) : s[k] \in Bytes
  BY LenProperties, ElementOfSeq DEF Bytes
<1>2. s = [k \in 1 .. Len(s) |-> s[k]]
  BY <1>1
<1>3. [k \in 1 .. Len(s) |-> s[k]] \in Seq(Bytes)
  BY <1>1, IsASeq
<1> QED BY <1>2, <1>3, Zenon

\* A chunk.
LEMMA ChunkType ==
  ASSUME NEW chunk \in Chunks
  PROVE  chunk \in Seq(Text) /\ Len(chunk) \in 1 .. MaxChunk
<1>1. PICK n \in 1 .. MaxChunk : chunk \in [1 .. n -> Text]
  BY DEF Chunks
<1>2. n \in Nat
  BY <1>1, ConstantTypes
<1>3. chunk \in Seq(Text)
  BY <1>1, <1>2, SeqDef
<1>4. Len(chunk) = n
  BY <1>1, <1>2, <1>3, LenProperties
<1> QED BY <1>1, <1>3, <1>4

\* The history stays one of lines.
LEMMA SayType ==
  ASSUME NEW bytes \in Seq(Text), said \in Seq(Line), Say(bytes)
  PROVE  said' \in Seq(Line)
<1> DEFINE nl == {k \in DOMAIN bytes : bytes[k] = NL}
           rest == SubSeq(bytes, 1, IF nl = {} THEN Len(bytes) ELSE Min(nl))
           n == Len(said)
<1>1. rest \in Seq(Text)
  <2>1. Len(bytes) \in Nat /\ DOMAIN bytes = 1 .. Len(bytes)
    BY LenProperties
  <2>2. (IF nl = {} THEN Len(bytes) ELSE Min(nl)) \in 0 .. Len(bytes)
    <3>1. nl \in SUBSET Nat /\ nl \in SUBSET (1 .. Len(bytes))
      BY <2>1
    <3> HIDE DEF nl
    <3>2. nl # {} => Min(nl) \in nl
      BY <3>1, LeastOf
    <3>3. nl # {} => Min(nl) \in 1 .. Len(bytes)
      BY <3>1, <3>2
    <3>4. Len(bytes) \in 0 .. Len(bytes) /\ 1 .. Len(bytes) \subseteq 0 .. Len(bytes)
      BY <2>1
    <3> QED BY <3>3, <3>4, Zenon
  <2> HIDE DEF nl
  <2> QED BY <2>2, PartType
<1>2. CASE said # <<>> /\ (said[n].text = <<>> \/ ~ Complete(said[n].text))
  <2>1. n \in 1 .. n /\ n \in Nat /\ said[n] \in Line
    BY <1>2, EmptySeq, LenProperties, ElementOfSeq
  <2>2. said' = [said EXCEPT ![n].text = @ \o rest]
    BY <1>2 DEF Say
  <2>3. said[n].text \o rest \in Seq(Text)
    BY <1>1, <2>1, ConcatProperties DEF Line
  <2> HIDE DEF rest, n
  <2>4. PICK x \in Seq(Text) : x = said[n].text \o rest
    BY <2>3
  <2>5. [said[n] EXCEPT !.text = x] \in Line
    BY <2>1, <2>4 DEF Line
  <2>6. PICK y \in Line : y = [said[n] EXCEPT !.text = x]
    BY <2>5
  <2>7. said' = [said EXCEPT ![n] = y]
    BY <2>2, <2>4, <2>6
  <2>8. PICK m \in 1 .. Len(said) : m = n
    BY <2>1 DEF n
  <2>9. [said EXCEPT ![m] = y] \in Seq(Line)
    BY <2>6, <2>8, ExceptSeq
  <2> QED BY <2>7, <2>8, <2>9
<1>3. CASE ~ (said # <<>> /\ (said[n].text = <<>> \/ ~ Complete(said[n].text)))
  BY <1>3 DEF Say
<1> QED BY <1>2, <1>3

\* What is written to the files keeps their types.
LEMMA WriteType ==
  ASSUME TypeInv, NEW bytes \in Seq(Bytes), WriteRaw(bytes)
  PROVE  /\ file' \in Seq(Bytes) /\ sealed' \in Seq(Bytes)
         /\ size > 0 => Len(file') < size
<1>1. /\ file \in Seq(Bytes) /\ sealed \in Seq(Bytes) /\ size \in Nat
      /\ size > 0 => Len(file) < size
  BY ConstantTypes DEF TypeInv, TypeOK, Bytes
<1> QED BY <1>1, WriteRawDoes

\* What the loop of write_all finds.
LEMMA LoopType ==
  ASSUME TypeInv
  PROVE  /\ Len(buf) \in Nat /\ DOMAIN buf = 1 .. Len(buf) /\ Len(buf) <= MaxChunk
         /\ buf \in Seq(Text) /\ buf \in Seq(Bytes) /\ \A k \in 1 .. Len(buf) : buf[k] \in Text
         /\ start \in Nat /\ start >= 1 /\ i \in Nat /\ start <= i /\ i <= Len(buf) + 1
         /\ MaxChunk \in Nat
<1>1. buf \in Seq(Text) /\ Len(buf) <= MaxChunk /\ start \in 1 .. MaxChunk + 1 /\ i \in start .. MaxChunk + 1
      /\ i <= Len(buf) + 1
  BY DEF TypeInv, TypeOK
<1>2. Len(buf) \in Nat /\ DOMAIN buf = 1 .. Len(buf) /\ \A k \in 1 .. Len(buf) : buf[k] \in Text
  BY <1>1, LenProperties, ElementOfSeq
<1>3. buf \in Seq(Bytes)
  BY <1>1, TextInLog
<1> QED BY <1>1, <1>2, <1>3, ConstantTypes

\* The initial state has the types.
LEMMA InitType == Init => TypeInv
<1> SUFFICES ASSUME Init PROVE TypeInv
  OBVIOUS
<1>1. /\ <<>> \in Seq(Bytes) /\ <<>> \in Seq(Line) /\ <<>> \in Seq(Text) /\ Len(<<>>) = 0
  BY EmptySeq
<1>2. /\ file \in Seq(Bytes) /\ Len(file) = 0 /\ size \in FileSizes
      /\ size > 0 => Len(file) < size
  BY <1>1, ConstantTypes DEF Init
<1>3. /\ timestamps \in BOOLEAN /\ atLineStart \in BOOLEAN /\ unstamped \in 0 .. MaxRestarts + 1
      /\ unstamped <= restarts + 1
  BY ConstantTypes DEF Init
<1>4. /\ buf \in Seq(Text) /\ Len(buf) = 0 /\ Len(buf) <= MaxChunk
      /\ start \in 1 .. MaxChunk + 1 /\ i \in start .. MaxChunk + 1 /\ i <= Len(buf) + 1
  BY <1>1, ConstantTypes DEF Init
<1>5. now \in 1 .. MaxTime /\ printed \in 0 .. MaxBytes /\ restarts \in 0 .. MaxRestarts
  BY ConstantTypes DEF Init
<1>6. sealed \in Seq(Bytes) /\ said \in Seq(Line) /\ DOMAIN said = {}
  BY <1>1 DEF Init
<1> QED BY <1>2, <1>3, <1>4, <1>5, <1>6 DEF TypeInv, TypeOK, Bytes

\* The parts of the types that a step is about.
FilesType == /\ file \in Seq(Bytes) /\ size \in FileSizes /\ (size > 0 => Len(file) < size)
             /\ sealed \in Seq(Bytes)
LoopInv == /\ timestamps \in BOOLEAN /\ atLineStart \in BOOLEAN
           /\ buf \in Seq(Text) /\ Len(buf) <= MaxChunk
           /\ start \in 1 .. MaxChunk + 1 /\ i \in start .. MaxChunk + 1
           /\ i <= Len(buf) + 1
CountType == /\ now \in 1 .. MaxTime
             /\ printed \in 0 .. MaxBytes /\ restarts \in 0 .. MaxRestarts
             /\ unstamped \in 0 .. MaxRestarts + 1 /\ unstamped <= restarts + 1
SaidType == said \in Seq(Line)

\* The types are those of the parts.
LEMMA TypeParts == TypeInv <=> FilesType /\ LoopInv /\ CountType /\ SaidType
<1>1. said \in Seq(Line) => \A k \in DOMAIN said : said[k].at \in 1 .. MaxTime /\ said[k].text \in Seq(Text)
  <2> SUFFICES ASSUME said \in Seq(Line), NEW k \in DOMAIN said
               PROVE  said[k].at \in 1 .. MaxTime /\ said[k].text \in Seq(Text)
    OBVIOUS
  <2>1. said[k] \in Line
    BY LenProperties, ElementOfSeq
  <2> QED BY <2>1 DEF Line
<1> QED BY <1>1 DEF TypeInv, TypeOK, FilesType, LoopInv, CountType, SaidType, Bytes

\* Every step keeps the types.
LEMMA NextType == TypeInv /\ [Next]_vars => TypeInv'
<1> SUFFICES ASSUME TypeInv, [Next]_vars PROVE TypeInv'
  OBVIOUS
<1>0. /\ FilesType /\ LoopInv /\ CountType /\ said \in Seq(Line)
      /\ (FilesType' /\ LoopInv' /\ CountType' /\ said' \in Seq(Line) => TypeInv')
  <2>1. /\ FilesType /\ LoopInv /\ CountType /\ SaidType
        /\ (FilesType' /\ LoopInv' /\ CountType' /\ SaidType' => TypeInv')
    BY TypeParts, PTL
  <2> QED BY <2>1 DEF SaidType
<1>1. CASE UNCHANGED vars
  BY <1>0, <1>1 DEF vars, writer, history, FilesType, LoopInv, CountType
<1>2. ASSUME NEW chunk \in Chunks, Receive(chunk) PROVE TypeInv'
  <2>1. chunk \in Seq(Text) /\ Len(chunk) \in 1 .. MaxChunk /\ chunk \in Seq(Bytes)
    BY <1>2, ChunkType, TextInLog
  <2>2. FilesType'
    <3>1. CASE timestamps
      BY <1>0, <1>2, <3>1 DEF Receive, FilesType
    <3>2. CASE ~ timestamps
      <4>1. WriteRaw(chunk) /\ size' = size
        BY <1>2, <3>2 DEF Receive
      <4> QED BY <1>0, <2>1, <4>1, WriteType DEF FilesType
    <3> QED BY <3>1, <3>2
  <2>3. LoopInv'
    <3>1. CASE timestamps
      <4>1. buf' = chunk /\ start' = 1 /\ i' = 1 /\ UNCHANGED <<timestamps, atLineStart>>
        BY <1>2, <3>1 DEF Receive
      <4> QED BY <1>0, <2>1, <4>1, ConstantTypes DEF LoopInv
    <3>2. CASE ~ timestamps
      <4>1. UNCHANGED <<buf, start, i, timestamps, atLineStart>>
        BY <1>2, <3>2 DEF Receive
      <4> QED BY <1>0, <4>1 DEF LoopInv
    <3> QED BY <3>1, <3>2
  <2>4. CountType'
    <3>1. /\ printed + Len(chunk) <= MaxBytes /\ printed' = printed + Len(chunk)
          /\ UNCHANGED <<now, restarts, unstamped>>
      BY <1>2 DEF Receive
    <3>2. printed + Len(chunk) \in 0 .. MaxBytes
      BY <1>0, <2>1, <3>1, ConstantTypes DEF CountType
    <3> QED BY <1>0, <3>1, <3>2 DEF CountType
  <2>5. said' \in Seq(Line)
    <3>1. CASE timestamps
      BY <1>0, <1>2, <3>1 DEF Receive
    <3>2. CASE ~ timestamps
      <4>1. Say(chunk)
        BY <1>2, <3>2 DEF Receive
      <4> QED BY <1>0, <2>1, <4>1, SayType
    <3> QED BY <3>1, <3>2
  <2> QED BY <1>0, <2>2, <2>3, <2>4, <2>5
<1>3. ASSUME Stamp PROVE TypeInv'
  <2>1. /\ i \in DOMAIN buf /\ WriteRaw(SubSeq(buf, start, i - 1) \o Prefix(now))
        /\ said' = Append(said, [at |-> now, text |-> <<>>])
        /\ start' = i /\ atLineStart' = FALSE
        /\ UNCHANGED <<size, unstamped, timestamps, buf, i, now, printed, restarts>>
    BY <1>3 DEF Stamp
  <2>2. now \in 1 .. MaxTime
    BY <1>0 DEF CountType
  <2>3. SubSeq(buf, start, i - 1) \o Prefix(now) \in Seq(Bytes)
    <3>1. i - 1 \in Nat /\ start \in Nat /\ start > 0 /\ start <= (i - 1) + 1 /\ i - 1 <= Len(buf)
      BY LoopType
    <3>2. SubSeq(buf, start, i - 1) \in Seq(Bytes)
      BY <3>1, LoopType, BufPart
    <3>3. Prefix(now) \in Seq(Bytes)
      BY <2>2, PrefixIs
    <3> QED BY <3>2, <3>3, ConcatProperties
  <2>4. FilesType'
    BY <1>0, <2>1, <2>3, WriteType DEF FilesType
  <2>5. LoopInv'
    <3>1. /\ start' = i /\ atLineStart' = FALSE /\ timestamps' = timestamps
          /\ buf' = buf /\ i' = i
      BY <2>1
    <3>2. i \in 1 .. MaxChunk + 1 /\ i \in i .. MaxChunk + 1
      BY <1>0, LoopType DEF LoopInv
    <3> QED BY <1>0, <3>1, <3>2 DEF LoopInv
  <2>6. CountType'
    BY <1>0, <2>1 DEF CountType
  <2>7. said' \in Seq(Line)
    <3>1. [at |-> now, text |-> <<>>] \in Line
      BY <2>2, EmptySeq DEF Line
    <3> QED BY <1>0, <2>1, <3>1, AppendProperties
  <2> QED BY <1>0, <2>4, <2>5, <2>6, <2>7
<1>4. ASSUME Visit PROVE TypeInv'
  <2>1. /\ i \in DOMAIN buf /\ i' = i + 1
        /\ UNCHANGED <<size, unstamped, timestamps, buf, now, printed, restarts>>
    BY <1>4 DEF Visit
  <2>2. CountType'
    BY <1>0, <2>1 DEF CountType
  <2>3. CASE buf[i] = NL
    <3>1. /\ WriteRaw(SubSeq(buf, start, i)) /\ Say(SubSeq(buf, start, i))
          /\ start' = i + 1 /\ atLineStart' = TRUE
      BY <1>4, <2>3 DEF Visit
    <3>2. SubSeq(buf, start, i) \in Seq(Text) /\ SubSeq(buf, start, i) \in Seq(Bytes)
      <4>1. i \in Nat /\ start \in Nat /\ start > 0 /\ start <= i + 1 /\ i <= Len(buf)
        BY <2>1, LoopType
      <4> QED BY <4>1, LoopType, BufPart
    <3>3. FilesType'
      BY <1>0, <2>1, <3>1, <3>2, WriteType DEF FilesType
    <3>4. LoopInv'
      BY <1>0, <2>1, <3>1, LoopType DEF LoopInv
    <3>5. said' \in Seq(Line)
      BY <1>0, <3>1, <3>2, SayType
    <3> QED BY <1>0, <2>2, <3>3, <3>4, <3>5
  <2>4. CASE buf[i] # NL
    <3>1. UNCHANGED <<file, sealed, said, start, atLineStart>>
      BY <1>4, <2>4 DEF Visit
    <3>2. FilesType' /\ said' \in Seq(Line)
      BY <1>0, <2>1, <3>1 DEF FilesType
    <3>3. LoopInv'
      BY <1>0, <2>1, <3>1, LoopType DEF LoopInv
    <3> QED BY <1>0, <2>2, <3>2, <3>3
  <2> QED BY <2>3, <2>4
<1>5. ASSUME Flush PROVE TypeInv'
  <2>1. /\ WriteRaw(From(buf, start - 1)) /\ Say(From(buf, start - 1))
        /\ buf' = <<>> /\ start' = 1 /\ i' = 1
        /\ UNCHANGED <<size, unstamped, timestamps, atLineStart, now, printed, restarts>>
    BY <1>5 DEF Flush
  <2>2. From(buf, start - 1) \in Seq(Text) /\ From(buf, start - 1) \in Seq(Bytes)
    <3>1. /\ Len(buf) \in Nat /\ start \in Nat /\ start > 0 /\ start <= Len(buf) + 1
          /\ (start - 1) + 1 = start
      BY LoopType
    <3> QED BY <3>1, LoopType, BufPart DEF From
  <2>3. FilesType'
    BY <1>0, <2>1, <2>2, WriteType DEF FilesType
  <2>4. LoopInv'
    <3>1. buf' \in Seq(Text) /\ Len(buf') = 0
      BY <2>1, EmptySeq
    <3> QED BY <1>0, <2>1, <3>1, ConstantTypes DEF LoopInv
  <2>5. CountType' /\ said' \in Seq(Line)
    BY <1>0, <2>1, <2>2, SayType DEF CountType
  <2> QED BY <1>0, <2>3, <2>4, <2>5
<1>6. ASSUME Tick PROVE TypeInv'
  <2>1. now' \in 1 .. MaxTime /\ UNCHANGED <<size, file, sealed, writer, printed, restarts, history>>
    BY <1>6 DEF Tick
  <2> QED BY <1>0, <2>1 DEF writer, history, FilesType, LoopInv, CountType
<1>7. ASSUME Restart PROVE TypeInv'
  <2>1. /\ restarts < MaxRestarts /\ restarts' = restarts + 1 /\ timestamps' \in Modes
        /\ unstamped' = IF timestamps' THEN unstamped ELSE unstamped + 1
        /\ atLineStart' = (file = <<>> \/ Last(file) = NL)
        /\ buf' = <<>> /\ start' = 1 /\ i' = 1
        /\ UNCHANGED <<size, file, sealed, now, printed, said>>
    BY <1>7 DEF Restart
  <2>2. FilesType' /\ said' \in Seq(Line)
    BY <1>0, <2>1 DEF FilesType
  <2>3. LoopInv'
    <3>1. buf' \in Seq(Text) /\ Len(buf') = 0
      BY <2>1, EmptySeq
    <3>2. timestamps' \in BOOLEAN /\ atLineStart' \in BOOLEAN
      BY <2>1, ConstantTypes
    <3> QED BY <2>1, <3>1, <3>2, ConstantTypes DEF LoopInv
  <2>4. CountType'
    BY <1>0, <2>1, ConstantTypes DEF CountType
  <2> QED BY <1>0, <2>2, <2>3, <2>4
<1> QED BY <1>1, <1>2, <1>3, <1>4, <1>5, <1>6, <1>7 DEF Next

\* The log holds bytes of the child and stamps and is never full between two
\* writes, and the loop of write_all stays inside its buffer (pty.rs:232-293).
THEOREM TimedTypeInvariance == Spec => []TypeOK
<1>1. Spec => []TypeInv
  BY InitType, NextType, PTL DEF Spec
<1>2. TypeInv => TypeOK
  BY DEF TypeInv
<1> QED BY <1>1, <1>2, PTL

------------------------------------------------------------------------------
(* Where stamps are. *)

\* the next byte of the log begins a line, in the file or behind the one put away
AtStart(f, s) == IF f = <<>> THEN s = <<>> \/ Last(s) = NL ELSE Last(f) = NL

\* offsets of the bytes that begin a line
LineStarts(f) == {p \in 0 .. Len(f) - 1 : p = 0 \/ f[p] = NL}

\* a stamp begins at this offset
StampAt(f, p) ==
  p + 3 <= Len(f) /\ f[p + 1] = "[" /\ f[p + 2] \in Range(Digits) /\ f[p + 3] = "]"

\* every line has one, except for the rest of a line that was put away
LinesStamped(f, s) ==
  \A p \in LineStarts(f) : StampAt(f, p) \/ (p = 0 /\ s # <<>> /\ Last(s) # NL)

\* no newline but perhaps the last byte
OneLine(bytes) == \A k \in 1 .. Len(bytes) - 1 : bytes[k] # NL

\* What was written ends the log.
LEMMA WroteEnds ==
  ASSUME NEW A, NEW f0 \in Seq(A), NEW s0, NEW bytes \in Seq(A), NEW k \in 0 .. Len(bytes),
         NEW f \in Seq(A), NEW s, Wrote(f0, s0, bytes, k, f, s)
  PROVE  /\ bytes = <<>> => f = f0 /\ s = s0
         /\ bytes # <<>> => /\ f = <<>> \/ Last(f) = Last(bytes)
                            /\ AtStart(f, s) <=> Last(bytes) = NL
<1>1. Len(bytes) \in Nat /\ k \in Nat /\ k <= Len(bytes)
  BY LenProperties
<1>2. CASE k = 0
  <2>1. f = f0 \o bytes /\ s = s0
    BY <1>2 DEF Wrote
  <2>2. bytes = <<>> => f = f0
    BY <2>1, ConcatEmptySeq
  <2>3. bytes # <<>> => f # <<>> /\ Last(f) = Last(bytes)
    BY <2>1, LastOfBoth
  <2> QED BY <2>1, <2>2, <2>3 DEF AtStart
<1>3. CASE k > 0
  <2>1. f = SubSeq(bytes, k + 1, Len(bytes)) /\ s # <<>> /\ Last(s) = bytes[k]
    BY <1>3 DEF Wrote, From
  <2>2. bytes # <<>>
    BY <1>1, <1>3, EmptySeq
  <2>3. CASE k = Len(bytes)
    <3>1. f = <<>>
      BY <1>1, <2>1, <2>3, SubSeqEmpty
    <3> QED BY <2>1, <2>2, <2>3, <3>1 DEF AtStart, Last
  <2>4. CASE k # Len(bytes)
    <3>1. PICK m \in Nat : Len(bytes) = k + m /\ m > 0
      <4>1. Len(bytes) - k \in Nat /\ Len(bytes) - k > 0 /\ Len(bytes) = k + (Len(bytes) - k)
        BY <1>1, <2>4
      <4> QED BY <4>1
    <3>2. Len(f) = m /\ \A x \in 1 .. m : f[x] = bytes[k + x]
      BY <1>1, <2>1, <3>1, Part
    <3>3. m \in 1 .. m /\ f # <<>>
      BY <3>1, <3>2, EmptySeq
    <3>4. Last(f) = Last(bytes)
      BY <3>1, <3>2, <3>3 DEF Last
    <3> QED BY <2>2, <3>3, <3>4 DEF AtStart
  <2> QED BY <2>3, <2>4
<1> QED BY <1>1, <1>2, <1>3

\* One line, or a part of it, keeps the lines stamped: it brings its stamp or goes
\* on with a line that has begun.
LEMMA WroteStamped ==
  ASSUME NEW A, NEW f0 \in Seq(A), NEW s0 \in Seq(A), NEW bytes \in Seq(A), NEW k \in 0 .. Len(bytes),
         NEW f \in Seq(A), NEW s, Wrote(f0, s0, bytes, k, f, s), OneLine(bytes),
         LinesStamped(f0, s0),
         bytes = <<>> \/ StampAt(bytes, 0) \/ ~ AtStart(f0, s0)
  PROVE  LinesStamped(f, s)
<1>1. /\ Len(bytes) \in Nat /\ k \in Nat /\ k <= Len(bytes) /\ Len(f0) \in Nat /\ Len(f) \in Nat
      /\ \A x \in Nat : x > 0 /\ x < Len(bytes) => bytes[x] # NL
  BY LenProperties DEF OneLine
<1> SUFFICES ASSUME NEW p \in LineStarts(f)
             PROVE  StampAt(f, p) \/ (p = 0 /\ s # <<>> /\ Last(s) # NL)
  BY DEF LinesStamped
<1>2. p \in Nat /\ p < Len(f) /\ (p = 0 \/ f[p] = NL)
  BY <1>1 DEF LineStarts
<1>3. CASE k = 0
  <2>1. f = f0 \o bytes /\ s = s0
    BY <1>3 DEF Wrote
  <2>2. /\ Len(f) = Len(f0) + Len(bytes)
        /\ \A x \in 1 .. Len(f0) : f[x] = f0[x]
        /\ \A x \in 1 .. Len(bytes) : f[Len(f0) + x] = bytes[x]
    <3>1. /\ Len(f) = Len(f0) + Len(bytes)
          /\ \A x \in 1 .. Len(f0) + Len(bytes) :
               f[x] = IF x <= Len(f0) THEN f0[x] ELSE bytes[x - Len(f0)]
      BY <2>1, ConcatProperties
    <3>2. ASSUME NEW x \in 1 .. Len(bytes) PROVE f[Len(f0) + x] = bytes[x]
      <4>1. /\ Len(f0) + x \in 1 .. Len(f0) + Len(bytes) /\ ~ (Len(f0) + x <= Len(f0))
            /\ (Len(f0) + x) - Len(f0) = x
        BY <1>1
      <4> QED BY <3>1, <4>1
    <3>3. ASSUME NEW x \in 1 .. Len(f0) PROVE f[x] = f0[x]
      <4>1. x \in 1 .. Len(f0) + Len(bytes) /\ x <= Len(f0)
        BY <1>1
      <4> QED BY <3>1, <4>1
    <3> QED BY <3>1, <3>2, <3>3
  <2>3. CASE p < Len(f0)
    <3>1. p = 0 \/ (p \in 1 .. Len(f0) /\ f[p] = f0[p])
      BY <1>1, <1>2, <2>2, <2>3
    <3>2. p \in LineStarts(f0)
      BY <1>1, <1>2, <2>3, <3>1 DEF LineStarts
    <3>3. StampAt(f0, p) \/ (p = 0 /\ s0 # <<>> /\ Last(s0) # NL)
      BY <3>2 DEF LinesStamped
    <3>4. StampAt(f0, p) => StampAt(f, p)
      <4> SUFFICES ASSUME StampAt(f0, p) PROVE StampAt(f, p)
        OBVIOUS
      <4>1. p + 3 <= Len(f0) /\ p + 1 \in 1 .. Len(f0) /\ p + 2 \in 1 .. Len(f0) /\ p + 3 \in 1 .. Len(f0)
        BY <1>1, <1>2 DEF StampAt
      <4>2. p + 3 <= Len(f)
        BY <1>1, <1>2, <2>2, <4>1
      <4>3. f[p + 1] = f0[p + 1] /\ f[p + 2] = f0[p + 2] /\ f[p + 3] = f0[p + 3]
        BY <2>2, <4>1
      <4> QED BY <4>2, <4>3 DEF StampAt
    <3> QED BY <2>1, <3>3, <3>4
  <2>4. CASE p = Len(f0)
    <3>1. bytes # <<>>
      BY <1>1, <1>2, <2>2, <2>4, EmptySeq
    <3>2. CASE StampAt(bytes, 0)
      <4>1. 3 <= Len(bytes) /\ bytes[1] = "[" /\ bytes[2] \in Range(Digits) /\ bytes[3] = "]"
        <5>1. 0 + 3 = 3 /\ 0 + 1 = 1 /\ 0 + 2 = 2
          OBVIOUS
        <5> QED BY <3>2, <5>1, Zenon DEF StampAt
      <4>2. 1 \in 1 .. Len(bytes) /\ 2 \in 1 .. Len(bytes) /\ 3 \in 1 .. Len(bytes) /\ p + 3 <= Len(f)
        BY <1>1, <2>2, <2>4, <4>1
      <4>3. f[p + 1] = bytes[1] /\ f[p + 2] = bytes[2] /\ f[p + 3] = bytes[3]
        BY <2>2, <2>4, <4>2
      <4> QED BY <4>1, <4>2, <4>3 DEF StampAt
    <3>3. CASE ~ AtStart(f0, s0)
      <4>1. CASE f0 = <<>>
        BY <2>1, <2>4, <3>3, <4>1, EmptySeq DEF AtStart
      <4>2. CASE f0 # <<>>
        <5>1. p \in 1 .. Len(f0) /\ p # 0
          BY <1>1, <2>4, <4>2, EmptySeq
        <5>2. f[p] = f0[Len(f0)]
          BY <2>2, <2>4, <5>1
        <5>3. f0[Len(f0)] # NL
          BY <3>3, <4>2 DEF AtStart, Last
        <5> QED BY <1>2, <5>1, <5>2, <5>3
      <4> QED BY <4>1, <4>2
    <3> QED BY <3>1, <3>2, <3>3
  <2>5. CASE p > Len(f0)
    <3>1. PICK x \in Nat : p = Len(f0) + x /\ x > 0 /\ x < Len(bytes)
      <4>1. p - Len(f0) \in Nat /\ p = Len(f0) + (p - Len(f0)) /\ p - Len(f0) > 0 /\ p - Len(f0) < Len(bytes)
        BY <1>1, <1>2, <2>2, <2>5
      <4> QED BY <4>1
    <3>2. f[p] = bytes[x] /\ p # 0
      <4>1. x \in 1 .. Len(bytes) /\ p # 0
        BY <1>1, <3>1
      <4> QED BY <2>2, <3>1, <4>1
    <3> QED BY <1>1, <1>2, <3>1, <3>2
  <2> QED BY <1>1, <1>2, <2>3, <2>4, <2>5
<1>4. CASE k > 0
  <2>1. f = SubSeq(bytes, k + 1, Len(bytes)) /\ s # <<>> /\ Last(s) = bytes[k]
    BY <1>4 DEF Wrote, From
  <2>2. PICK m \in Nat : Len(bytes) = k + m
    <3>1. Len(bytes) - k \in Nat /\ Len(bytes) = k + (Len(bytes) - k)
      BY <1>1
    <3> QED BY <3>1
  <2>3. Len(f) = m /\ \A x \in 1 .. m : f[x] = bytes[k + x]
    BY <1>1, <2>1, <2>2, Part
  <2>4. p < m
    BY <1>2, <2>3
  <2>5. k + p < Len(bytes) /\ k + p > 0 /\ k + p \in Nat /\ k < Len(bytes)
    BY <1>1, <1>2, <1>4, <2>2, <2>4
  <2>6. CASE p = 0
    BY <1>1, <1>4, <2>1, <2>5, <2>6
  <2>7. CASE p # 0
    <3>1. p \in 1 .. m
      BY <1>2, <2>4, <2>7
    <3> QED BY <1>1, <1>2, <2>3, <2>5, <2>7, <3>1
  <2> QED BY <2>6, <2>7
<1> QED BY <1>1, <1>3, <1>4

\* What the loop has seen of the line it is in, where the log then stands, and
\* the stamps of a log whose daemons all stamp.
StampInv ==
  /\ atLineStart => start = i
  /\ \A k \in start .. i - 1 : buf[k] # NL
  /\ timestamps /\ atLineStart => file = <<>> \/ Last(file) = NL
  /\ timestamps /\ ~ atLineStart => ~ AtStart(file, sealed)
  /\ buf # <<>> => timestamps
  /\ unstamped = 0 => timestamps /\ LinesStamped(file, sealed)

\* A stamp is where it was written.
LEMMA PrefixStamps ==
  ASSUME NEW t \in 1 .. MaxTime
  PROVE  /\ StampAt(Prefix(t), 0) /\ OneLine(Prefix(t)) /\ Prefix(t) # <<>>
         /\ Last(Prefix(t)) # NL
<1>1. /\ Len(Prefix(t)) = 4 /\ Prefix(t)[1] = "[" /\ Prefix(t)[2] = Digits[t] /\ t \in 1 .. 9
      /\ Prefix(t)[3] = "]" /\ \A x \in 1 .. 4 : Prefix(t)[x] # NL
  BY PrefixIs
<1>2. Digits[t] \in Range(Digits)
  BY <1>1, DigitTypes
<1>3. 0 + 1 = 1 /\ 0 + 2 = 2 /\ 0 + 3 = 3 /\ 0 + 3 <= 4
  OBVIOUS
<1>4. StampAt(Prefix(t), 0)
  BY <1>1, <1>2, <1>3 DEF StampAt
<1>5. OneLine(Prefix(t)) /\ Last(Prefix(t)) # NL
  BY <1>1 DEF OneLine, Last
<1>6. Prefix(t) # <<>>
  BY <1>1, EmptySeq
<1> QED BY <1>4, <1>5, <1>6

\* What the loop writes at a newline or after its end is a part of one line.
LEMMA LoopWrites ==
  ASSUME TypeInv, StampInv, NEW q \in start - 1 .. Len(buf), q = i \/ q < i
  PROVE  LET bytes == SubSeq(buf, start, q)
         IN  /\ bytes \in Seq(Bytes) /\ OneLine(bytes)
             /\ bytes = <<>> <=> q = start - 1
             /\ bytes # <<>> => Last(bytes) = buf[q]
<1>1. /\ start \in Nat /\ start > 0 /\ q \in Nat /\ start <= q + 1 /\ q <= Len(buf)
      /\ i \in Nat /\ buf \in Seq(Bytes) /\ start <= i
  BY LoopType
<1> DEFINE bytes == SubSeq(buf, start, q)
           n == (q + 1) - start
<1>2. /\ bytes \in Seq(Bytes) /\ Len(bytes) = n
      /\ \A k \in 1 .. n : bytes[k] = buf[(start - 1) + k]
  BY <1>1, BufPart
<1>3. n \in Nat /\ n = 0 <=> q = start - 1
  BY <1>1
<1>4. bytes = <<>> <=> n = 0
  BY <1>2, EmptySeq
<1>5. n # 0 => Last(bytes) = buf[q]
  <2> SUFFICES ASSUME n # 0 PROVE bytes[n] = buf[q]
    BY <1>2 DEF Last
  <2>1. n \in 1 .. n /\ (start - 1) + n = q
    BY <1>1, <1>3
  <2> HIDE DEF bytes, n
  <2> QED BY <1>2, <2>1
<1>6. OneLine(bytes)
  <2> SUFFICES ASSUME NEW k \in 1 .. n - 1 PROVE bytes[k] # NL
    BY <1>2 DEF OneLine
  <2>1. k \in 1 .. n /\ (start - 1) + k \in start .. i - 1
    BY <1>1, <1>3
  <2>2. buf[(start - 1) + k] # NL
    BY <2>1 DEF StampInv
  <2> QED BY <1>2, <2>1, <2>2
<1> QED BY <1>2, <1>3, <1>4, <1>5, <1>6

\* A write of a part of a line.
LEMMA WriteInv ==
  ASSUME TypeInv, NEW bytes \in Seq(Bytes), WriteRaw(bytes), OneLine(bytes)
  PROVE  /\ bytes = <<>> => file' = file /\ sealed' = sealed
         /\ bytes # <<>> => /\ file' = <<>> \/ Last(file') = Last(bytes)
                            /\ AtStart(file', sealed') <=> Last(bytes) = NL
         /\ LinesStamped(file, sealed) /\ (bytes = <<>> \/ StampAt(bytes, 0) \/ ~ AtStart(file, sealed))
              => LinesStamped(file', sealed')
<1>1. /\ file \in Seq(Bytes) /\ sealed \in Seq(Bytes) /\ size \in Nat
      /\ size > 0 => Len(file) < size
  BY ConstantTypes DEF TypeInv, TypeOK, Bytes
<1>2. file' \in Seq(Bytes) /\ \E k \in 0 .. Len(bytes) : Wrote(file, sealed, bytes, k, file', sealed')
  BY <1>1, WriteRawDoes
<1>3. PICK k \in 0 .. Len(bytes) : Wrote(file, sealed, bytes, k, file', sealed')
  BY <1>2
<1>4. /\ bytes = <<>> => file' = file /\ sealed' = sealed
      /\ bytes # <<>> => /\ file' = <<>> \/ Last(file') = Last(bytes)
                         /\ AtStart(file', sealed') <=> Last(bytes) = NL
  BY <1>1, <1>2, <1>3, WroteEnds
<1>5. LinesStamped(file, sealed) /\ (bytes = <<>> \/ StampAt(bytes, 0) \/ ~ AtStart(file, sealed))
        => LinesStamped(file', sealed')
  BY <1>1, <1>2, <1>3, WroteStamped
<1> QED BY <1>4, <1>5

\* No stamp is missing at first.
LEMMA InitStamps == Init => StampInv
<1> SUFFICES ASSUME Init PROVE StampInv
  OBVIOUS
<1>1. /\ start = 1 /\ i = 1 /\ file = <<>> /\ sealed = <<>> /\ buf = <<>> /\ atLineStart = TRUE
      /\ unstamped = IF timestamps THEN 0 ELSE 1
  BY DEF Init
<1>2. LineStarts(file) = {}
  BY <1>1, EmptySeq DEF LineStarts
<1>3. unstamped = 0 => timestamps /\ LinesStamped(file, sealed)
  BY <1>1, <1>2 DEF LinesStamped
<1> QED BY <1>1, <1>3 DEF StampInv

\* Every step keeps the stamps where they belong.
LEMMA NextStamps == TypeInv /\ StampInv /\ [Next]_vars => StampInv'
<1> SUFFICES ASSUME TypeInv, StampInv, [Next]_vars PROVE StampInv'
  OBVIOUS
<1>0. /\ Len(buf) \in Nat /\ start \in Nat /\ start >= 1 /\ i \in Nat /\ start <= i
      /\ i <= Len(buf) + 1 /\ DOMAIN buf = 1 .. Len(buf)
      /\ timestamps \in BOOLEAN /\ atLineStart \in BOOLEAN
      /\ unstamped \in Nat
  <2>1. unstamped \in 0 .. MaxRestarts + 1 /\ timestamps \in BOOLEAN /\ atLineStart \in BOOLEAN
    BY DEF TypeInv, TypeOK
  <2> QED BY <2>1, LoopType, ConstantTypes
<1>1. CASE UNCHANGED vars
  BY <1>1 DEF vars, writer, history, StampInv, AtStart, LinesStamped, LineStarts, StampAt
<1>2. ASSUME NEW chunk \in Chunks, Receive(chunk) PROVE StampInv'
  <2>1. buf = <<>> /\ UNCHANGED <<unstamped, timestamps, atLineStart>>
    BY <1>2 DEF Receive
  <2>2. CASE timestamps
    <3>1. buf' = chunk /\ start' = 1 /\ i' = 1 /\ UNCHANGED <<file, sealed>>
      BY <1>2, <2>2 DEF Receive
    <3>2. \A k \in 1 .. 1 - 1 : chunk[k] # NL
      OBVIOUS
    <3> QED BY <2>1, <2>2, <3>1, <3>2 DEF StampInv
  <2>3. CASE ~ timestamps
    <3>1. UNCHANGED <<buf, start, i>> /\ unstamped # 0
      BY <1>2, <2>3 DEF Receive, StampInv
    <3> QED BY <2>1, <2>3, <3>1 DEF StampInv
  <2> QED BY <2>2, <2>3
<1>3. ASSUME Stamp PROVE StampInv'
  <2>1. /\ i \in DOMAIN buf /\ atLineStart /\ WriteRaw(SubSeq(buf, start, i - 1) \o Prefix(now))
        /\ start' = i /\ atLineStart' = FALSE
        /\ UNCHANGED <<unstamped, timestamps, buf, i>>
    BY <1>3 DEF Stamp
  <2>2. now \in 1 .. MaxTime
    BY DEF TypeInv, TypeOK
  <2>3. SubSeq(buf, start, i - 1) = <<>>
    <3>1. start = i /\ start - 1 < start
      BY <1>0, <2>1 DEF StampInv
    <3>2. i - 1 \in Nat /\ i - 1 < start /\ start \in Nat
      BY <1>0, <3>1
    <3> QED BY <3>2, SubSeqEmpty
  <2>4. Prefix(now) \in Seq(Bytes)
    BY <2>2, PrefixIs
  <2>5. WriteRaw(Prefix(now))
    <3>1. <<>> \o Prefix(now) = Prefix(now)
      BY <2>4, ConcatEmptySeq
    <3> QED BY <2>1, <2>3, <3>1
  <2>6. /\ StampAt(Prefix(now), 0) /\ OneLine(Prefix(now)) /\ Prefix(now) # <<>>
        /\ Last(Prefix(now)) # NL
    BY <2>2, PrefixStamps
  <2>7. /\ ~ AtStart(file', sealed')
        /\ LinesStamped(file, sealed) => LinesStamped(file', sealed')
    BY <2>4, <2>5, <2>6, WriteInv
  <2>8. \A k \in i .. i - 1 : buf[k] # NL
    BY <1>0
  <2> QED BY <2>1, <2>7, <2>8 DEF StampInv
<1>4. ASSUME Visit PROVE StampInv'
  <2>1. /\ i \in DOMAIN buf /\ ~ atLineStart /\ i' = i + 1
        /\ UNCHANGED <<unstamped, timestamps, buf>>
    BY <1>4 DEF Visit
  <2>2. CASE buf[i] = NL
    <3>1. WriteRaw(SubSeq(buf, start, i)) /\ start' = i + 1 /\ atLineStart' = TRUE
      BY <1>4, <2>2 DEF Visit
    <3>2. PICK bytes : bytes = SubSeq(buf, start, i)
      OBVIOUS
    <3>3. /\ bytes \in Seq(Bytes) /\ OneLine(bytes) /\ bytes # <<>> /\ Last(bytes) = NL
      <4>1. i \in start - 1 .. Len(buf) /\ i # start - 1
        BY <1>0, <2>1
      <4> QED BY <2>2, <3>2, <4>1, LoopWrites
    <3>4. /\ file' = <<>> \/ Last(file') = NL
          /\ LinesStamped(file, sealed) /\ ~ AtStart(file, sealed) => LinesStamped(file', sealed')
      <4>1. WriteRaw(bytes)
        BY <3>1, <3>2
      <4> QED BY <3>3, <4>1, WriteInv
    <3>5. timestamps => ~ AtStart(file, sealed)
      BY <2>1 DEF StampInv
    <3>6. \A k \in i + 1 .. (i + 1) - 1 : buf[k] # NL
      BY <1>0
    <3> QED BY <2>1, <3>1, <3>4, <3>5, <3>6 DEF StampInv
  <2>3. CASE buf[i] # NL
    <3>1. UNCHANGED <<file, sealed, start, atLineStart>>
      BY <1>4, <2>3 DEF Visit
    <3>2. \A k \in start .. (i + 1) - 1 : buf[k] # NL
      <4> SUFFICES ASSUME NEW k \in start .. (i + 1) - 1 PROVE buf[k] # NL
        OBVIOUS
      <4>1. k \in start .. i - 1 \/ k = i
        BY <1>0
      <4> QED BY <2>3, <4>1 DEF StampInv
    <3> QED BY <2>1, <3>1, <3>2 DEF StampInv
  <2> QED BY <2>2, <2>3
<1>5. ASSUME Flush PROVE StampInv'
  <2>1. /\ buf # <<>> /\ i > Len(buf) /\ WriteRaw(From(buf, start - 1))
        /\ buf' = <<>> /\ start' = 1 /\ i' = 1
        /\ UNCHANGED <<unstamped, timestamps, atLineStart>>
    BY <1>5 DEF Flush
  <2>2. PICK bytes : bytes = SubSeq(buf, start, Len(buf))
    OBVIOUS
  <2>3. From(buf, start - 1) = bytes
    <3>1. (start - 1) + 1 = start
      BY <1>0
    <3> QED BY <2>2, <3>1 DEF From
  <2>4. /\ bytes \in Seq(Bytes) /\ OneLine(bytes)
        /\ bytes = <<>> <=> Len(buf) = start - 1
        /\ bytes # <<>> => Last(bytes) # NL
    <3>1. Len(buf) \in start - 1 .. Len(buf) /\ Len(buf) < i
      BY <1>0, <2>1
    <3>2. /\ bytes \in Seq(Bytes) /\ OneLine(bytes)
          /\ bytes = <<>> <=> Len(buf) = start - 1
          /\ bytes # <<>> => Last(bytes) = buf[Len(buf)]
      BY <2>2, <3>1, LoopWrites
    <3>3. Len(buf) # start - 1 => Len(buf) \in start .. i - 1
      BY <1>0, <2>1
    <3>4. Len(buf) # start - 1 => buf[Len(buf)] # NL
      BY <3>3 DEF StampInv
    <3> QED BY <3>2, <3>4
  <2>5. atLineStart => bytes = <<>>
    <3>1. atLineStart => Len(buf) = start - 1
      BY <1>0, <2>1 DEF StampInv
    <3> QED BY <2>4, <3>1
  <2>6. /\ bytes = <<>> => file' = file /\ sealed' = sealed
        /\ bytes # <<>> => ~ AtStart(file', sealed')
        /\ LinesStamped(file, sealed) /\ (bytes = <<>> \/ ~ AtStart(file, sealed))
             => LinesStamped(file', sealed')
    <3>1. WriteRaw(bytes)
      BY <2>1, <2>3
    <3> QED BY <2>4, <3>1, WriteInv
  <2>7. \A k \in 1 .. 1 - 1 : buf'[k] # NL
    OBVIOUS
  <2>8. timestamps /\ ~ atLineStart => ~ AtStart(file, sealed) /\ ~ AtStart(file', sealed')
    BY <2>6 DEF StampInv
  <2>9. timestamps /\ atLineStart => file' = <<>> \/ Last(file') = NL
    BY <2>5, <2>6 DEF StampInv
  <2>10. unstamped = 0 => timestamps /\ LinesStamped(file', sealed')
    BY <1>0, <2>5, <2>6, <2>8 DEF StampInv
  <2> QED BY <2>1, <2>7, <2>8, <2>9, <2>10 DEF StampInv
<1>6. ASSUME Tick PROVE StampInv'
  BY <1>6 DEF Tick, writer, history, StampInv
<1>7. ASSUME Restart PROVE StampInv'
  <2>1. /\ unstamped' = IF timestamps' THEN unstamped ELSE unstamped + 1
        /\ atLineStart' = (file = <<>> \/ Last(file) = NL)
        /\ buf' = <<>> /\ start' = 1 /\ i' = 1 /\ UNCHANGED <<file, sealed>>
    BY <1>7 DEF Restart
  <2>2. timestamps' \in BOOLEAN
    BY <1>7, ConstantTypes DEF Restart
  <2>3. unstamped' = 0 => timestamps' /\ unstamped = 0
    BY <1>0, <2>1, <2>2
  <2>4. \A k \in 1 .. 1 - 1 : buf'[k] # NL
    OBVIOUS
  <2>5. ~ atLineStart' => ~ AtStart(file', sealed')
    BY <2>1 DEF AtStart
  <2> QED BY <2>1, <2>3, <2>4, <2>5 DEF StampInv
<1> QED BY <1>1, <1>2, <1>3, <1>4, <1>5, <1>6, <1>7 DEF Next

DigitValue(b) == CHOOSE d \in DOMAIN Digits : Digits[d] = b

\* A number of one digit is read: the fold of ParseMsPrefix.
DigitFold(f, g) ==
  g = [s \in SUBSET DOMAIN f |->
         IF s = {} THEN 0
         ELSE 10 * g[s \ {Max(s)}] + DigitValue(f[Max(s)])]

\* Each digit has its own value.
LEMMA DigitIs ==
  ASSUME NEW d \in 1 .. 9
  PROVE  DigitValue(Digits[d]) = d
<1>1. /\ Digits[1] = "1" /\ Digits[2] = "2" /\ Digits[3] = "3" /\ Digits[4] = "4"
      /\ Digits[5] = "5" /\ Digits[6] = "6" /\ Digits[7] = "7" /\ Digits[8] = "8"
      /\ Digits[9] = "9"
  BY DEF Digits
<1>2. ASSUME NEW a \in 1 .. 9, NEW b \in 1 .. 9, Digits[a] = Digits[b] PROVE a = b
  <2>1. a \in {1, 2, 3, 4, 5, 6, 7, 8, 9} /\ b \in {1, 2, 3, 4, 5, 6, 7, 8, 9}
    OBVIOUS
  <2> QED BY <1>1, <1>2, <2>1
<1>3. DOMAIN Digits = 1 .. 9
  BY DigitTypes
<1>4. \E e \in DOMAIN Digits : Digits[e] = Digits[d]
  BY <1>3
<1> HIDE <1>1
<1>5. (CHOOSE e \in DOMAIN Digits : Digits[e] = Digits[d]) \in 1 .. 9
  BY <1>3, <1>4
<1>6. Digits[CHOOSE e \in DOMAIN Digits : Digits[e] = Digits[d]] = Digits[d]
  BY <1>4
<1> QED BY <1>2, <1>5, <1>6 DEF DigitValue

\* The fold over one digit is its value.
LEMMA OneDigit ==
  ASSUME NEW f, DOMAIN f = {1}, NEW d \in 1 .. 9, f[1] = Digits[d]
  PROVE  /\ \E g : DigitFold(f, g)
         /\ \A g : DigitFold(f, g) => g[{1}] = d
<1>1. /\ {1} \in SUBSET DOMAIN f /\ {} \in SUBSET DOMAIN f /\ {1} # {} /\ {1} \ {1} = {}
      /\ \A s \in SUBSET DOMAIN f : s = {} \/ s = {1}
  OBVIOUS
<1>2. Max({1}) = 1
  <2>1. {1} \in SUBSET Nat /\ \A y \in {1} : y <= 1
    OBVIOUS
  <2> QED BY <2>1, MaxIs
<1>3. DigitValue(f[1]) = d
  BY DigitIs
<1>4. ASSUME NEW g, g[{}] = 0
      PROVE  10 * g[{1} \ {Max({1})}] + DigitValue(f[Max({1})]) = d
  <2>1. 10 * 0 + d = d
    OBVIOUS
  <2> QED BY <1>1, <1>2, <1>3, <1>4, <2>1
<1>5. ASSUME NEW g, DigitFold(f, g) PROVE g[{1}] = d
  <2>1. g[{}] = 0
    BY <1>1, <1>5 DEF DigitFold
  <2>2. g[{1}] = 10 * g[{1} \ {Max({1})}] + DigitValue(f[Max({1})])
    <3>1. \A s \in SUBSET DOMAIN f :
            g[s] = IF s = {} THEN 0 ELSE 10 * g[s \ {Max(s)}] + DigitValue(f[Max(s)])
      BY <1>5, Zenon DEF DigitFold
    <3> QED BY <1>1, <3>1, Zenon
  <2>3. 10 * g[{1} \ {Max({1})}] + DigitValue(f[Max({1})]) = d
    BY <1>4, <2>1, Zenon
  <2> QED BY <2>2, <2>3, Zenon
<1> DEFINE h == [s \in SUBSET DOMAIN f |-> IF s = {} THEN 0 ELSE d]
<1>6. DigitFold(f, h)
  <2>1. h[{}] = 0
    BY <1>1
  <2>2. ASSUME NEW s \in SUBSET DOMAIN f, s # {}
        PROVE  10 * h[s \ {Max(s)}] + DigitValue(f[Max(s)]) = d
    <3>1. s = {1}
      BY <1>1, <2>2
    <3> HIDE DEF h
    <3> QED BY <1>4, <2>1, <3>1
  <2>3. h = [s \in SUBSET DOMAIN f |->
               IF s = {} THEN 0
               ELSE 10 * h[s \ {Max(s)}] + DigitValue(f[Max(s)])]
    <3>1. \A s \in SUBSET DOMAIN f :
            (IF s = {} THEN 0 ELSE d) =
              IF s = {} THEN 0
              ELSE 10 * h[s \ {Max(s)}] + DigitValue(f[Max(s)])
      <4> HIDE DEF h
      <4> QED BY <2>2
    <3> QED BY <3>1, Zenon
  <2> HIDE DEF h
  <2> QED BY <2>3 DEF DigitFold
<1> QED BY <1>5, <1>6

\* A line with a stamp of the daemon is read as one with that time.
LEMMA StampParses ==
  ASSUME NEW A, NEW l \in Seq(A), 3 <= Len(l), l[1] = "[", NEW d \in 1 .. 9, l[2] = Digits[d],
         l[3] = "]"
  PROVE  ParseMsPrefix(l) = [ts |-> d, body |-> BodyStart(l, 3)]
<1> DEFINE closes == {k \in DOMAIN l : l[k] = "]"}
           inner == SubSeq(l, 2, Min(closes) - 1)
<1>1. /\ Len(l) \in Nat /\ DOMAIN l = 1 .. Len(l) /\ 1 \in 1 .. Len(l) /\ 2 \in 1 .. Len(l)
      /\ 3 \in 1 .. Len(l)
  BY LenProperties
<1>2. closes # {} /\ Min(closes) = 3
  <2>1. Digits[d] # "]"
    BY DigitTypes
  <2>2. 3 \in closes /\ closes \in SUBSET Nat
    BY <1>1
  <2>3. ASSUME NEW y \in closes PROVE 3 <= y
    <3>1. y \in Nat /\ y >= 1 /\ y # 1 /\ y # 2
      BY <1>1, <2>1
    <3> QED BY <3>1
  <2> HIDE DEF closes
  <2> QED BY <2>2, <2>3, MinIs
<1>3. inner \in Seq(A) /\ Len(inner) = 1 /\ DOMAIN inner = {1} /\ inner[1] = Digits[d]
  <2>1. 1 \in Nat /\ 1 + 1 <= Len(l) /\ 1 + 1 = 2 /\ 3 - 1 = 2 /\ 1 \in 1 .. 1 /\ 1 .. 1 = {1}
    BY <1>1
  <2>2. /\ SubSeq(l, 2, 2) \in Seq(A) /\ Len(SubSeq(l, 2, 2)) = 1
        /\ \A x \in 1 .. 1 : SubSeq(l, 2, 2)[x] = l[1 + x]
    BY <2>1, Part
  <2>3. inner = SubSeq(l, 2, 2)
    <3> HIDE DEF closes
    <3> QED BY <1>2, <2>1
  <2>4. DOMAIN SubSeq(l, 2, 2) = {1}
    BY <2>1, <2>2, LenProperties
  <2> HIDE DEF inner
  <2> QED BY <2>1, <2>2, <2>3, <2>4
<1>4. inner # <<>> /\ Range(inner) \subseteq Range(Digits)
  <2> HIDE DEF inner
  <2>1. inner # <<>>
    BY <1>3, EmptySeq
  <2>2. Range(inner) = {Digits[d]}
    BY <1>3 DEF Range
  <2> QED BY <2>1, <2>2, DigitTypes
<1> DEFINE g == CHOOSE q : DigitFold(inner, q)
<1>5. g[{1}] = d
  <2> HIDE DEF inner
  <2> QED BY <1>3, OneDigit
<1>6. ParseMsPrefix(l) = [ts |-> g[DOMAIN inner], body |-> BodyStart(l, Min(closes))]
  <2>1. l # <<>>
    BY <1>1, EmptySeq
  <2> QED BY <1>2, <1>4, <2>1 DEF ParseMsPrefix, FoldLeft, MapThenFoldSet, DigitFold, DigitValue
<1> HIDE DEF g, inner, closes
<1> QED BY <1>2, <1>3, <1>5, <1>6

\* A stamp that begins a line of a file is the stamp of that line.
LEMMA LineStamped ==
  ASSUME NEW f \in Seq(Bytes), NEW k \in 1 .. Cardinality(Ends(f)), StampAt(f, Cut(f)[k - 1])
  PROVE  \E d \in 1 .. 9 :
           LET l == SplitLines(f)[k]
           IN  /\ f[Cut(f)[k - 1] + 2] = Digits[d]
               /\ ParseMsPrefix(l) = [ts |-> d, body |-> BodyStart(l, 3)]
               /\ l \in Seq(Bytes) /\ 3 <= Len(l)
<1> DEFINE c == Cardinality(Ends(f))
           l == SplitLines(f)[k]
<1>1. /\ c \in Nat /\ Len(f) \in Nat /\ DOMAIN f = 1 .. Len(f)
      /\ Ends(f) = Newlines(f) \cup (DOMAIN f \cap {Len(f)})
  BY EndsFinite, NewlinesFinite DEF Ends
<1>2. PICK p \in 0 .. Len(f), e \in 0 .. Len(f) : p = Cut(f)[k - 1] /\ e = Cut(f)[k] /\ p < e
  <2>1. k - 1 \in 0 .. c /\ k \in 0 .. c
    BY <1>1
  <2>2. Cut(f)[k - 1] \in 0 .. Len(f) /\ Cut(f)[k] \in 0 .. Len(f) /\ Cut(f)[k - 1] < Cut(f)[k]
    BY <2>1, CutsInOrder
  <2> QED BY <2>2
<1>3. p + 3 <= Len(f) /\ f[p + 1] = "[" /\ f[p + 2] \in Range(Digits) /\ f[p + 3] = "]"
  BY <1>2 DEF StampAt
<1>4. PICK d \in 1 .. 9 : f[p + 2] = Digits[d]
  BY <1>3, DigitTypes DEF Range
<1>5. f[p + 1] # NL /\ f[p + 2] # NL /\ f[p + 3] # NL
  BY <1>3, <1>4, DigitTypes DEF NL
<1>6. p + 3 <= e
  <2>1. e \in Ends(f)
    BY <1>2, CutsByRank
  <2>2. e = Len(f) \/ f[e] = NL
    BY <1>1, <2>1 DEF Newlines
  <2>3. (e # p + 1 /\ e # p + 2) \/ e = Len(f)
    BY <1>5, <2>2
  <2>4. p \in Nat /\ e \in Nat /\ p < e /\ p + 3 <= Len(f)
    BY <1>1, <1>2, <1>3
  <2> QED BY <2>3, <2>4
<1>7. PICK m \in Nat : e = p + m /\ 3 <= m
  <2>2. p \in Nat /\ e \in Nat
    BY <1>1, <1>2
  <2>1. e - p \in Nat /\ e = p + (e - p) /\ 3 <= e - p
    BY <1>6, <2>2
  <2> QED BY <2>1
<1>8. l = SubSeq(f, p + 1, p + m)
  BY <1>2, <1>7, LinesAre
<1>9. l \in Seq(Bytes) /\ Len(l) = m /\ \A x \in 1 .. m : l[x] = f[p + x]
  <2>1. p \in Nat /\ p + m <= Len(f)
    BY <1>1, <1>2, <1>7
  <2> QED BY <1>8, <2>1, Part
<1>10. l[1] = "[" /\ l[2] = Digits[d] /\ l[3] = "]" /\ 3 <= Len(l)
  <2>1. 1 \in 1 .. m /\ 2 \in 1 .. m /\ 3 \in 1 .. m
    BY <1>7
  <2> QED BY <1>3, <1>4, <1>7, <1>9, <2>1
<1>11. ParseMsPrefix(l) = [ts |-> d, body |-> BodyStart(l, 3)]
  <2> HIDE DEF l
  <2> QED BY <1>9, <1>10, StampParses
<1> QED BY <1>2, <1>4, <1>9, <1>10, <1>11

\* A line that was read as one with a time is stamped.
LEMMA ParsedIsStamped ==
  ASSUME NEW l, NEW d \in Nat, ParseMsPrefix(l) = [ts |-> d, body |-> BodyStart(l, 3)]
  PROVE  Stamped(l)
<1>1. BodyStart(l, 3) \in Nat
  <2>1. BodyStart(l, 3) = 3 + 1 \/ BodyStart(l, 3) = 3
    BY Zenon DEF BodyStart
  <2> QED BY <2>1
<1>2. [ts |-> d, body |-> BodyStart(l, 3)] \in [ts : Nat, body : Nat]
  BY <1>1
<1> QED BY <1>2, NoneAssumption DEF Stamped

\* Of a log of daemons that all stamp, a line without a stamp is the first of its
\* file, and rotation cut it off its beginning.
LEMMA BareIsFirst == TypeInv /\ StampInv => OnlyFirstLineBare
<1> SUFFICES ASSUME TypeInv, StampInv, unstamped = 0, NEW k \in DOMAIN SplitLines(file),
                    ~ Stamped(SplitLines(file)[k])
             PROVE  k = 1 /\ sealed # <<>> /\ Last(sealed) # NL
  BY DEF OnlyFirstLineBare
<1> DEFINE c == Cardinality(Ends(file))
<1>1. file \in Seq(Bytes) /\ LinesStamped(file, sealed)
  BY DEF TypeInv, TypeOK, StampInv, Bytes
<1>2. k \in 1 .. c /\ c \in Nat
  BY <1>1, LinesAre, EndsFinite, LenProperties
<1>3. PICK p \in 0 .. Len(file) : p = Cut(file)[k - 1] /\ p < Len(file)
  <2>1. k - 1 \in 0 .. c /\ k \in 0 .. c
    BY <1>2
  <2>2. Len(file) \in Nat
    BY <1>1, LenProperties
  <2>3. Cut(file)[k - 1] \in 0 .. Len(file) /\ Cut(file)[k] \in 0 .. Len(file) /\ Cut(file)[k - 1] < Cut(file)[k]
    BY <1>1, <1>2, <2>1, CutsInOrder
  <2> QED BY <2>2, <2>3
<1>4. ~ StampAt(file, p)
  <2> SUFFICES ASSUME StampAt(file, p) PROVE FALSE
    OBVIOUS
  <2>1. PICK d \in 1 .. 9 :
          ParseMsPrefix(SplitLines(file)[k]) = [ts |-> d, body |-> BodyStart(SplitLines(file)[k], 3)]
    BY <1>1, <1>2, <1>3, LineStamped
  <2>2. d \in Nat
    OBVIOUS
  <2> QED BY <2>1, <2>2, ParsedIsStamped
<1>5. k > 1 => p # 0 /\ file[p] = NL
  <2> SUFFICES ASSUME k > 1 PROVE p # 0 /\ file[p] = NL
    OBVIOUS
  <2>1. k - 1 \in 1 .. c
    BY <1>2
  <2>2. p \in Ends(file) /\ Ends(file) \in SUBSET (1 .. Len(file))
    BY <1>1, <1>3, <2>1, CutsByRank, EndsFinite
  <2>3. p # Len(file)
    BY <1>1, <1>3, LenProperties
  <2>4. p \in Newlines(file)
    BY <2>2, <2>3 DEF Ends
  <2> QED BY <2>2, <2>4 DEF Newlines
<1>6. k = 1 => p = 0
  <2> SUFFICES ASSUME k = 1 PROVE p = 0
    OBVIOUS
  <2>1. k - 1 = 0
    OBVIOUS
  <2> QED BY <1>1, <1>3, <2>1, CutsInOrder
<1>7. p \in LineStarts(file)
  <2>1. Len(file) \in Nat /\ p \in 0 .. Len(file) - 1
    BY <1>1, <1>3, LenProperties
  <2>2. p = 0 \/ file[p] = NL
    BY <1>2, <1>5, <1>6
  <2> QED BY <2>1, <2>2 DEF LineStarts
<1>8. p = 0 /\ sealed # <<>> /\ Last(sealed) # NL
  BY <1>1, <1>4, <1>7 DEF LinesStamped
<1> QED BY <1>2, <1>5, <1>8

\* When every daemon stamps, rotation takes at most the stamp of the first line of
\* a file: time filters lose no other (pty.rs:232-293, tail.rs:620-652).
THEOREM FirstLineInvariance == Spec => []OnlyFirstLineBare
<1>1. Init => TypeInv /\ StampInv
  BY InitType, InitStamps
<1>2. TypeInv /\ StampInv /\ [Next]_vars => TypeInv' /\ StampInv'
  BY NextType, NextStamps
<1>3. TypeInv /\ StampInv => OnlyFirstLineBare
  BY BareIsFirst
<1> QED BY <1>1, <1>2, <1>3, PTL DEF Spec

------------------------------------------------------------------------------
(* Caps on a time window. *)

\* A cap in bytes: the longest tail of lines that has no more bytes.
LEMMA CapKeeps ==
  ASSUME NEW A, NEW w \in Seq(Seq(A)), NEW n \in Nat
  PROVE  LET kept == PostFilterCap(w, Cap(n, FALSE))
             before == Len(w) - Len(kept)
             held == Len(FlattenSeq(kept))
         IN  /\ kept = SubSeq(w, before + 1, Len(w))
             /\ held <= n
             /\ before > 0 => Len(w[before]) + held > n
             /\ PostFilterCap(w, Cap(n, TRUE)) = Reverse(kept)
<1> DEFINE len == Len(w)
           Size(k) == Len(FlattenSeq(SubSeq(w, k, len)))
           fits == {len + 1} \cup {k \in DOMAIN w : Size(k) <= n}
           K == KeepFrom(w, n)
<1>0. len \in Nat /\ DOMAIN w = 1 .. len
  BY LenProperties
<1>1. K \in fits /\ \A k \in fits : K <= k
  <2>1. fits \in SUBSET Nat /\ fits # {}
    BY <1>0
  <2>2. K = Min(fits)
    BY DEF KeepFrom
  <2> HIDE DEF fits, K
  <2> QED BY <2>1, <2>2, LeastOf
<1>2. K \in 1 .. len + 1
  BY <1>0, <1>1
<1> DEFINE kept == SubSeq(w, K, len)
<1>3. n # None
  BY NoneAssumption
<1>4. PostFilterCap(w, Cap(n, FALSE)) = kept /\ PostFilterCap(w, Cap(n, TRUE)) = Reverse(kept)
  BY <1>3 DEF PostFilterCap, Cap
<1> HIDE DEF K
<1>5. Len(kept) = (len + 1) - K
  BY <1>2, Rest, Zenon
<1>6. len - Len(kept) = K - 1
  BY <1>0, <1>2, <1>5
<1>7. Size(len + 1) = 0
  <2>1. SubSeq(w, len + 1, len) = <<>>
    BY <1>0, SubSeqEmpty
  <2>2. FlattenSeq(<<>>) = <<>>
    BY DEF FlattenSeq
  <2>3. Len(<<>>) = 0
    OBVIOUS
  <2> QED BY <2>1, <2>2, <2>3, Zenon
<1>8. Size(K) <= n
  <2>1. CASE K = len + 1
    BY <1>7, <2>1
  <2>2. CASE K # len + 1
    BY <1>1, <2>2
  <2> QED BY <2>1, <2>2
<1>9. ASSUME K > 1 PROVE Len(w[K - 1]) + Size(K) > n
  <2> DEFINE k == K - 1
  <2>1. k \in 1 .. len /\ ~ (K <= k) /\ k + 1 = K
    BY <1>0, <1>2, <1>9
  <2>2. ~ (Size(k) <= n)
    BY <1>0, <1>1, <2>1
  <2> HIDE DEF k
  <2>3. /\ Len(FlattenSeq(SubSeq(w, k + 1, Len(w)))) \in Nat /\ Len(w[k]) \in Nat
        /\ Len(FlattenSeq(SubSeq(w, k, Len(w)))) =
             Len(w[k]) + Len(FlattenSeq(SubSeq(w, k + 1, Len(w))))
    BY <2>1, TrailingBytes
  <2>4. Size(k) = Len(w[k]) + Size(K) /\ Size(K) \in Nat /\ Len(w[k]) \in Nat
    BY <2>1, <2>3
  <2> DEFINE a == Size(k)
             b == Len(w[k])
             c == Size(K)
  <2>5. a = b + c /\ b \in Nat /\ c \in Nat /\ ~ (a <= n)
    BY <2>2, <2>4
  <2> HIDE DEF a, b, c
  <2>6. b + c > n
    BY <2>5
  <2> QED BY <2>6 DEF b, c, k
<1>10. K = (K - 1) + 1 /\ (K - 1 > 0 => K > 1)
  BY <1>0, <1>2
<1> HIDE DEF kept, Size, fits
<1> QED
  <2> DEFINE bf == len - Len(kept)
  <2>1. bf = K - 1
    BY <1>6
  <2>2. kept = SubSeq(w, bf + 1, len)
    BY <1>10, <2>1 DEF kept
  <2>3. Len(FlattenSeq(kept)) = Size(K)
    BY DEF kept, Size
  <2>4. bf > 0 => Len(w[bf]) + Size(K) > n
    BY <1>9, <1>10, <2>1
  <2> HIDE DEF bf
  <2> QED BY <1>4, <1>8, <2>2, <2>3, <2>4 DEF bf

\* What passes a time window are sequences of bytes.
LEMMA WindowType ==
  ASSUME NEW A, NEW f \in Seq(A), NEW since, NEW until
  PROVE  FilterTimeWindow(f, since, until, TRUE) \in Seq(Seq(A))
<1> DEFINE lines == SplitLines(f)
           S == {k \in StampedLines(f) \cap UpToLate(lines, since, until) :
                   ~ Early(ParseMsPrefix(lines[k]).ts, since)}
<1>1. lines \in Seq(Seq(A)) /\ DOMAIN lines = 1 .. Len(lines)
  BY LinesAre, LenProperties
<1>2. S \in SUBSET (1 .. Len(lines))
  BY <1>1 DEF StampedLines
<1>3. FilterTimeWindow(f, since, until, TRUE) =
        [k \in DOMAIN Picked(lines, S) |-> Picked(lines, S)[k]]
  BY DEF FilterTimeWindow
<1> HIDE DEF lines, S
<1>4. Picked(lines, S) \in Seq(Seq(A))
  BY <1>1, <1>2, PickedType
<1>5. FilterTimeWindow(f, since, until, TRUE) = Picked(lines, S)
  <2> DEFINE p == Picked(lines, S)
             B == Seq(A)
  <2>1. p \in Seq(B)
    BY <1>4
  <2> HIDE DEF p, B
  <2>2. p \in [1 .. Len(p) -> B]
    BY <2>1, LenProperties
  <2>3. p = [k \in DOMAIN p |-> p[k]]
    BY <2>2
  <2> QED BY <1>3, <2>3 DEF p
<1> QED BY <1>4, <1>5

\* The caps of `tail --bytes` on a time window keep the most trailing lines that
\* fit, whatever is in the log (tail.rs:682-692).
LEMMA BytesKept == TypeInv => BytesKeepTrailingLines
<1> SUFFICES ASSUME TypeInv, NEW since \in Times, NEW n \in 0 .. MaxBytes + 4
             PROVE  LET window == FilterTimeWindow(file, since, None, TRUE)
                        kept == PostFilterCap(window, Cap(n, FALSE))
                        before == Len(window) - Len(kept)
                        held == Len(FlattenSeq(kept))
                    IN  /\ kept = SubSeq(window, before + 1, Len(window))
                        /\ held <= n
                        /\ before > 0 => Len(window[before]) + held > n
                        /\ PostFilterCap(window, Cap(n, TRUE)) = Reverse(kept)
  BY Zenon DEF BytesKeepTrailingLines
<1>1. n \in Nat
  BY ConstantTypes
<1>2. file \in Seq(Bytes)
  BY DEF TypeInv, TypeOK, Bytes
<1>3. FilterTimeWindow(file, since, None, TRUE) \in Seq(Seq(Bytes))
  BY <1>2, WindowType
<1> QED BY <1>1, <1>3, CapKeeps, Zenon

THEOREM BytesInvariance == Spec => []BytesKeepTrailingLines
<1>1. Init => TypeInv
  BY InitType
<1>2. TypeInv /\ [Next]_vars => TypeInv'
  BY NextType
<1>3. TypeInv => BytesKeepTrailingLines
  BY BytesKept
<1> QED BY <1>1, <1>2, <1>3, PTL DEF Spec

-----------------------------------------------------------------------------
(* What the file tells of the lines that were said. *)

\* the lines that begin as a stamp does
Begins(f) == {p \in LineStarts(f) : f[p + 1] = "["}

\* the line that begins at p ends at e
EndsLine(f, p, e) ==
  /\ e \in p + 1 .. Len(f) /\ (e = Len(f) \/ f[e] = NL)
  /\ \A q \in p + 1 .. e - 1 : f[q] # NL

\* it is what was said in s
Holds(f, p, e, s) ==
  /\ EndsLine(f, p, e) /\ p + 4 <= e
  /\ f[p + 1] = "[" /\ f[p + 2] = Digits[s.at] /\ f[p + 3] = "]" /\ f[p + 4] = " "
  /\ Len(s.text) = e - (p + 4)
  /\ \A j \in 1 .. e - (p + 4) : s.text[j] = f[(p + 4) + j]

\* the lines of f that begin as a stamp does are at d, and hold what h says
Tells(f, h, d) ==
  /\ ListedBy(Begins(f), Len(h), d)
  /\ \A r \in 1 .. Len(h) : \E e \in 0 .. Len(f) : Holds(f, d[r], e, h[r])

Told(f, h) == \E d : Tells(f, h, d)

\* Bytes put behind a file leave it as it is.
LEMMA BothParts ==
  ASSUME NEW A, NEW f \in Seq(A), NEW b \in Seq(A), NEW g, Behind(g, f, b)
  PROVE  /\ g \in Seq(A) /\ Len(f) \in Nat /\ Len(b) \in Nat /\ Len(g) = Len(f) + Len(b)
         /\ \A k \in 1 .. Len(f) : g[k] = f[k]
         /\ \A k \in 1 .. Len(b) : g[Len(f) + k] = b[k]
<1>1. g = f \o b
  BY DEF Behind
<1>2. /\ g \in Seq(A) /\ Len(g) = Len(f) + Len(b)
      /\ \A k \in 1 .. Len(f) + Len(b) :
           g[k] = IF k <= Len(f) THEN f[k] ELSE b[k - Len(f)]
  BY <1>1, ConcatProperties
<1>3. Len(f) \in Nat /\ Len(b) \in Nat
  BY LenProperties
<1>4. \A k \in 1 .. Len(f) : g[k] = f[k]
  BY <1>2, <1>3
<1>5. ASSUME NEW k \in 1 .. Len(b) PROVE g[Len(f) + k] = b[k]
  <2>1. Len(f) + k \in 1 .. Len(f) + Len(b) /\ ~ (Len(f) + k <= Len(f)) /\ (Len(f) + k) - Len(f) = k
    BY <1>3
  <2> QED BY <1>2, <2>1
<1> QED BY <1>2, <1>3, <1>4, <1>5

\* A line that was complete, or ends where more begins, still ends there.
LEMMA StillHolds ==
  ASSUME NEW A, NEW f \in Seq(A), NEW b \in Seq(A), NEW g, Behind(g, f, b),
         NEW p \in Nat, NEW e \in 0 .. Len(f), NEW s, Holds(f, p, e, s), f[e] = NL
  PROVE  e \in 0 .. Len(g) /\ Holds(g, p, e, s)
<1>1. /\ Len(f) \in Nat /\ Len(b) \in Nat /\ Len(g) = Len(f) + Len(b)
      /\ \A k \in 1 .. Len(f) : g[k] = f[k]
  BY BothParts
<1>2. e \in p + 1 .. Len(f) /\ (\A q \in p + 1 .. e - 1 : f[q] # NL) /\ p + 4 <= e
  BY DEF Holds, EndsLine
<1>3. e \in p + 1 .. Len(g) /\ e \in 1 .. Len(f) /\ e \in 0 .. Len(g)
  BY <1>1, <1>2
<1>4. \A q \in p + 1 .. e - 1 : g[q] # NL
  <2>1. \A q \in p + 1 .. e - 1 : q \in 1 .. Len(f)
    BY <1>1, <1>2
  <2> QED BY <1>1, <1>2, <2>1
<1>5. EndsLine(g, p, e)
  BY <1>1, <1>3, <1>4 DEF EndsLine
<1>6. p + 1 \in 1 .. Len(f) /\ p + 2 \in 1 .. Len(f) /\ p + 3 \in 1 .. Len(f) /\ p + 4 \in 1 .. Len(f)
  BY <1>1, <1>2
<1>7. \A j \in 1 .. e - (p + 4) : s.text[j] = g[(p + 4) + j]
  <2>1. \A j \in 1 .. e - (p + 4) : (p + 4) + j \in 1 .. Len(f)
    BY <1>1, <1>2
  <2>2. \A j \in 1 .. e - (p + 4) : s.text[j] = f[(p + 4) + j]
    BY DEF Holds
  <2> QED BY <1>1, <2>1, <2>2
<1>8. /\ p + 4 <= e /\ f[p + 1] = "[" /\ f[p + 2] = Digits[s.at] /\ f[p + 3] = "]" /\ f[p + 4] = " "
      /\ Len(s.text) = e - (p + 4)
  BY DEF Holds
<1>9. g[p + 1] = f[p + 1] /\ g[p + 2] = f[p + 2] /\ g[p + 3] = f[p + 3] /\ g[p + 4] = f[p + 4]
  BY <1>1, <1>6
<1> QED BY <1>3, <1>5, <1>7, <1>8, <1>9 DEF Holds

\* Where lines begin in a file that got longer.
LEMMA BeginsBefore ==
  ASSUME NEW A, NEW f \in Seq(A), NEW b \in Seq(A), NEW g, Behind(g, f, b),
         NEW p \in 0 .. Len(f) - 1
  PROVE  p \in Begins(g) <=> p \in Begins(f)
<1>1. /\ Len(f) \in Nat /\ Len(b) \in Nat /\ Len(g) = Len(f) + Len(b)
      /\ \A k \in 1 .. Len(f) : g[k] = f[k]
  BY BothParts
<1>2. p \in 0 .. Len(g) - 1 /\ p + 1 \in 1 .. Len(f) /\ (p # 0 => p \in 1 .. Len(f))
  BY <1>1
<1>3. g[p + 1] = f[p + 1] /\ (p # 0 => g[p] = f[p])
  BY <1>1, <1>2
<1> QED BY <1>2, <1>3 DEF Begins, LineStarts

\* A stamp begins a line of its own.
LEMMA StampTold ==
  ASSUME NEW f \in Seq(Bytes), NEW h \in Seq(Line), Told(f, h), f = <<>> \/ Last(f) = NL,
         NEW t \in 1 .. MaxTime, NEW g, Behind(g, f, Prefix(t)),
         NEW x, x = Append(h, [at |-> t, text |-> <<>>])
  PROVE  Told(g, x)
<1> DEFINE n == Len(f)
           m == Len(h)
<1>1. /\ Prefix(t) \in Seq(Bytes) /\ Len(Prefix(t)) = 4
      /\ Prefix(t)[1] = "[" /\ Prefix(t)[2] = Digits[t] /\ t \in 1 .. 9
      /\ Prefix(t)[3] = "]" /\ Prefix(t)[4] = " "
      /\ \A k \in 1 .. 4 : Prefix(t)[k] # NL
  BY PrefixIs
<1>2. /\ g \in Seq(Bytes) /\ n \in Nat /\ Len(g) = n + 4
      /\ \A k \in 1 .. n : g[k] = f[k]
      /\ g[n + 1] = "[" /\ g[n + 2] = Digits[t] /\ g[n + 3] = "]" /\ g[n + 4] = " "
      /\ \A k \in 1 .. 4 : g[n + k] # NL
  <2> DEFINE b == Prefix(t)
  <2>a. b \in Seq(Bytes) /\ Behind(g, f, b)
    BY <1>1
  <2> HIDE DEF b
  <2>b. /\ g \in Seq(Bytes) /\ Len(f) \in Nat /\ Len(g) = Len(f) + Len(b)
        /\ \A k \in 1 .. Len(f) : g[k] = f[k]
        /\ \A k \in 1 .. Len(b) : g[Len(f) + k] = b[k]
    BY <2>a, BothParts
  <2>1. /\ g \in Seq(Bytes) /\ n \in Nat /\ Len(g) = n + Len(Prefix(t))
        /\ \A k \in 1 .. n : g[k] = f[k]
        /\ \A k \in 1 .. Len(Prefix(t)) : g[n + k] = Prefix(t)[k]
    BY <2>b DEF b
  <2>2. 1 \in 1 .. 4 /\ 2 \in 1 .. 4 /\ 3 \in 1 .. 4 /\ 4 \in 1 .. 4
    OBVIOUS
  <2>3. \A k \in 1 .. 4 : g[n + k] = Prefix(t)[k]
    BY <1>1, <2>1
  <2> QED BY <1>1, <2>1, <2>2, <2>3
<1>3. n # 0 => f[n] = NL
  BY EmptySeq DEF Last
<1>a. n \in Nat /\ Len(g) = n + 4
  BY <1>2
<1> HIDE DEF n, m
<1>4. n \in Begins(g)
  <2>1. n \in 0 .. Len(g) - 1
    BY <1>a
  <2>2. n # 0 => g[n] = NL
    <3>1. n # 0 => n \in 1 .. n
      BY <1>a
    <3> QED BY <1>2, <1>3, <3>1
  <2> QED BY <1>2, <2>1, <2>2 DEF Begins, LineStarts
<1>5. ASSUME NEW p \in Begins(g), p > n PROVE FALSE
  <2>1. p \in 0 .. Len(g) - 1 /\ (p = 0 \/ g[p] = NL)
    BY DEF Begins, LineStarts
  <2>2. p - n \in 1 .. 4 /\ n + (p - n) = p /\ p # 0
    BY <1>5, <1>a, <2>1
  <2> QED BY <1>2, <2>1, <2>2
<1>6. PICK d : Tells(f, h, d)
  BY DEF Told
<1>7. /\ ListedBy(Begins(f), m, d)
      /\ \A r \in 1 .. m : \E e \in 0 .. n : Holds(f, d[r], e, h[r])
  BY <1>6 DEF Tells, m, n
<1>8. /\ m \in Nat /\ d \in [1 .. m -> Nat]
      /\ \A j, k \in 1 .. m : j < k => d[j] < d[k]
      /\ \A j \in 1 .. m : d[j] \in Begins(f)
      /\ \A p \in Begins(f) : \E j \in 1 .. m : p = d[j]
  BY <1>7 DEF ListedBy
<1>9. \A p \in Begins(f) : p \in 0 .. n - 1
  BY DEF Begins, LineStarts, n
<1> DEFINE c == [j \in 1 .. m + 1 |-> IF j = m + 1 THEN n ELSE d[j]]
<1>10. \A j \in 1 .. m + 1 : j = m + 1 \/ j \in 1 .. m
  BY <1>8
<1>11. \A j \in 1 .. m : j \in 1 .. m + 1 /\ j # m + 1 /\ c[j] = d[j]
  BY <1>8
<1>12. m + 1 \in 1 .. m + 1 /\ c[m + 1] = n
  BY <1>8
<1>13. c \in [1 .. m + 1 -> Nat]
  BY <1>2, <1>8, <1>10
<1> HIDE DEF c
<1>14. ListedBy(Begins(g), m + 1, c)
  <2>1. ASSUME NEW j \in 1 .. m + 1, NEW k \in 1 .. m + 1, j < k PROVE c[j] < c[k]
    <3>1. j \in 1 .. m
      BY <1>8, <2>1
    <3>2. d[j] \in 0 .. n - 1
      BY <1>8, <1>9, <3>1
    <3>3. CASE k = m + 1
      <4>1. c[j] = d[j] /\ c[k] = n
        BY <1>11, <1>12, <3>1, <3>3
      <4> QED BY <1>a, <3>2, <4>1
    <3>4. CASE k \in 1 .. m
      BY <1>8, <1>11, <2>1, <3>1, <3>4
    <3> QED BY <1>10, <3>3, <3>4
  <2>2. ASSUME NEW j \in 1 .. m + 1 PROVE c[j] \in Begins(g)
    <3>1. CASE j = m + 1
      BY <1>4, <1>12, <3>1
    <3>2. CASE j \in 1 .. m
      <4>1. d[j] \in Begins(f) /\ d[j] \in 0 .. n - 1
        BY <1>8, <1>9, <3>2
      <4>2. d[j] \in Begins(g)
        BY <1>1, <4>1, BeginsBefore DEF n
      <4> QED BY <1>11, <3>2, <4>2
    <3> QED BY <1>10, <3>1, <3>2
  <2>3. ASSUME NEW p \in Begins(g) PROVE \E j \in 1 .. m + 1 : p = c[j]
    <3>1. p \in Nat
      BY <1>a DEF Begins, LineStarts
    <3>2. CASE p = n
      BY <1>12, <3>2
    <3>3. CASE p < n
      <4>1. p \in 0 .. n - 1
        BY <1>a, <3>1, <3>3
      <4>2. p \in Begins(f)
        BY <1>1, <4>1, BeginsBefore DEF n
      <4> QED BY <1>8, <1>11, <4>2
    <3> QED BY <1>5, <1>a, <3>1, <3>2, <3>3
  <2>4. m + 1 \in Nat
    BY <1>8
  <2> QED BY <1>13, <2>1, <2>2, <2>3, <2>4 DEF ListedBy
<1>15. /\ Len(x) = m + 1 /\ x[m + 1] = [at |-> t, text |-> <<>>]
       /\ \A r \in 1 .. m : x[r] = h[r]
  <2>1. [at |-> t, text |-> <<>>] \in Line
    BY EmptySeq DEF Line
  <2>2. PICK l \in Line : l = [at |-> t, text |-> <<>>]
    BY <2>1
  <2> QED BY <2>2, AppendProperties DEF m
<1>16. ASSUME NEW r \in 1 .. m + 1 PROVE \E e \in 0 .. Len(g) : Holds(g, c[r], e, x[r])
  <2>1. CASE r = m + 1
    <3> DEFINE e == n + 4
               s == [at |-> t, text |-> <<>>]
    <3>1. EndsLine(g, n, e)
      <4>1. e \in n + 1 .. Len(g) /\ e = Len(g)
        BY <1>a
      <4>2. ASSUME NEW q \in n + 1 .. e - 1 PROVE g[q] # NL
        <5>1. q - n \in 1 .. 4 /\ n + (q - n) = q
          BY <1>a
        <5> QED BY <1>2, <5>1
      <4> QED BY <4>1, <4>2 DEF EndsLine
    <3>2. Len(s.text) = e - (n + 4) /\ 1 .. e - (n + 4) = {} /\ n + 4 <= e /\ s.at = t
      BY <1>a
    <3>3. Holds(g, n, e, s)
      BY <1>2, <3>1, <3>2 DEF Holds
    <3>4. e \in 0 .. Len(g)
      BY <1>a
    <3> HIDE DEF e, s
    <3> QED BY <1>12, <1>15, <2>1, <3>3, <3>4 DEF s
  <2>2. CASE r \in 1 .. m
    <3>1. PICK e \in 0 .. n : Holds(f, d[r], e, h[r])
      BY <1>7, <2>2
    <3>2. d[r] \in Nat /\ f[e] = NL
      <4>1. e \in d[r] + 1 .. n /\ (e = n \/ f[e] = NL) /\ d[r] \in Nat
        BY <1>8, <2>2, <3>1 DEF Holds, EndsLine, n
      <4>2. n # 0
        BY <1>a, <4>1
      <4> QED BY <1>3, <4>1, <4>2
    <3>3. e \in 0 .. Len(g) /\ Holds(g, d[r], e, h[r])
      BY <1>1, <3>1, <3>2, StillHolds DEF n
    <3> QED BY <1>11, <1>15, <2>2, <3>3
  <2> QED BY <1>10, <2>1, <2>2
<1>17. Tells(g, x, c)
  BY <1>14, <1>15, <1>16 DEF Tells
<1> QED BY <1>17 DEF Told

\* A line ends with a newline when its text does.
LEMMA LineEnded ==
  ASSUME NEW f \in Seq(Bytes), NEW p \in Nat, NEW e \in 0 .. Len(f), NEW s \in Line,
         Holds(f, p, e, s)
  PROVE  f[e] = NL <=> s.text # <<>> /\ Complete(s.text)
<1> DEFINE n == Len(s.text)
<1>1. s.text \in Seq(Text) /\ n \in Nat /\ (s.text = <<>> <=> n = 0)
  BY EmptySeq, LenProperties DEF Line
<1>2. /\ p + 4 <= e /\ f[p + 4] = " " /\ n = e - (p + 4)
      /\ \A j \in 1 .. e - (p + 4) : s.text[j] = f[(p + 4) + j]
  BY DEF Holds
<1>3. Len(f) \in Nat /\ e \in Nat
  BY LenProperties
<1>a. n \in Nat /\ n = e - (p + 4) /\ p + 4 <= e
  BY <1>1, <1>2
<1>4. s.text # <<>> => Last(s.text) = s.text[n]
  BY DEF Last
<1> HIDE DEF n
<1>5. CASE n = 0
  <2>1. e = p + 4
    BY <1>3, <1>5, <1>a
  <2> QED BY <1>1, <1>2, <1>5, <2>1 DEF NL
<1>6. CASE n # 0
  <2>1. n \in 1 .. e - (p + 4) /\ (p + 4) + n = e
    BY <1>3, <1>6, <1>a
  <2>2. s.text[n] = f[e]
    BY <1>2, <2>1
  <2> QED BY <1>1, <1>4, <1>6, <2>2 DEF Complete
<1> QED BY <1>5, <1>6

\* All lines but the last end with a newline.
LEMMA EarlierEnds ==
  ASSUME NEW f \in Seq(Bytes), NEW h \in Seq(Line), NEW d, Tells(f, h, d),
         NEW r \in 1 .. Len(h), r # Len(h), NEW e \in 0 .. Len(f), Holds(f, d[r], e, h[r])
  PROVE  f[e] = NL
<1>1. Len(f) \in Nat /\ Len(h) \in Nat
  BY LenProperties
<1>2. r + 1 \in 1 .. Len(h) /\ r < r + 1
  BY <1>1
<1>3. /\ d \in [1 .. Len(h) -> Nat]
      /\ \A j, k \in 1 .. Len(h) : j < k => d[j] < d[k]
      /\ \A j \in 1 .. Len(h) : d[j] \in Begins(f)
  BY DEF Tells, ListedBy
<1>4. d[r + 1] \in 0 .. Len(f) - 1 /\ (d[r + 1] = 0 \/ f[d[r + 1]] = NL)
  BY <1>2, <1>3 DEF Begins, LineStarts
<1>5. d[r] < d[r + 1] /\ d[r] \in Nat
  BY <1>2, <1>3
<1>6. /\ e \in d[r] + 1 .. Len(f) /\ (e = Len(f) \/ f[e] = NL)
      /\ \A q \in d[r] + 1 .. e - 1 : f[q] # NL
  BY DEF Holds, EndsLine
<1>7. CASE e = Len(f)
  <2>1. d[r + 1] \in d[r] + 1 .. e - 1 /\ d[r + 1] # 0
    BY <1>1, <1>4, <1>5, <1>6, <1>7
  <2> QED BY <1>4, <1>6, <2>1
<1> QED BY <1>6, <1>7

\* The child's bytes begin no line that looks stamped.
LEMMA NoneBegun ==
  ASSUME NEW f \in Seq(Bytes), NEW b \in Seq(Text), NEW g, Behind(g, f, b),
         "[" \notin Text \/ (OneLine(b) /\ (b = <<>> \/ ~ (f = <<>> \/ Last(f) = NL)))
  PROVE  Begins(g) = Begins(f)
<1>1. b \in Seq(Bytes)
  BY TextInLog
<1>2. /\ g \in Seq(Bytes) /\ Len(f) \in Nat /\ Len(b) \in Nat /\ Len(g) = Len(f) + Len(b)
      /\ \A k \in 1 .. Len(f) : g[k] = f[k]
      /\ \A k \in 1 .. Len(b) : g[Len(f) + k] = b[k]
  BY <1>1, BothParts
<1>3. \A k \in 1 .. Len(b) : b[k] \in Text
  BY ElementOfSeq
<1>4. ASSUME NEW p \in Begins(g), p >= Len(f) PROVE FALSE
  <2>1. p \in 0 .. Len(g) - 1 /\ (p = 0 \/ g[p] = NL) /\ g[p + 1] = "["
    BY DEF Begins, LineStarts
  <2>2. (p + 1) - Len(f) \in 1 .. Len(b) /\ Len(f) + ((p + 1) - Len(f)) = p + 1
    BY <1>2, <1>4, <2>1
  <2>3. b[(p + 1) - Len(f)] = "[" /\ "[" \in Text
    BY <1>2, <1>3, <2>1, <2>2
  <2>4. OneLine(b) /\ b # <<>> /\ f # <<>> /\ Last(f) # NL
    <3>1. b # <<>>
      BY <1>2, <2>2
    <3> QED BY <2>3, <3>1
  <2>5. CASE p = Len(f)
    <3>1. p # 0 /\ p \in 1 .. Len(f)
      BY <1>2, <2>4, <2>5, EmptySeq
    <3> QED BY <1>2, <2>1, <2>4, <2>5, <3>1 DEF Last
  <2>6. CASE p > Len(f)
    <3>1. p - Len(f) \in 1 .. Len(b) - 1 /\ p - Len(f) \in 1 .. Len(b) /\ Len(f) + (p - Len(f)) = p /\ p # 0
      BY <1>2, <2>1, <2>6
    <3>2. b[p - Len(f)] = NL
      BY <1>2, <2>1, <3>1
    <3> QED BY <2>4, <3>1, <3>2 DEF OneLine
  <2> QED BY <1>2, <1>4, <2>1, <2>5, <2>6
<1>5. ASSUME NEW p \in Begins(g) PROVE p \in Begins(f)
  <2>1. p \in Nat
    BY <1>2 DEF Begins, LineStarts
  <2>2. p \in 0 .. Len(f) - 1
    BY <1>2, <1>4, <2>1
  <2> QED BY <1>1, <2>2, BeginsBefore
<1>6. ASSUME NEW p \in Begins(f) PROVE p \in Begins(g)
  <2>1. p \in 0 .. Len(f) - 1
    BY DEF Begins, LineStarts
  <2> QED BY <1>1, <2>1, BeginsBefore
<1> QED BY <1>5, <1>6

\* what the child's bytes add to the line they continue
Spoken(bytes) ==
  LET nl == {k \in DOMAIN bytes : bytes[k] = NL}
  IN  SubSeq(bytes, 1, IF nl = {} THEN Len(bytes) ELSE Min(nl))

LEMMA SpokenIs ==
  ASSUME NEW A, NEW b \in Seq(A)
  PROVE  \E m \in 0 .. Len(b) :
           /\ Spoken(b) = SubSeq(b, 1, m) /\ Spoken(b) \in Seq(A) /\ Len(Spoken(b)) = m
           /\ \A k \in 1 .. m : Spoken(b)[k] = b[k]
           /\ \A k \in 1 .. m - 1 : b[k] # NL
           /\ m = Len(b) \/ (m > 0 /\ b[m] = NL)
<1> DEFINE nl == {k \in DOMAIN b : b[k] = NL}
           m == IF nl = {} THEN Len(b) ELSE Min(nl)
<1>1. Len(b) \in Nat /\ DOMAIN b = 1 .. Len(b)
  BY LenProperties
<1>2. nl \in SUBSET Nat
  BY <1>1
<1>3. /\ m \in 0 .. Len(b) /\ (\A k \in 1 .. m - 1 : b[k] # NL)
      /\ m = Len(b) \/ (m > 0 /\ b[m] = NL)
  <2>1. CASE nl = {}
    BY <1>1, <2>1
  <2>2. CASE nl # {}
    <3>1. Min(nl) \in nl /\ \A x \in nl : Min(nl) <= x
      BY <1>2, <2>2, LeastOf
    <3>2. m \in nl /\ \A x \in nl : m <= x
      BY <2>2, <3>1
    <3>3. m \in 1 .. Len(b) /\ b[m] = NL
      BY <1>1, <3>2
    <3> HIDE DEF m
    <3>4. \A k \in 1 .. m - 1 : k \in DOMAIN b /\ ~ (m <= k)
      BY <1>1, <3>3
    <3>5. \A k \in 1 .. m - 1 : b[k] # NL
      BY <3>2, <3>4
    <3>6. m \in 1 .. Len(b)
      BY <3>3
    <3>7. m \in 0 .. Len(b) /\ m > 0
      BY <1>1, <3>6
    <3> QED BY <3>3, <3>5, <3>7, Zenon
  <2> QED BY <2>1, <2>2
<1>b. m \in 0 .. Len(b)
  BY <1>3
<1>4. Spoken(b) = SubSeq(b, 1, m)
  BY DEF Spoken
<1> HIDE DEF m
<1>5. SubSeq(b, 1, m) \in Seq(A) /\ Len(SubSeq(b, 1, m)) = m /\ \A k \in 1 .. m : SubSeq(b, 1, m)[k] = b[k]
  <2>1. 0 + m <= Len(b) /\ m \in Nat /\ 0 \in Nat /\ 0 + 1 = 1 /\ 0 + m = m /\ \A k \in 1 .. m : 0 + k = k
    BY <1>1, <1>b
  <2>2. 0 + m <= Len(b) /\ m \in Nat /\ 0 \in Nat
    BY <2>1
  <2>3. LET s == SubSeq(b, 0 + 1, 0 + m)
        IN  s \in Seq(A) /\ Len(s) = m /\ \A k \in 1 .. m : s[k] = b[0 + k]
    BY <2>2, Part
  <2> QED BY <2>1, <2>3
<1> QED BY <1>3, <1>4, <1>5

\* A line that has not ended goes on with what is put behind the file.
LEMMA LineGoesOn ==
  ASSUME NEW f \in Seq(Bytes), NEW b \in Seq(Text), NEW g, Behind(g, f, b),
         NEW p \in Nat, NEW e \in 0 .. Len(f), NEW s \in Line, Holds(f, p, e, s), f[e] # NL,
         NEW t, Behind(t, s.text, Spoken(b))
  PROVE  \E q \in 0 .. Len(g) : Holds(g, p, q, [at |-> s.at, text |-> t])
<1>1. PICK m \in 0 .. Len(b) :
        /\ Spoken(b) = SubSeq(b, 1, m) /\ Spoken(b) \in Seq(Text) /\ Len(Spoken(b)) = m
        /\ \A k \in 1 .. m : Spoken(b)[k] = b[k]
        /\ \A k \in 1 .. m - 1 : b[k] # NL
        /\ m = Len(b) \/ (m > 0 /\ b[m] = NL)
  BY SpokenIs
<1> DEFINE n == Len(f)
<1>c. PICK c \in Seq(Text) : c = Spoken(b)
  BY <1>1
<1>d. PICK w \in Seq(Text) : w = s.text
  BY DEF Line
<1>a. Behind(t, w, c) /\ Len(c) = m
  BY <1>1, <1>c, <1>d
<1>e. w \in Seq(Text) /\ c \in Seq(Text) /\ Behind(t, w, c)
  BY <1>a, <1>c, <1>d
<1> DEFINE o == Len(w)
<1>2. /\ t \in Seq(Text) /\ Len(w) \in Nat /\ Len(t) = Len(w) + Len(c)
      /\ \A k \in 1 .. Len(w) : t[k] = w[k]
      /\ \A k \in 1 .. Len(c) : t[Len(w) + k] = c[k]
  BY <1>e, BothParts
<1>3. b \in Seq(Bytes)
  BY TextInLog
<1>4. /\ g \in Seq(Bytes) /\ Len(f) \in Nat /\ Len(b) \in Nat /\ Len(g) = Len(f) + Len(b)
      /\ \A k \in 1 .. Len(f) : g[k] = f[k]
      /\ \A k \in 1 .. Len(b) : g[Len(f) + k] = b[k]
  BY <1>3, BothParts
<1>5. /\ EndsLine(f, p, e) /\ p + 4 <= e /\ o = e - (p + 4)
      /\ f[p + 1] = "[" /\ f[p + 2] = Digits[s.at] /\ f[p + 3] = "]" /\ f[p + 4] = " "
      /\ \A j \in 1 .. e - (p + 4) : w[j] = f[(p + 4) + j]
  BY <1>d DEF Holds
<1>6. e = n /\ \A q \in p + 1 .. e - 1 : f[q] # NL
  BY <1>5 DEF EndsLine, n
<1>b. /\ n \in Nat /\ m \in Nat /\ Len(b) \in Nat /\ m <= Len(b) /\ Len(g) = n + Len(b)
      /\ o \in Nat /\ n = (p + 4) + o /\ e = n
  <2>1. n \in Nat /\ Len(b) \in Nat /\ Len(g) = n + Len(b) /\ o \in Nat /\ m \in Nat /\ m <= Len(b)
    BY <1>2, <1>4 DEF n, o
  <2>2. p + 4 <= e /\ o = e - (p + 4) /\ e = n
    BY <1>5, <1>6
  <2> QED BY <2>1, <2>2
<1> DEFINE q == n + m
<1>7. EndsLine(g, p, q)
  <2>1. q \in p + 1 .. Len(g)
    BY <1>b
  <2>2. q = Len(g) \/ g[q] = NL
    <3>1. CASE m = Len(b)
      BY <1>b, <3>1
    <3>2. CASE m # Len(b)
      <4>1. m \in 1 .. Len(b) /\ b[m] = NL
        <5>1. m > 0 /\ b[m] = NL
          BY <1>1, <3>2
        <5>2. m \in 1 .. Len(b)
          BY <1>b, <5>1
        <5> QED BY <5>1, <5>2
      <4> QED BY <1>4, <4>1
    <3> QED BY <3>1, <3>2
  <2>3. ASSUME NEW j \in p + 1 .. q - 1 PROVE g[j] # NL
    <3>1. CASE j <= n
      <4>1. j \in 1 .. n /\ (j = e \/ j \in p + 1 .. e - 1)
        BY <1>b, <3>1
      <4>2. f[j] # NL
        BY <1>6, <4>1
      <4> QED BY <1>4, <4>1, <4>2
    <3>2. CASE j > n
      <4>1. j - n \in 1 .. m - 1 /\ j - n \in 1 .. Len(b) /\ n + (j - n) = j
        BY <1>b, <3>2
      <4>2. b[j - n] # NL
        BY <1>1, <4>1
      <4> QED BY <1>4, <4>1, <4>2
    <3> QED BY <1>b, <3>1, <3>2
  <2> HIDE DEF q
  <2> QED BY <2>1, <2>2, <2>3 DEF EndsLine
<1>8. p + 4 <= q /\ q - (p + 4) = o + m /\ q \in 0 .. Len(g) /\ Len(t) = q - (p + 4)
  <2>1. Len(t) = o + m
    BY <1>2, <1>a
  <2> QED BY <1>b, <2>1
<1>9. g[p + 1] = f[p + 1] /\ g[p + 2] = f[p + 2] /\ g[p + 3] = f[p + 3] /\ g[p + 4] = f[p + 4]
  <2>1. p + 1 \in 1 .. n /\ p + 2 \in 1 .. n /\ p + 3 \in 1 .. n /\ p + 4 \in 1 .. n
    BY <1>b
  <2> QED BY <1>4, <2>1
<1>10. ASSUME NEW j \in 1 .. q - (p + 4) PROVE t[j] = g[(p + 4) + j]
  <2>1. CASE j <= o
    <3>1. j \in 1 .. o /\ j \in 1 .. e - (p + 4) /\ (p + 4) + j \in 1 .. n
      BY <1>b, <2>1
    <3>2. t[j] = w[j] /\ w[j] = f[(p + 4) + j]
      BY <1>2, <1>5, <3>1
    <3> QED BY <1>4, <3>1, <3>2
  <2>2. CASE j > o
    <3> DEFINE k == j - o
    <3>1. k \in 1 .. m /\ k \in 1 .. Len(b) /\ o + k = j /\ n + k = (p + 4) + j
      BY <1>b, <2>2
    <3> HIDE DEF k
    <3>2. t[o + k] = c[k] /\ c[k] = b[k]
      BY <1>1, <1>2, <1>a, <1>c, <3>1
    <3>3. g[n + k] = b[k]
      BY <1>4, <3>1
    <3> QED BY <3>1, <3>2, <3>3
  <2> QED BY <1>b, <2>1, <2>2
<1>11. Holds(g, p, q, [at |-> s.at, text |-> t])
  <2> HIDE DEF q, n
  <2>1. [at |-> s.at, text |-> t].at = s.at /\ [at |-> s.at, text |-> t].text = t
    OBVIOUS
  <2> QED BY <1>5, <1>7, <1>8, <1>9, <1>10, <2>1 DEF Holds
<1> QED BY <1>8, <1>11

\* x is h with the text of line n continued
Adds(x, h, n, c) == x = [h EXCEPT ![n].text = @ \o c]

Added(x, h, n, c) ==
  /\ Len(x) = Len(h)
  /\ x[n] = [at |-> h[n].at, text |-> h[n].text \o c]
  /\ \A r \in 1 .. Len(h) : r # n => x[r] = h[r]

LEMMA ReplaceInLine ==
  ASSUME NEW l \in Line, NEW t
  PROVE  [l EXCEPT !.text = t] = [at |-> l.at, text |-> t]
BY DEF Line

\* What changes when the text of one line does.
LEMMA ReplaceText ==
  ASSUME NEW h \in Seq(Line), NEW n \in 1 .. Len(h), NEW c, NEW x, Adds(x, h, n, c)
  PROVE  Added(x, h, n, c)
<1> DEFINE t == h[n].text \o c
<1>1. Len(h) \in Nat /\ h \in [1 .. Len(h) -> Line] /\ h[n] \in Line
  BY LenProperties, ElementOfSeq
<1>3. x = [h EXCEPT ![n].text = t]
  BY DEF Adds
<1> HIDE DEF t
<1>4. PICK y : y = [at |-> h[n].at, text |-> t]
  OBVIOUS
<1>5. [h[n] EXCEPT !.text = t] = y
  BY <1>1, <1>4, ReplaceInLine
<1>6. x = [h EXCEPT ![n] = y]
  BY <1>3, <1>5
<1>7. DOMAIN x = 1 .. Len(h) /\ x[n] = y /\ \A r \in 1 .. Len(h) : r # n => x[r] = h[r]
  BY <1>1, <1>6
<1>8. \E m \in Nat : DOMAIN x = 1 .. m
  BY <1>1, <1>7
<1>9. Len(x) = Len(h)
  BY <1>1, <1>7
<1> QED BY <1>4, <1>7, <1>9 DEF t, Added

Continued(h) == h # <<>> /\ (h[Len(h)].text = <<>> \/ ~ Complete(h[Len(h)].text))

\* The child's bytes are told as the history tells them.
LEMMA TextTold ==
  ASSUME NEW f \in Seq(Bytes), NEW h \in Seq(Line), Told(f, h), NEW b \in Seq(Text),
         NEW g, Behind(g, f, b),
         "[" \notin Text \/ (OneLine(b) /\ (b = <<>> \/ ~ (f = <<>> \/ Last(f) = NL))),
         NEW x, IF Continued(h) THEN Adds(x, h, Len(h), Spoken(b)) ELSE x = h
  PROVE  Told(g, x)
<1>1. PICK d : Tells(f, h, d)
  BY DEF Told
<1>2. /\ Len(h) \in Nat /\ \A r \in 1 .. Len(h) : h[r] \in Line /\ h[r].text \in Seq(Text)
      /\ h # <<>> => Len(h) \in 1 .. Len(h)
  <2>1. Len(h) \in Nat /\ \A r \in 1 .. Len(h) : h[r] \in Line
    BY LenProperties, ElementOfSeq
  <2>2. h # <<>> => Len(h) # 0
    BY EmptySeq
  <2>3. h # <<>> => Len(h) \in 1 .. Len(h)
    BY <2>1, <2>2
  <2>4. \A r \in 1 .. Len(h) : h[r].text \in Seq(Text)
    BY <2>1 DEF Line
  <2> QED BY <2>1, <2>3, <2>4
<1>3. /\ d \in [1 .. Len(h) -> Nat]
      /\ \A r \in 1 .. Len(h) : \E e \in 0 .. Len(f) : Holds(f, d[r], e, h[r])
      /\ ListedBy(Begins(f), Len(h), d)
  BY <1>1 DEF Tells, ListedBy
<1>4. ListedBy(Begins(g), Len(h), d)
  <2>1. Begins(g) = Begins(f)
    BY NoneBegun
  <2> QED BY <1>3, <2>1
<1>5. b \in Seq(Bytes)
  BY TextInLog
<1>6. Len(x) = Len(h) /\ \A r \in 1 .. Len(h) : ~ (Continued(h) /\ r = Len(h)) => x[r] = h[r]
  <2>1. CASE Continued(h)
    <3>1. Adds(x, h, Len(h), Spoken(b))
      BY <2>1
    <3>2. Len(h) \in 1 .. Len(h)
      BY <1>2, <2>1 DEF Continued
    <3>3. Added(x, h, Len(h), Spoken(b))
      BY <3>1, <3>2, ReplaceText
    <3> QED BY <2>1, <3>3 DEF Added
  <2>2. CASE ~ Continued(h)
    BY <2>2
  <2> QED BY <2>1, <2>2
<1>7. ASSUME NEW r \in 1 .. Len(h) PROVE \E e \in 0 .. Len(g) : Holds(g, d[r], e, x[r])
  <2>1. PICK e \in 0 .. Len(f) : Holds(f, d[r], e, h[r])
    BY <1>3
  <2>2. d[r] \in Nat /\ h[r] \in Line
    BY <1>2, <1>3
  <2>3. f[e] = NL <=> h[r].text # <<>> /\ Complete(h[r].text)
    BY <2>1, <2>2, LineEnded
  <2>4. CASE f[e] = NL
    <3>1. e \in 0 .. Len(g) /\ Holds(g, d[r], e, h[r])
      BY <1>5, <2>1, <2>2, <2>4, StillHolds
    <3>2. ~ (Continued(h) /\ r = Len(h))
      BY <2>3, <2>4 DEF Continued
    <3> QED BY <1>6, <3>1, <3>2
  <2>5. CASE f[e] # NL
    <3>1. r = Len(h)
      BY <1>1, <2>1, <2>5, EarlierEnds
    <3>2. Continued(h)
      <4>1. h # <<>>
        BY <1>2, <3>1, EmptySeq
      <4> QED BY <2>3, <2>5, <3>1, <4>1 DEF Continued
    <3> DEFINE t == h[r].text \o Spoken(b)
    <3>3. Behind(t, h[r].text, Spoken(b))
      BY DEF Behind
    <3>4. x[r] = [at |-> h[r].at, text |-> t]
      <4>1. Adds(x, h, Len(h), Spoken(b))
        BY <3>2
      <4>2. Len(h) \in 1 .. Len(h)
        BY <3>1
      <4>3. Added(x, h, Len(h), Spoken(b))
        BY <4>1, <4>2, ReplaceText
      <4> QED BY <3>1, <4>3 DEF Added
    <3> HIDE DEF t
    <3>5. \E q \in 0 .. Len(g) : Holds(g, d[r], q, [at |-> h[r].at, text |-> t])
      BY <2>1, <2>2, <2>5, <3>3, LineGoesOn
    <3> QED BY <3>4, <3>5
  <2> QED BY <2>4, <2>5
<1>8. Tells(g, x, d)
  BY <1>4, <1>6, <1>7 DEF Tells
<1> QED BY <1>8 DEF Told

-----------------------------------------------------------------------------
\* The invariant behind WindowHoldsWhatWasSaid: as long as rotation has taken
\* nothing away, the file tells what the history says.
SaidInv == sealed = <<>> /\ Unforged => Told(file, said)

\* A write that fills no file puts its bytes behind it.
LEMMA WroteHere ==
  ASSUME TypeInv, NEW bytes \in Seq(Bytes), WriteRaw(bytes), sealed' = <<>>
  PROVE  sealed = <<>> /\ Behind(file', file, bytes)
<1>1. /\ file \in Seq(Bytes) /\ sealed \in Seq(Bytes) /\ size \in Nat
      /\ size > 0 => Len(file) < size
  BY ConstantTypes DEF TypeInv, TypeOK, Bytes
<1>2. \E k \in 0 .. Len(bytes) : Wrote(file, sealed, bytes, k, file', sealed')
  BY <1>1, WriteRawDoes
<1>3. PICK k \in 0 .. Len(bytes) : Wrote(file, sealed, bytes, k, file', sealed')
  BY <1>2
<1>4. CASE k > 0
  BY <1>3, <1>4 DEF Wrote
<1>5. CASE k = 0
  BY <1>3, <1>5 DEF Wrote, Behind
<1>6. k > 0 \/ k = 0
  BY <1>3, LenProperties
<1> QED BY <1>4, <1>5, <1>6

\* The history goes on as the file does.
LEMMA SaysOn ==
  ASSUME TypeInv, SaidInv, NEW bytes \in Seq(Text), WriteRaw(bytes), Say(bytes),
         unstamped' = unstamped,
         \/ unstamped # 0
         \/ OneLine(bytes) /\ (bytes = <<>> \/ ~ AtStart(file, sealed))
  PROVE  SaidInv'
<1> SUFFICES ASSUME sealed' = <<>>, "[" \notin Text \/ unstamped = 0
             PROVE  Told(file', said')
  BY DEF SaidInv, Unforged
<1>1. file \in Seq(Bytes) /\ said \in Seq(Line) /\ bytes \in Seq(Bytes)
  BY TextInLog DEF TypeInv, TypeOK, Bytes
<1>2. sealed = <<>> /\ Behind(file', file, bytes)
  BY <1>1, WroteHere
<1>3. Told(file, said)
  BY <1>2 DEF SaidInv, Unforged
<1>4. "[" \notin Text \/ (OneLine(bytes) /\ (bytes = <<>> \/ ~ (file = <<>> \/ Last(file) = NL)))
  BY <1>2 DEF AtStart
<1>5. IF Continued(said) THEN Adds(said', said, Len(said), Spoken(bytes)) ELSE said' = said
  BY DEF Say, Continued, Adds, Spoken
<1> QED BY <1>1, <1>2, <1>3, <1>4, <1>5, TextTold

\* Nothing is told at first.
LEMMA InitSaid == Init => SaidInv
<1> SUFFICES ASSUME Init PROVE Told(file, said)
  BY DEF SaidInv
<1>1. file = <<>> /\ said = <<>>
  BY DEF Init
<1>2. Len(file) = 0 /\ Len(said) = 0 /\ Begins(file) = {}
  <2>1. Len(file) = 0 /\ Len(said) = 0
    BY <1>1, EmptySeq
  <2> QED BY <2>1 DEF Begins, LineStarts
<1> DEFINE d == [r \in 1 .. 0 |-> 0]
<1>3. Tells(file, said, d)
  BY <1>2 DEF Tells, ListedBy
<1> QED BY <1>3 DEF Told

\* Every step keeps file and history together.
LEMMA NextSaid == TypeInv /\ StampInv /\ SaidInv /\ [Next]_vars => SaidInv'
<1> SUFFICES ASSUME TypeInv, StampInv, SaidInv, [Next]_vars PROVE SaidInv'
  OBVIOUS
<1>0. /\ Len(buf) \in Nat /\ start \in Nat /\ start >= 1 /\ i \in Nat /\ start <= i
      /\ i <= Len(buf) + 1 /\ DOMAIN buf = 1 .. Len(buf) /\ buf \in Seq(Text)
      /\ unstamped \in Nat
  <2>1. unstamped \in 0 .. MaxRestarts + 1
    BY DEF TypeInv, TypeOK
  <2> QED BY <2>1, LoopType, ConstantTypes
<1>1. CASE UNCHANGED <<sealed, file, said, unstamped>>
  BY <1>1 DEF SaidInv, Unforged
<1>2. ASSUME NEW chunk \in Chunks, Receive(chunk) PROVE SaidInv'
  <2>1. CASE timestamps
    BY <1>1, <1>2, <2>1 DEF Receive
  <2>2. CASE ~ timestamps
    <3>1. WriteRaw(chunk) /\ Say(chunk) /\ unstamped' = unstamped /\ unstamped # 0
      BY <1>2, <2>2 DEF Receive, StampInv
    <3> QED BY <3>1, SaysOn, ChunkType
  <2> QED BY <2>1, <2>2
<1>3. ASSUME Stamp PROVE SaidInv'
  <2>1. /\ i \in DOMAIN buf /\ atLineStart /\ WriteRaw(SubSeq(buf, start, i - 1) \o Prefix(now))
        /\ said' = Append(said, [at |-> now, text |-> <<>>])
        /\ unstamped' = unstamped
    BY <1>3 DEF Stamp
  <2>2. now \in 1 .. MaxTime /\ file \in Seq(Bytes) /\ said \in Seq(Line)
    BY DEF TypeInv, TypeOK, Bytes
  <2>3. SubSeq(buf, start, i - 1) = <<>>
    <3>1. start = i /\ start - 1 < start
      BY <1>0, <2>1 DEF StampInv
    <3>2. i - 1 \in Nat /\ i - 1 < start /\ start \in Nat
      BY <1>0, <3>1
    <3> QED BY <3>2, SubSeqEmpty
  <2>4. Prefix(now) \in Seq(Bytes)
    BY <2>2, PrefixIs
  <2>5. WriteRaw(Prefix(now))
    <3>1. <<>> \o Prefix(now) = Prefix(now)
      BY <2>4, ConcatEmptySeq
    <3> QED BY <2>1, <2>3, <3>1
  <2> SUFFICES ASSUME sealed' = <<>>, Unforged PROVE Told(file', said')
    BY <2>1 DEF SaidInv, Unforged
  <2>6. sealed = <<>> /\ Behind(file', file, Prefix(now))
    BY <2>4, <2>5, WroteHere
  <2>7. Told(file, said)
    BY <2>6 DEF SaidInv
  <2>8. file = <<>> \/ Last(file) = NL
    <3>1. buf # <<>>
      BY <1>0, <2>1, EmptySeq
    <3> QED BY <2>1, <3>1 DEF StampInv
  <2> QED BY <2>1, <2>2, <2>6, <2>7, <2>8, StampTold
<1>4. ASSUME Visit PROVE SaidInv'
  <2>1. i \in DOMAIN buf /\ ~ atLineStart /\ unstamped' = unstamped
    BY <1>4 DEF Visit
  <2>2. CASE buf[i] = NL
    <3>1. WriteRaw(SubSeq(buf, start, i)) /\ Say(SubSeq(buf, start, i))
      BY <1>4, <2>2 DEF Visit
    <3>2. PICK bytes : bytes = SubSeq(buf, start, i)
      OBVIOUS
    <3>3. OneLine(bytes)
      <4>1. i \in start - 1 .. Len(buf)
        BY <1>0, <2>1
      <4> QED BY <3>2, <4>1, LoopWrites
    <3>4. bytes \in Seq(Text)
      <4>1. i <= Len(buf) /\ start <= i + 1 /\ start > 0
        BY <1>0, <2>1
      <4> QED BY <1>0, <3>2, <4>1, BufPart
    <3>5. ~ AtStart(file, sealed)
      <4>1. buf # <<>>
        BY <1>0, <2>1, EmptySeq
      <4> QED BY <2>1, <4>1 DEF StampInv
    <3>6. WriteRaw(bytes) /\ Say(bytes)
      BY <3>1, <3>2
    <3> QED BY <2>1, <3>3, <3>4, <3>5, <3>6, SaysOn
  <2>3. CASE buf[i] # NL
    BY <1>1, <1>4, <2>3 DEF Visit
  <2> QED BY <2>2, <2>3
<1>5. ASSUME Flush PROVE SaidInv'
  <2>1. /\ buf # <<>> /\ i > Len(buf) /\ unstamped' = unstamped
        /\ WriteRaw(From(buf, start - 1)) /\ Say(From(buf, start - 1))
    BY <1>5 DEF Flush
  <2>2. PICK bytes : bytes = SubSeq(buf, start, Len(buf))
    OBVIOUS
  <2>3. From(buf, start - 1) = bytes
    <3>1. (start - 1) + 1 = start
      BY <1>0
    <3> QED BY <2>2, <3>1 DEF From
  <2>4. OneLine(bytes) /\ (bytes = <<>> <=> Len(buf) = start - 1)
    <3>1. Len(buf) \in start - 1 .. Len(buf) /\ Len(buf) < i
      BY <1>0, <2>1
    <3> QED BY <2>2, <3>1, LoopWrites
  <2>5. bytes \in Seq(Text)
    <3>1. Len(buf) <= Len(buf) /\ start <= Len(buf) + 1 /\ start > 0
      BY <1>0
    <3> QED BY <1>0, <2>2, <3>1, BufPart
  <2>6. bytes = <<>> \/ ~ AtStart(file, sealed)
    <3>1. CASE start = i
      BY <1>0, <2>1, <2>4, <3>1
    <3>2. CASE start # i
      BY <2>1, <3>2 DEF StampInv
    <3> QED BY <3>1, <3>2
  <2>7. WriteRaw(bytes) /\ Say(bytes)
    BY <2>1, <2>3
  <2> QED BY <2>1, <2>4, <2>5, <2>6, <2>7, SaysOn
<1>6. ASSUME Tick PROVE SaidInv'
  BY <1>1, <1>6 DEF Tick, history
<1>7. ASSUME Restart PROVE SaidInv'
  <2>1. /\ UNCHANGED <<file, sealed, said>>
        /\ unstamped' = IF timestamps' THEN unstamped ELSE unstamped + 1
    BY <1>7 DEF Restart
  <2>2. unstamped' = 0 => unstamped = 0
    BY <1>0, <2>1
  <2> QED BY <2>1, <2>2 DEF SaidInv, Unforged
<1>8. CASE UNCHANGED vars
  BY <1>1, <1>8 DEF vars, history
<1> QED BY <1>2, <1>3, <1>4, <1>5, <1>6, <1>7, <1>8 DEF Next

-----------------------------------------------------------------------------
\* line k of f is what was said in s
TellsLine(f, k, s) ==
  LET l == SplitLines(f)[k]
  IN  /\ ParseMsPrefix(l) = [ts |-> s.at, body |-> 4]
      /\ From(l, 4) = s.text
      /\ Complete(l) <=> s.text # <<>> /\ Complete(s.text)

\* Where a line begins is where one is cut.
LEMMA BeginCut ==
  ASSUME NEW f \in Seq(Bytes), NEW p \in LineStarts(f)
  PROVE  LET k == Rank(Ends(f), p) + 1
         IN  k \in 1 .. Cardinality(Ends(f)) /\ Cut(f)[k - 1] = p
<1> DEFINE E == Ends(f)
           c == Cardinality(E)
           k == Rank(E, p) + 1
<1>1. p \in 0 .. Len(f) - 1 /\ (p = 0 \/ f[p] = NL) /\ Len(f) \in Nat /\ DOMAIN f = 1 .. Len(f)
  BY LenProperties DEF LineStarts
<1>2. /\ k \in 1 .. c /\ k - 1 \in 0 .. c /\ Cut(f)[k - 1] <= p /\ p < Cut(f)[k]
  BY <1>1, LineAt
<1>3. E \in SUBSET (1 .. Len(f)) /\ E \in SUBSET Nat /\ IsFiniteSet(E) /\ c \in Nat
  BY EndsFinite
<1>4. Cut(f) \in [0 .. c -> 0 .. Len(f)] /\ Cut(f)[0] = 0
  BY CutsInOrder
<1>5. ASSUME p = 0 PROVE Cut(f)[k - 1] = p
  BY <1>2, <1>4, <1>5
<1>6. ASSUME p # 0 PROVE Cut(f)[k - 1] = p
  <2>a. p \in 1 .. Len(f) /\ f[p] = NL
    BY <1>1, <1>6
  <2>1. p \in E
    BY <1>1, <2>a DEF Ends, Newlines
  <2>2. Rank(E, p) \in 1 .. c /\ Ascending(E)[Rank(E, p)] = p
    BY <1>3, <2>1, AscendingAt
  <2>3. k - 1 = Rank(E, p)
    BY <2>2
  <2>4. Cut(f)[Rank(E, p)] = Ascending(E)[Rank(E, p)]
    BY <2>2, CutsInOrder
  <2> HIDE DEF k, E, c
  <2> QED BY <1>2, <2>2, <2>3, <2>4
<1> QED BY <1>2, <1>5, <1>6

\* A line ends at the next cut.
LEMMA EndCut ==
  ASSUME NEW f \in Seq(Bytes), NEW k \in 1 .. Cardinality(Ends(f)), NEW e \in 0 .. Len(f),
         EndsLine(f, Cut(f)[k - 1], e)
  PROVE  Cut(f)[k] = e
<1> DEFINE E == Ends(f)
           c == Cardinality(E)
<1>1. Len(f) \in Nat /\ DOMAIN f = 1 .. Len(f)
  BY LenProperties
<1>2. E \in SUBSET (1 .. Len(f)) /\ E \in SUBSET Nat /\ IsFiniteSet(E) /\ c \in Nat
  BY EndsFinite
<1>3. k \in 0 .. c /\ k - 1 \in 0 .. c
  BY <1>2
<1>4. PICK p \in 0 .. Len(f), q \in 0 .. Len(f) : p = Cut(f)[k - 1] /\ q = Cut(f)[k] /\ p < q
  <2>1. Cut(f)[k - 1] \in 0 .. Len(f) /\ Cut(f)[k] \in 0 .. Len(f) /\ Cut(f)[k - 1] < Cut(f)[k]
    BY <1>3, CutsInOrder
  <2> QED BY <2>1
<1>5. q \in E /\ (q = Len(f) \/ f[q] = NL)
  <2>1. q \in E
    BY <1>4, CutsByRank
  <2> QED BY <1>1, <2>1 DEF Ends, Newlines
<1>6. /\ e \in p + 1 .. Len(f) /\ (e = Len(f) \/ f[e] = NL)
      /\ \A x \in p + 1 .. e - 1 : f[x] # NL
  BY <1>4 DEF EndsLine
<1> DEFINE n == Len(f)
<1>a. p \in Nat /\ q \in Nat /\ e \in Nat /\ n \in Nat /\ p < q /\ q <= n /\ p < e /\ e <= n
  <2>1. n \in Nat /\ p \in 0 .. n /\ q \in 0 .. n /\ p < q
    BY <1>1, <1>4
  <2>2. e \in p + 1 .. n
    BY <1>6
  <2> HIDE DEF n
  <2> QED BY <2>1, <2>2
<1> HIDE DEF n
<1>7. ~ (q < e)
  <2> SUFFICES ASSUME q < e PROVE FALSE
    OBVIOUS
  <2>1. q \in p + 1 .. e - 1 /\ q # n
    BY <1>a
  <2> QED BY <1>5, <1>6, <2>1 DEF n
<1>8. ~ (e < q)
  <2> SUFFICES ASSUME e < q PROVE FALSE
    OBVIOUS
  <2>1. e \in E
    <3>1. e \in 1 .. n
      BY <1>a
    <3> QED BY <1>1, <1>6, <3>1 DEF Ends, Newlines, n
  <2>2. Rank(E, p) = k - 1 /\ Rank(E, e) = k - 1
    <3>1. Cut(f)[k - 1] <= p /\ p < Cut(f)[k] /\ Cut(f)[k - 1] <= e /\ e < Cut(f)[k]
      BY <1>4, <1>a
    <3>2. p \in Nat /\ e \in Nat
      BY <1>a
    <3> QED BY <3>1, <3>2, LineOf
  <2>3. Rank(E, p) < Rank(E, e)
    BY <1>2, <1>a, <2>1, RankGrows
  <2>4. k - 1 \in Nat
    BY <1>2
  <2> QED BY <2>2, <2>3, <2>4
<1> QED BY <1>4, <1>7, <1>8, <1>a

\* A line that holds what was said is read as that.
LEMMA HoldsTells ==
  ASSUME NEW f \in Seq(Bytes), NEW k \in 1 .. Cardinality(Ends(f)), NEW e \in 0 .. Len(f),
         NEW s \in Line, Holds(f, Cut(f)[k - 1], e, s)
  PROVE  TellsLine(f, k, s)
<1> DEFINE l == SplitLines(f)[k]
<1>1. Len(f) \in Nat /\ DOMAIN f = 1 .. Len(f)
  BY LenProperties
<1>2. k \in 0 .. Cardinality(Ends(f)) /\ k - 1 \in 0 .. Cardinality(Ends(f))
  BY EndsFinite
<1>3. PICK p \in 0 .. Len(f) : p = Cut(f)[k - 1]
  BY <1>2, CutsInOrder
<1>4. Cut(f)[k] = e
  BY EndCut DEF Holds
<1>5. /\ p + 4 <= e
      /\ f[p + 1] = "[" /\ f[p + 2] = Digits[s.at] /\ f[p + 3] = "]" /\ f[p + 4] = " "
      /\ Len(s.text) = e - (p + 4)
      /\ \A j \in 1 .. e - (p + 4) : s.text[j] = f[(p + 4) + j]
  BY <1>3 DEF Holds
<1>6. f[e] = NL <=> s.text # <<>> /\ Complete(s.text)
  BY <1>3, LineEnded
<1>7. PICK m \in Nat : e = p + m /\ 4 <= m
  <2>a. e \in Nat /\ p \in Nat
    BY <1>1, <1>3
  <2>b. p + 4 <= e
    BY <1>5
  <2>1. e \in Nat /\ p \in Nat /\ p + 4 <= e
    BY <2>a, <2>b, Zenon
  <2>2. e - p \in Nat /\ e = p + (e - p) /\ 4 <= e - p
    BY <2>1
  <2> QED BY <2>2
<1>8. l = SubSeq(f, p + 1, p + m)
  BY <1>3, <1>4, <1>7, LinesAre
<1>9. l \in Seq(Bytes) /\ Len(l) = m /\ \A x \in 1 .. m : l[x] = f[p + x]
  <2>1. p \in Nat /\ p + m <= Len(f)
    BY <1>1, <1>3, <1>7
  <2> QED BY <1>8, <2>1, Part
<1> HIDE DEF l
<1>10. l[1] = "[" /\ l[2] = Digits[s.at] /\ l[3] = "]" /\ l[4] = " " /\ l[m] = f[e]
  <2>1. 1 \in 1 .. m /\ 2 \in 1 .. m /\ 3 \in 1 .. m /\ 4 \in 1 .. m /\ m \in 1 .. m
    BY <1>7
  <2> QED BY <1>5, <1>7, <1>9, <2>1
<1>11. s.at \in 1 .. 9 /\ s.at \in Nat /\ s.text \in Seq(Text)
  <2>1. s.at \in 1 .. MaxTime /\ s.text \in Seq(Text)
    BY DEF Line
  <2>2. MaxTime \in Nat /\ MaxTime <= 9
    BY ConstantTypes, Zenon
  <2> QED BY <2>1, <2>2, SMTT(40)
<1>12. ParseMsPrefix(l) = [ts |-> s.at, body |-> 4]
  <2>1. 3 <= Len(l) /\ 3 < Len(l)
    BY <1>7, <1>9
  <2>2. ParseMsPrefix(l) = [ts |-> s.at, body |-> BodyStart(l, 3)]
    BY <1>9, <1>10, <1>11, <2>1, StampParses
  <2>3. BodyStart(l, 3) = 4
    <3>1. 3 + 1 = 4
      OBVIOUS
    <3>2. 3 < Len(l) /\ l[3 + 1] = " "
      BY <1>10, <2>1, <3>1
    <3> QED BY <3>1, <3>2 DEF BodyStart
  <2> QED BY <2>2, <2>3
<1>13. From(l, 4) = s.text
  <2> DEFINE t == SubSeq(l, 5, Len(l))
  <2>1. 5 \in 1 .. Len(l) + 1
    BY <1>7, <1>9
  <2>2. t \in Seq(Bytes) /\ Len(t) = (Len(l) + 1) - 5 /\ \A j \in 1 .. (Len(l) + 1) - 5 : t[j] = l[(5 - 1) + j]
    BY <1>9, <2>1, Rest
  <2>3. s.text \in Seq(Bytes)
    BY <1>11, TextInLog
  <2>4. /\ (Len(l) + 1) - 5 = e - (p + 4)
    BY <1>7, <1>9, <1>3, <1>1
  <2>5. Len(t) = Len(s.text)
    BY <1>5, <2>2, <2>4
  <2>6. ASSUME NEW j \in 1 .. Len(t) PROVE t[j] = s.text[j]
    <3>1. j \in 1 .. (Len(l) + 1) - 5 /\ j \in 1 .. e - (p + 4)
      BY <2>2, <2>4
    <3>2. 4 + j \in 1 .. m /\ p + (4 + j) = (p + 4) + j /\ (5 - 1) + j = 4 + j
      <4>1. p \in Nat /\ e = p + m /\ j \in 1 .. e - (p + 4)
        BY <1>1, <1>3, <1>7, <3>1
      <4> QED BY <1>7, <4>1
    <3>3. t[j] = l[4 + j]
      BY <2>2, <3>1, <3>2
    <3>4. l[4 + j] = f[(p + 4) + j]
      BY <1>9, <3>2
    <3> QED BY <1>5, <3>1, <3>3, <3>4
  <2>7. From(l, 4) = t
    BY DEF From
  <2> HIDE DEF t
  <2>8. t = s.text
    BY <2>2, <2>3, <2>5, <2>6, SeqEqual
  <2> QED BY <2>7, <2>8
<1>14. Complete(l) <=> s.text # <<>> /\ Complete(s.text)
  <2>1. Last(l) = l[m]
    BY <1>9 DEF Last
  <2> QED BY <1>6, <1>10, <2>1 DEF Complete
<1> QED BY <1>12, <1>13, <1>14 DEF TellsLine, l

\* q says which line of f is which that was said; no other is stamped
LinesTell(f, h, q) ==
  /\ q \in [1 .. Len(h) -> 1 .. Len(SplitLines(f))]
  /\ \A r, x \in 1 .. Len(h) : r < x => q[r] < q[x]
  /\ \A r \in 1 .. Len(h) : TellsLine(f, q[r], h[r])
  /\ \A k \in 1 .. Len(SplitLines(f)) :
       Stamped(SplitLines(f)[k]) => \E r \in 1 .. Len(h) : k = q[r]

\* A line that is read as stamped begins as a stamp does.
LEMMA StampedBegins ==
  ASSUME NEW f \in Seq(Bytes), NEW k \in 1 .. Cardinality(Ends(f)), Stamped(SplitLines(f)[k])
  PROVE  Cut(f)[k - 1] \in Begins(f)
<1> DEFINE E == Ends(f)
           c == Cardinality(E)
           l == SplitLines(f)[k]
<1>1. Len(f) \in Nat /\ DOMAIN f = 1 .. Len(f)
  BY LenProperties
<1>2. E \in SUBSET (1 .. Len(f)) /\ E \in SUBSET Nat /\ IsFiniteSet(E) /\ c \in Nat
  BY EndsFinite
<1>3. k \in 0 .. c /\ k - 1 \in 0 .. c
  BY <1>2
<1>4. PICK p \in 0 .. Len(f), e \in 0 .. Len(f) : p = Cut(f)[k - 1] /\ e = Cut(f)[k] /\ p < e
  <2>1. Cut(f)[k - 1] \in 0 .. Len(f) /\ Cut(f)[k] \in 0 .. Len(f) /\ Cut(f)[k - 1] < Cut(f)[k]
    BY <1>3, CutsInOrder
  <2> QED BY <2>1
<1>a. p \in 0 .. Len(f) - 1 /\ p \in Nat /\ e \in Nat /\ p < e /\ e <= Len(f)
  BY <1>1, <1>4
<1>5. l[1] = "["
  BY DEF Stamped, ParseMsPrefix
<1>6. l[1] = f[p + 1]
  <2>1. PICK m \in Nat : e = p + m /\ 1 <= m
    <3>1. e - p \in Nat /\ e = p + (e - p) /\ 1 <= e - p
      BY <1>a
    <3> QED BY <3>1
  <2>2. l = SubSeq(f, p + 1, p + m)
    BY <1>4, <2>1, LinesAre
  <2>3. p \in Nat /\ p + m <= Len(f)
    BY <1>a, <2>1
  <2>4. \A x \in 1 .. m : l[x] = f[p + x]
    BY <2>2, <2>3, Part
  <2>5. 1 \in 1 .. m
    BY <2>1
  <2> QED BY <2>4, <2>5
<1>7. p = 0 \/ f[p] = NL
  <2>1. CASE k = 1
    <3>1. k - 1 = 0
      BY <2>1
    <3> QED BY <1>4, <3>1, CutsInOrder
  <2>2. CASE k # 1
    <3>1. k - 1 \in 1 .. c
      BY <1>2, <1>3, <2>2
    <3>2. p \in E
      BY <1>4, <3>1, CutsByRank
    <3>3. p # Len(f)
      <4>1. Len(f) \in Nat
        BY <1>1
      <4> QED BY <1>a, <4>1
    <3> QED BY <3>2, <3>3 DEF Ends, Newlines
  <2> QED BY <2>1, <2>2
<1> HIDE DEF l
<1>8. p \in Begins(f)
  BY <1>5, <1>6, <1>7, <1>a DEF Begins, LineStarts
<1> QED BY <1>4, <1>8

\* The readers' lines are those that were said.
LEMMA LinesTold ==
  ASSUME NEW f \in Seq(Bytes), NEW h \in Seq(Line), Told(f, h)
  PROVE  \E q : LinesTell(f, h, q)
<1> DEFINE E == Ends(f)
           c == Cardinality(E)
           n == Len(h)
<1>1. PICK d : Tells(f, h, d)
  BY DEF Told
<1>2. /\ n \in Nat /\ d \in [1 .. n -> Nat]
      /\ \A j, k \in 1 .. n : j < k => d[j] < d[k]
      /\ \A j \in 1 .. n : d[j] \in Begins(f)
      /\ \A p \in Begins(f) : \E j \in 1 .. n : p = d[j]
      /\ \A r \in 1 .. n : \E e \in 0 .. Len(f) : Holds(f, d[r], e, h[r])
  BY <1>1 DEF Tells, ListedBy
<1>3. E \in SUBSET Nat /\ IsFiniteSet(E) /\ c \in Nat
  BY EndsFinite
<1>4. Len(SplitLines(f)) = c
  BY LinesAre
<1> DEFINE q == [r \in 1 .. n |-> Rank(E, d[r]) + 1]
<1>5. ASSUME NEW r \in 1 .. n
      PROVE  /\ q[r] = Rank(E, d[r]) + 1 /\ q[r] \in 1 .. c /\ Cut(f)[q[r] - 1] = d[r]
             /\ TellsLine(f, q[r], h[r])
  <2>1. d[r] \in LineStarts(f)
    BY <1>2 DEF Begins
  <2>2. PICK k : k = Rank(E, d[r]) + 1
    OBVIOUS
  <2>3. k \in 1 .. c /\ Cut(f)[k - 1] = d[r]
    BY <2>1, <2>2, BeginCut
  <2>4. PICK e \in 0 .. Len(f) : Holds(f, d[r], e, h[r])
    BY <1>2
  <2>5. h[r] \in Line
    BY ElementOfSeq
  <2>6. TellsLine(f, k, h[r])
    BY <2>3, <2>4, <2>5, HoldsTells
  <2> QED BY <2>2, <2>3, <2>6
<1>6. q \in [1 .. n -> 1 .. c]
  BY <1>5
<1> HIDE DEF q
<1>7. ASSUME NEW r \in 1 .. n, NEW x \in 1 .. n, r < x PROVE q[r] < q[x]
  <2>1. d[r] < d[x] /\ d[r] \in Nat /\ d[x] \in Nat
    BY <1>2, <1>7
  <2>2. q[r] - 1 \in 0 .. c /\ q[x] - 1 \in 0 .. c /\ q[r] \in Nat /\ q[x] \in Nat
    <3>1. q[r] \in 1 .. c /\ q[x] \in 1 .. c
      BY <1>5
    <3> QED BY <1>3, <3>1
  <2>3. Cut(f)[q[r] - 1] = d[r] /\ Cut(f)[q[x] - 1] = d[x]
    BY <1>5
  <2>4. CASE q[x] < q[r]
    <3>1. q[x] - 1 < q[r] - 1
      BY <2>2, <2>4
    <3>2. Cut(f)[q[x] - 1] < Cut(f)[q[r] - 1]
      BY <2>2, <3>1, CutsGrow
    <3> QED BY <2>1, <2>3, <3>2
  <2>5. CASE q[x] = q[r]
    BY <2>1, <2>3, <2>5
  <2> QED BY <2>2, <2>4, <2>5
<1>8. ASSUME NEW k \in 1 .. c, Stamped(SplitLines(f)[k]) PROVE \E r \in 1 .. n : k = q[r]
  <2>1. Cut(f)[k - 1] \in Begins(f)
    BY <1>8, StampedBegins
  <2>2. PICK r \in 1 .. n : Cut(f)[k - 1] = d[r]
    BY <1>2, <2>1
  <2>3. k - 1 \in 0 .. c
    BY <1>3
  <2>4. Rank(E, Cut(f)[k - 1]) = k - 1
    BY <2>3, CutsByRank
  <2>5. Rank(E, d[r]) = k - 1
    BY <2>2, <2>4
  <2>6. (k - 1) + 1 = k
    BY <1>3
  <2>7. q[r] = k
    BY <1>5, <2>5, <2>6
  <2> QED BY <2>7
<1>9. LinesTell(f, h, q)
  BY <1>4, <1>5, <1>6, <1>7, <1>8 DEF LinesTell
<1> QED BY <1>9

\* The lines said in a window
SaidIn(h, since, until) ==
  {k \in DOMAIN h : h[k].text # <<>> /\ Complete(h[k].text) /\ In(h[k].at, since, until)}

\* Lines in the order of their times, one by one, are so altogether.
LEMMA OrderHolds ==
  ASSUME NEW h \in Seq(Line), \A k \in DOMAIN h : k > 1 => h[k - 1].at <= h[k].at,
         NEW j \in 1 .. Len(h), NEW k \in 1 .. Len(h), j <= k
  PROVE  h[j].at <= h[k].at
<1> DEFINE S == {m \in Nat : j + m <= Len(h) => h[j].at <= h[j + m].at}
<1>1. Len(h) \in Nat /\ DOMAIN h = 1 .. Len(h) /\ \A x \in 1 .. Len(h) : h[x].at \in Nat
  <2>1. \A x \in 1 .. Len(h) : h[x] \in Line
    BY ElementOfSeq
  <2> QED BY <2>1, LenProperties, ConstantTypes, SMTT(40) DEF Line
<1>2. 0 \in S
  <2>1. j + 0 = j
    OBVIOUS
  <2> QED BY <1>1, <2>1
<1>3. ASSUME NEW m \in Nat, m \in S PROVE m + 1 \in S
  <2> SUFFICES ASSUME j + (m + 1) <= Len(h) PROVE h[j].at <= h[j + (m + 1)].at
    OBVIOUS
  <2>1. /\ j + m <= Len(h) /\ j + m \in 1 .. Len(h) /\ j + (m + 1) \in 1 .. Len(h)
        /\ j + (m + 1) > 1 /\ (j + (m + 1)) - 1 = j + m
    BY <1>1
  <2>2. h[j].at <= h[j + m].at
    BY <1>3, <2>1
  <2>3. h[j + m].at <= h[j + (m + 1)].at
    BY <1>1, <2>1
  <2>4. h[j].at \in Nat /\ h[j + m].at \in Nat /\ h[j + (m + 1)].at \in Nat
    BY <1>1, <2>1
  <2> HIDE DEF S
  <2> QED BY <2>2, <2>3, <2>4
<1>4. Nat \subseteq S
  <2> HIDE DEF S
  <2> QED BY <1>2, <1>3, SetInduction
<1>5. k - j \in Nat /\ j + (k - j) = k /\ j + (k - j) <= Len(h)
  BY <1>1
<1>6. k - j \in S
  <2> HIDE DEF S
  <2> QED BY <1>4, <1>5
<1> QED BY <1>5, <1>6

\* What a stamped line is to the filter.
LEMMA TellsFacts ==
  ASSUME NEW f, NEW k, NEW s \in Line, TellsLine(f, k, s)
  PROVE  LET l == SplitLines(f)[k]
         IN  /\ Stamped(l) /\ ParseMsPrefix(l) # None
             /\ ParseMsPrefix(l).ts = s.at /\ ParseMsPrefix(l).body = 4
             /\ From(l, 4) = s.text
             /\ Complete(l) <=> s.text # <<>> /\ Complete(s.text)
<1> DEFINE l == SplitLines(f)[k]
<1>1. /\ ParseMsPrefix(l) = [ts |-> s.at, body |-> 4] /\ From(l, 4) = s.text
      /\ Complete(l) <=> s.text # <<>> /\ Complete(s.text)
  BY DEF TellsLine
<1>2. s.at \in Nat
  BY ConstantTypes DEF Line
<1> HIDE DEF l
<1>3. [ts |-> s.at, body |-> 4] \in [ts : Nat, body : Nat]
  BY <1>2
<1>4. ParseMsPrefix(l) # None
  BY <1>1, <1>3, NoneAssumption
<1>5. ParseMsPrefix(l).ts = s.at /\ ParseMsPrefix(l).body = 4
  BY <1>1
<1> QED BY <1>1, <1>4, <1>5 DEF Stamped, l

\* Of the lines that were said, the filter takes those of the window.
LEMMA WindowTakes ==
  ASSUME NEW f \in Seq(Bytes), NEW h \in Seq(Line), NEW q, LinesTell(f, h, q),
         \A k \in DOMAIN h : k > 1 => h[k - 1].at <= h[k].at,
         NEW since \in Times, NEW until \in Times,
         NEW k \in 1 .. Len(SplitLines(f))
  PROVE  LET lines == SplitLines(f)
             seen == StampedLines(f) \cap UpToLate(lines, since, until)
         IN  k \in seen /\ ~ Early(ParseMsPrefix(lines[k]).ts, since)
               <=> \E r \in SaidIn(h, since, until) : k = q[r]
<1> DEFINE lines == SplitLines(f)
           n == Len(h)
           late == {j \in DOMAIN lines :
                      LET p == ParseMsPrefix(lines[j])
                      IN  p # None /\ ~ Early(p.ts, since) /\ Late(p.ts, until)}
<1>1. n \in Nat /\ DOMAIN h = 1 .. n /\ \A r \in 1 .. n : h[r] \in Line /\ h[r].at \in Nat
  <2>1. \A x \in 1 .. Len(h) : h[x] \in Line
    BY ElementOfSeq
  <2> QED BY <2>1, LenProperties, ConstantTypes, SMTT(40) DEF Line
<1>2. Len(lines) \in Nat /\ DOMAIN lines = 1 .. Len(lines)
  <2>1. lines \in Seq(Seq(Bytes))
    BY LinesAre
  <2> HIDE DEF lines
  <2> QED BY <2>1, LenProperties
<1>3. /\ q \in [1 .. n -> 1 .. Len(lines)]
      /\ \A r, x \in 1 .. n : r < x => q[r] < q[x]
      /\ \A r \in 1 .. n : TellsLine(f, q[r], h[r])
      /\ \A j \in 1 .. Len(lines) : Stamped(lines[j]) => \E r \in 1 .. n : j = q[r]
  BY DEF LinesTell
<1>4. \A r \in 1 .. n :
        /\ Stamped(lines[q[r]]) /\ ParseMsPrefix(lines[q[r]]) # None
        /\ ParseMsPrefix(lines[q[r]]).ts = h[r].at
        /\ Complete(lines[q[r]]) <=> h[r].text # <<>> /\ Complete(h[r].text)
  BY <1>1, <1>3, TellsFacts
<1>5. UpToLate(lines, since, until) = {j \in DOMAIN lines : \A x \in late : j < x}
  BY DEF UpToLate
<1>6. StampedLines(f) = {j \in DOMAIN lines : Complete(lines[j]) /\ Stamped(lines[j])}
  BY DEF StampedLines
<1>7. (since = None \/ since \in Nat) /\ (until = None \/ until \in Nat)
  BY ConstantTypes DEF Times
<1>8. \A t \in Nat : In(t, since, until) <=> ~ Early(t, since) /\ ~ Late(t, until)
  BY <1>7 DEF In, Early, Late
<1>9. SaidIn(h, since, until) =
        {r \in 1 .. n : h[r].text # <<>> /\ Complete(h[r].text) /\ In(h[r].at, since, until)}
  BY <1>1 DEF SaidIn
<1>10. ASSUME NEW r \in 1 .. n, k = q[r], k \in StampedLines(f), k \in UpToLate(lines, since, until),
              ~ Early(ParseMsPrefix(lines[k]).ts, since)
       PROVE  r \in SaidIn(h, since, until)
  <2>1. ParseMsPrefix(lines[k]).ts = h[r].at /\ ParseMsPrefix(lines[k]) # None
    BY <1>4, <1>10
  <2>2. ~ Late(h[r].at, until)
    <3> SUFFICES ASSUME Late(h[r].at, until) PROVE FALSE
      OBVIOUS
    <3>1. k \in late
      BY <1>2, <1>10, <2>1
    <3>2. k < k
      BY <1>5, <1>10, <3>1
    <3> QED BY <1>2, <3>2
  <2>3. h[r].text # <<>> /\ Complete(h[r].text)
    BY <1>4, <1>6, <1>10
  <2>4. ~ Early(h[r].at, since)
    BY <1>10, <2>1
  <2> QED BY <1>1, <1>8, <1>9, <2>2, <2>3, <2>4
<1>11. ASSUME NEW r \in SaidIn(h, since, until), k = q[r]
       PROVE  /\ k \in StampedLines(f) /\ k \in UpToLate(lines, since, until)
              /\ ~ Early(ParseMsPrefix(lines[k]).ts, since)
  <2>1. /\ r \in 1 .. n /\ h[r].text # <<>> /\ Complete(h[r].text)
        /\ ~ Early(h[r].at, since) /\ ~ Late(h[r].at, until)
    BY <1>1, <1>8, <1>9
  <2>2. k \in StampedLines(f)
    BY <1>2, <1>4, <1>6, <1>11, <2>1
  <2>3. ASSUME NEW x \in late PROVE k < x
    <3>1. x \in 1 .. Len(lines) /\ Stamped(lines[x]) /\ Late(ParseMsPrefix(lines[x]).ts, until)
      BY <1>2 DEF Stamped
    <3>2. PICK y \in 1 .. n : x = q[y]
      BY <1>3, <3>1
    <3>3. Late(h[y].at, until)
      BY <1>4, <3>1, <3>2
    <3>4. ~ (y <= r)
      <4> SUFFICES ASSUME y <= r PROVE FALSE
        OBVIOUS
      <4>1. h[y].at <= h[r].at
        BY <2>1, OrderHolds
      <4>2. h[y].at \in Nat /\ h[r].at \in Nat
        BY <1>1, <2>1
      <4> QED BY <1>7, <2>1, <3>3, <4>1, <4>2, SMTT(40) DEF Late
    <3>5. r < y
      BY <1>1, <2>1, <3>2, <3>4
    <3> QED BY <1>3, <1>11, <2>1, <3>2, <3>5
  <2>4. k \in UpToLate(lines, since, until)
    BY <1>2, <1>5, <2>3
  <2>5. ~ Early(ParseMsPrefix(lines[k]).ts, since)
    BY <1>4, <1>11, <2>1
  <2> QED BY <2>2, <2>4, <2>5
<1>12. ASSUME k \in StampedLines(f) PROVE \E r \in 1 .. n : k = q[r]
  BY <1>3, <1>6, <1>12
<1> HIDE DEF late
<1> QED BY <1>10, <1>11, <1>12

\* A window over a file that tells h holds what h says of the window.
LEMMA WindowTells ==
  ASSUME NEW f \in Seq(Bytes), NEW h \in Seq(Line), Told(f, h),
         \A k \in DOMAIN h : k > 1 => h[k - 1].at <= h[k].at,
         NEW since \in Times, NEW until \in Times
  PROVE  LET lines == Picked(h, SaidIn(h, since, until))
         IN  FilterTimeWindow(f, since, until, FALSE) =
               [k \in DOMAIN lines |-> lines[k].text]
<1> DEFINE B == Seq(Bytes)
           L == SplitLines(f)
           K == SaidIn(h, since, until)
           seen == StampedLines(f) \cap UpToLate(L, since, until)
           S == {k \in seen : ~ Early(ParseMsPrefix(L[k]).ts, since)}
           kept == Picked(L, S)
           lines == Picked(h, K)
           m == Cardinality(K)
           a == Ascending(K)
<1>1. PICK q : LinesTell(f, h, q)
  BY LinesTold
<1>2. L \in Seq(B) /\ Len(L) \in Nat /\ DOMAIN L = 1 .. Len(L)
  <2>1. L \in Seq(B)
    BY LinesAre
  <2> HIDE DEF L
  <2> QED BY <2>1, LenProperties
<1>3. S \in SUBSET (1 .. Len(L))
  <2>1. S \subseteq DOMAIN L
    BY DEF StampedLines
  <2> QED BY <1>2, <2>1
<1>4. /\ Len(h) \in Nat /\ K \in SUBSET (1 .. Len(h)) /\ \A r \in 1 .. Len(h) : h[r] \in Line
  BY LenProperties, ElementOfSeq DEF SaidIn
<1>5. /\ K \in SUBSET Nat /\ IsFiniteSet(K) /\ m \in Nat
      /\ DOMAIN lines = 1 .. m
      /\ \A k \in 1 .. m : a[k] \in K /\ lines[k] = h[a[k]]
  <2> HIDE DEF K
  <2> QED BY <1>4, PickedType
<1>6. \A j, k \in 1 .. m : j < k => a[j] < a[k]
  <2> HIDE DEF K
  <2> QED BY <1>5, AscendingOrder
<1>7. \A r \in K : \E k \in 1 .. m : a[k] = r
  <2> HIDE DEF K
  <2> QED BY <1>5, AscendingAt
<1>8. ASSUME NEW k \in 1 .. Len(L) PROVE k \in S <=> \E r \in K : k = q[r]
  BY <1>1, <1>8, WindowTakes
<1>9. /\ q \in [1 .. Len(h) -> 1 .. Len(L)]
      /\ \A r, x \in 1 .. Len(h) : r < x => q[r] < q[x]
      /\ \A r \in 1 .. Len(h) : TellsLine(f, q[r], h[r])
  BY <1>1 DEF LinesTell
<1>10. FilterTimeWindow(f, since, until, FALSE) =
         [k \in DOMAIN kept |-> From(kept[k], ParseMsPrefix(kept[k]).body)]
  BY DEF FilterTimeWindow
<1> DEFINE g == [k \in 1 .. m |-> q[a[k]]]
<1> HIDE DEF L, K, S, kept, lines, m, a
<1>11. \A k \in 1 .. m : a[k] \in 1 .. Len(h) /\ g[k] = q[a[k]] /\ g[k] \in 1 .. Len(L)
  BY <1>4, <1>5, <1>9
<1>12. ListedBy(S, m, g)
  <2>1. g \in [1 .. m -> Nat]
    BY <1>2, <1>11
  <2>2. ASSUME NEW j \in 1 .. m, NEW k \in 1 .. m, j < k PROVE g[j] < g[k]
    <3>1. a[j] < a[k]
      BY <1>6, <2>2
    <3>2. q[a[j]] < q[a[k]]
      BY <1>9, <1>11, <3>1
    <3> QED BY <1>11, <3>2
  <2>3. \A k \in 1 .. m : g[k] \in S
    BY <1>5, <1>8, <1>11
  <2>4. ASSUME NEW x \in S PROVE \E k \in 1 .. m : x = g[k]
    <3>1. PICK r \in K : x = q[r]
      BY <1>3, <1>8
    <3>2. PICK k \in 1 .. m : a[k] = r
      BY <1>7, <3>1
    <3> QED BY <1>11, <3>1, <3>2
  <2> HIDE DEF g
  <2> QED BY <1>5, <2>1, <2>2, <2>3, <2>4 DEF ListedBy
<1> HIDE DEF g
<1>13. Cardinality(S) = m /\ \A k \in 1 .. m : Ascending(S)[k] = g[k]
  BY <1>12, AscendingIs
<1>14. DOMAIN kept = 1 .. m /\ \A k \in 1 .. m : kept[k] = L[g[k]]
  <2>1. DOMAIN Picked(L, S) = 1 .. Cardinality(S)
        /\ \A k \in 1 .. Cardinality(S) : Picked(L, S)[k] = L[Ascending(S)[k]]
    <3> HIDE DEF B
    <3> QED BY <1>2, <1>3, PickedType
  <2> QED BY <1>13, <2>1 DEF kept
<1>15. ASSUME NEW k \in 1 .. m PROVE From(kept[k], ParseMsPrefix(kept[k]).body) = lines[k].text
  <2>1. a[k] \in 1 .. Len(h) /\ kept[k] = L[q[a[k]]] /\ lines[k] = h[a[k]]
    BY <1>5, <1>11, <1>14
  <2>2. TellsLine(f, q[a[k]], h[a[k]]) /\ h[a[k]] \in Line
    BY <1>4, <1>9, <2>1
  <2>3. ParseMsPrefix(L[q[a[k]]]).body = 4 /\ From(L[q[a[k]]], 4) = h[a[k]].text
    BY <2>2, TellsFacts DEF L
  <2> QED BY <2>1, <2>3
<1>16. [k \in DOMAIN kept |-> From(kept[k], ParseMsPrefix(kept[k]).body)]
         = [k \in DOMAIN lines |-> lines[k].text]
  BY <1>5, <1>14, <1>15
<1> QED BY <1>10, <1>16 DEF lines, K

\* A file that tells what was said answers the readers rightly.
LEMMA SaidShows == TypeInv /\ SaidInv => WindowHoldsWhatWasSaid
<1> SUFFICES ASSUME TypeInv, SaidInv, InOrder, sealed = <<>>, Unforged,
                    NEW since \in Times, NEW until \in Times
             PROVE  LET lines == Picked(said, SaidIn(said, since, until))
                    IN  FilterTimeWindow(file, since, until, FALSE) =
                          [k \in DOMAIN lines |-> lines[k].text]
  BY DEF WindowHoldsWhatWasSaid, SaidIn
<1>1. file \in Seq(Bytes) /\ said \in Seq(Line) /\ Told(file, said)
  BY DEF TypeInv, TypeOK, Bytes, SaidInv
<1>2. \A k \in DOMAIN said : k > 1 => said[k - 1].at <= said[k].at
  BY DEF InOrder
<1> QED BY <1>1, <1>2, WindowTells, ZenonT(40)

\* Time filters show every line the daemons stamped in the window, as the child
\* said it, and no other: what write_all writes, over any chunks and restarts, the
\* readers take apart again.
THEOREM SaidInvariance == Spec => []WindowHoldsWhatWasSaid
<1>1. Init => TypeInv /\ StampInv /\ SaidInv
  BY InitType, InitStamps, InitSaid
<1>2. TypeInv /\ StampInv /\ SaidInv /\ [Next]_vars => (TypeInv /\ StampInv /\ SaidInv)'
  BY NextType, NextStamps, NextSaid
<1>3. TypeInv /\ StampInv /\ SaidInv => WindowHoldsWhatWasSaid
  BY SaidShows
<1> QED BY <1>1, <1>2, <1>3, PTL DEF Spec

-----------------------------------------------------------------------------
(* Slice, grep, tail and summary on a window. *)

\* A line goes on to the next newline.
LEMMA CutEnds ==
  ASSUME NEW f \in Seq(Bytes), NEW k \in 1 .. Cardinality(Ends(f))
  PROVE  EndsLine(f, Cut(f)[k - 1], Cut(f)[k])
<1> DEFINE E == Ends(f)
           c == Cardinality(E)
           n == Len(f)
<1>1. n \in Nat /\ DOMAIN f = 1 .. n
  BY LenProperties
<1>2. E \in SUBSET (1 .. n) /\ E \in SUBSET Nat /\ IsFiniteSet(E) /\ c \in Nat
  BY EndsFinite
<1>3. k \in 0 .. c /\ k - 1 \in 0 .. c
  BY <1>2
<1>4. PICK p \in 0 .. n, q \in 0 .. n : p = Cut(f)[k - 1] /\ q = Cut(f)[k] /\ p < q
  <2>1. Cut(f)[k - 1] \in 0 .. n /\ Cut(f)[k] \in 0 .. n /\ Cut(f)[k - 1] < Cut(f)[k]
    BY <1>3, CutsInOrder
  <2> QED BY <2>1
<1>5. q \in E /\ (q = n \/ f[q] = NL)
  <2>1. q \in E
    BY <1>4, CutsByRank
  <2> QED BY <1>1, <2>1 DEF Ends, Newlines
<1>6. ASSUME NEW x \in p + 1 .. q - 1, f[x] = NL PROVE FALSE
  <2>1. p \in Nat /\ x \in Nat /\ x \in 1 .. n /\ p <= x /\ p < x /\ x < q /\ p <= p
    <3> HIDE DEF n
    <3> QED BY <1>1, <1>4, SMTT(40)
  <2>2. x \in E
    BY <1>1, <1>6, <2>1 DEF Ends, Newlines
  <2>3. Cut(f)[k - 1] <= p /\ p < Cut(f)[k] /\ Cut(f)[k - 1] <= x /\ x < Cut(f)[k]
    BY <1>4, <2>1
  <2>4. Rank(E, p) = k - 1 /\ Rank(E, x) = k - 1
    BY <2>1, <2>3, LineOf
  <2>5. Rank(E, p) < Rank(E, x)
    BY <1>2, <2>1, <2>2, RankGrows
  <2>6. k - 1 \in Nat
    BY <1>2
  <2> QED BY <2>4, <2>5, <2>6
<1>7. q \in p + 1 .. n
  <2> HIDE DEF n
  <2> QED BY <1>1, <1>4
<1> QED BY <1>4, <1>5, <1>6, <1>7 DEF EndsLine

\* What is left of a file has the lines of the file, but for the one that is cut.
LEMMA MovedLine ==
  ASSUME NEW f \in Seq(Bytes), NEW s \in 0 .. Len(f), NEW g \in Seq(Bytes), g = From(f, s),
         NEW j \in 2 .. Cardinality(Ends(g))
  PROVE  \E k \in 1 .. Cardinality(Ends(f)) :
           Cut(f)[k] = s + Cut(g)[j] /\ SplitLines(f)[k] = SplitLines(g)[j]
<1> DEFINE n == Len(f)
           m == Len(g)
           d == Cardinality(Ends(g))
           c == Cardinality(Ends(f))
<1>1. n \in Nat /\ m \in Nat /\ d \in Nat /\ c \in Nat /\ DOMAIN f = 1 .. n /\ DOMAIN g = 1 .. m
  BY LenProperties, EndsFinite
<1>2. m = n - s /\ \A x \in 1 .. m : g[x] = f[s + x]
  <2>1. s + 1 \in 1 .. Len(f) + 1 /\ (n + 1) - (s + 1) = n - s /\ (s + 1) - 1 = s
    BY <1>1
  <2>2. /\ Len(SubSeq(f, s + 1, n)) = (n + 1) - (s + 1)
        /\ \A x \in 1 .. (n + 1) - (s + 1) : SubSeq(f, s + 1, n)[x] = f[((s + 1) - 1) + x]
    BY <2>1, Rest
  <2>3. g = SubSeq(f, s + 1, n)
    BY DEF From
  <2> QED BY <2>1, <2>2, <2>3
<1>3. j \in 1 .. d /\ j - 1 \in 1 .. d /\ j \in 0 .. d /\ j - 1 \in 0 .. d
  BY <1>1
<1>4. PICK p \in 0 .. m, q \in 0 .. m : p = Cut(g)[j - 1] /\ q = Cut(g)[j] /\ p < q
  <2>1. Cut(g)[j - 1] \in 0 .. m /\ Cut(g)[j] \in 0 .. m /\ Cut(g)[j - 1] < Cut(g)[j]
    BY <1>3, CutsInOrder
  <2> QED BY <2>1
<1>5. EndsLine(g, p, q) /\ SplitLines(g)[j] = SubSeq(g, p + 1, q)
  BY <1>3, <1>4, CutEnds, LinesAre
<1>6. p \in 1 .. m /\ g[p] = NL
  <2>1. p \in Ends(g)
    BY <1>3, <1>4, CutsByRank
  <2>2. p \in 1 .. m /\ p # m
    <3>1. p \in 1 .. m
      BY <2>1, EndsFinite
    <3> HIDE DEF m
    <3> QED BY <1>1, <1>4, <3>1
  <2> QED BY <1>1, <2>1, <2>2 DEF Ends, Newlines
<1> HIDE DEF n, m, c, d
<1>a. /\ n \in Nat /\ m \in Nat /\ s \in Nat /\ p \in Nat /\ q \in Nat
      /\ m = n - s /\ s <= n /\ p < q /\ q <= m /\ 1 <= p
  <2>1. s \in 0 .. n
    BY DEF n
  <2>2. n \in Nat /\ m \in Nat /\ m = n - s
    BY <1>1, <1>2
  <2>3. p \in 1 .. m /\ q \in 0 .. m /\ p < q
    BY <1>4, <1>6
  <2> QED BY <2>1, <2>2, <2>3
<1>7. /\ s + p \in 0 .. n - 1 /\ s + p \in 1 .. n /\ s + q \in 0 .. n
      /\ s + p < s + q /\ s + q \in (s + p) + 1 .. n /\ s + q <= n
  BY <1>a
<1>8. f[s + p] = NL
  BY <1>2, <1>6
<1>9. s + p \in LineStarts(f)
  BY <1>1, <1>7, <1>8 DEF LineStarts, n
<1>10. PICK k \in 1 .. c : Cut(f)[k - 1] = s + p
  BY <1>9, BeginCut DEF c
<1>11. EndsLine(f, s + p, s + q)
  <2>1. /\ q \in p + 1 .. m /\ (q = m \/ g[q] = NL)
        /\ \A x \in p + 1 .. q - 1 : g[x] # NL
    BY <1>5 DEF EndsLine, m
  <2>2. s + q = n \/ f[s + q] = NL
    <3>1. q \in 1 .. m /\ (q = m => s + q = n)
      BY <1>a, <2>1
    <3> QED BY <1>2, <2>1, <3>1
  <2>3. ASSUME NEW x \in (s + p) + 1 .. (s + q) - 1 PROVE f[x] # NL
    <3>1. /\ x - s \in p + 1 .. q - 1 /\ x - s \in 1 .. m /\ s + (x - s) = x
      BY <1>a
    <3> QED BY <1>2, <2>1, <3>1
  <2> QED BY <1>7, <2>2, <2>3 DEF EndsLine, n
<1>12. Cut(f)[k] = s + q
  BY <1>7, <1>10, <1>11, EndCut DEF c, n
<1>13. SplitLines(f)[k] = SubSeq(f, (s + p) + 1, s + q)
  BY <1>10, <1>12, LinesAre DEF c
<1>14. SubSeq(f, (s + p) + 1, s + q) = SubSeq(g, p + 1, q)
  <2>1. PICK w \in Nat : q = p + w /\ p \in Nat
    <3>1. q - p \in Nat /\ q = p + (q - p) /\ p \in Nat
      BY <1>a
    <3> QED BY <3>1
  <2>2. s + p \in Nat /\ (s + p) + w <= Len(f) /\ p + w <= Len(g) /\ s + q = (s + p) + w
    <3>1. Len(f) = n /\ Len(g) = m
      BY DEF n, m
    <3>2. s + p \in Nat /\ (s + p) + w <= n /\ p + w <= m /\ s + q = (s + p) + w
      BY <1>a, <2>1
    <3> QED BY <3>1, <3>2
  <2>3. LET t == SubSeq(f, (s + p) + 1, (s + p) + w)
        IN  t \in Seq(Bytes) /\ Len(t) = w /\ \A x \in 1 .. w : t[x] = f[(s + p) + x]
    BY <2>1, <2>2, Part, ZenonT(100)
  <2>4. LET t == SubSeq(g, p + 1, p + w)
        IN  t \in Seq(Bytes) /\ Len(t) = w /\ \A x \in 1 .. w : t[x] = g[p + x]
    <3>1. p \in Nat /\ w \in Nat /\ g \in Seq(Bytes) /\ p + w <= Len(g)
      BY <2>1, <2>2
    <3> QED BY <3>1, Part, ZenonT(60)
  <2>5. \A x \in 1 .. w : g[p + x] = f[(s + p) + x]
    <3>1. ASSUME NEW x \in 1 .. w PROVE p + x \in 1 .. m /\ s + (p + x) = (s + p) + x
      BY <1>a, <2>1
    <3> QED BY <1>2, <3>1
  <2> DEFINE t == SubSeq(f, (s + p) + 1, (s + p) + w)
             u == SubSeq(g, p + 1, p + w)
  <2>6. /\ t \in Seq(Bytes) /\ u \in Seq(Bytes) /\ Len(t) = Len(u)
        /\ \A x \in 1 .. Len(t) : t[x] = u[x]
    <3> HIDE DEF t, u
    <3>1. t \in Seq(Bytes) /\ Len(t) = w /\ \A x \in 1 .. w : t[x] = f[(s + p) + x]
      BY <2>3, Zenon DEF t
    <3>2. u \in Seq(Bytes) /\ Len(u) = w /\ \A x \in 1 .. w : u[x] = g[p + x]
      BY <2>4, Zenon DEF u
    <3> QED BY <2>5, <3>1, <3>2
  <2>7. t = u
    <3> HIDE DEF t, u
    <3> QED BY <2>6, SeqEqual
  <2> QED BY <2>1, <2>2, <2>7
<1>15. Cut(f)[k] = s + Cut(g)[j] /\ SplitLines(f)[k] = SplitLines(g)[j]
  BY <1>4, <1>5, <1>12, <1>13, <1>14
<1> QED BY <1>15 DEF c

\* A part of the log counts at most one line more than all of it: the one it cuts.
LEMMA PartCounts ==
  ASSUME NEW f \in Seq(Bytes), NEW s \in 0 .. Len(f), NEW g \in Seq(Bytes), g = From(f, s),
         NEW since
  PROVE  /\ Cardinality(Counted(f, since)) \in Nat /\ Cardinality(Counted(g, since)) \in Nat
         /\ Cardinality(Counted(g, since)) <= Cardinality(Counted(f, since)) + 1
<1> DEFINE C == Counted(f, since)
           D == Counted(g, since)
           c == Cardinality(Ends(f))
           d == Cardinality(Ends(g))
           R == D \ {1}
           h == [j \in R |-> CHOOSE k \in 1 .. c :
                   Cut(f)[k] = s + Cut(g)[j] /\ SplitLines(f)[k] = SplitLines(g)[j]]
<1>1. c \in Nat /\ d \in Nat /\ DOMAIN SplitLines(f) = 1 .. c /\ DOMAIN SplitLines(g) = 1 .. d
  <2> DEFINE B == Seq(Bytes)
  <2>1. SplitLines(f) \in Seq(B) /\ SplitLines(g) \in Seq(B)
    BY LinesAre
  <2>2. Len(SplitLines(f)) = c /\ Len(SplitLines(g)) = d
    BY LinesAre
  <2> HIDE DEF B
  <2> QED BY <2>1, <2>2, EndsFinite, LenProperties
<1>2. C \in SUBSET (1 .. c) /\ D \in SUBSET (1 .. d) /\ R \in SUBSET (2 .. d)
  BY <1>1 DEF Counted
<1>3. IsFiniteSet(C) /\ IsFiniteSet(D) /\ Cardinality(C) \in Nat /\ Cardinality(D) \in Nat
  <2>1. IsFiniteSet(1 .. c) /\ IsFiniteSet(1 .. d)
    BY <1>1, FS_Interval
  <2>2. IsFiniteSet(C) /\ IsFiniteSet(D)
    BY <1>2, <2>1, FS_Subset
  <2> QED BY <2>2, FS_CardinalityType
<1>4. \A j \in R : /\ h[j] \in 1 .. c
                   /\ Cut(f)[h[j]] = s + Cut(g)[j] /\ SplitLines(f)[h[j]] = SplitLines(g)[j]
  <2> SUFFICES ASSUME NEW j \in R
               PROVE  /\ h[j] \in 1 .. c
                      /\ Cut(f)[h[j]] = s + Cut(g)[j] /\ SplitLines(f)[h[j]] = SplitLines(g)[j]
    OBVIOUS
  <2>1. j \in 2 .. d
    BY <1>2
  <2>2. \E k \in 1 .. c : Cut(f)[k] = s + Cut(g)[j] /\ SplitLines(f)[k] = SplitLines(g)[j]
    BY <2>1, MovedLine
  <2>3. h[j] = CHOOSE k \in 1 .. c :
                 Cut(f)[k] = s + Cut(g)[j] /\ SplitLines(f)[k] = SplitLines(g)[j]
    OBVIOUS
  <2> HIDE DEF h, c
  <2> QED BY <2>2, <2>3
<1>5. h \in [R -> C]
  <2>1. ASSUME NEW j \in R PROVE h[j] \in C
    <3> HIDE DEF h
    <3>1. h[j] \in 1 .. c /\ SplitLines(f)[h[j]] = SplitLines(g)[j] /\ j \in D
      BY <1>4
    <3> QED BY <1>1, <3>1 DEF Counted
  <2> QED BY <2>1
<1>6. \A i1, i2 \in R : h[i1] = h[i2] => i1 = i2
  <2> SUFFICES ASSUME NEW i1 \in R, NEW i2 \in R, h[i1] = h[i2] PROVE i1 = i2
    OBVIOUS
  <2>1. i1 \in 0 .. d /\ i2 \in 0 .. d /\ i1 \in Nat /\ i2 \in Nat
    BY <1>1, <1>2
  <2>2. s + Cut(g)[i1] = s + Cut(g)[i2]
    <3> HIDE DEF h
    <3> QED BY <1>4
  <2>3. Cut(g)[i1] \in Nat /\ Cut(g)[i2] \in Nat /\ s \in Nat
    <3>1. Cut(g)[i1] \in 0 .. Len(g) /\ Cut(g)[i2] \in 0 .. Len(g)
      BY <2>1, CutsInOrder
    <3> QED BY <3>1, LenProperties
  <2>4. Cut(g)[i1] = Cut(g)[i2]
    BY <2>2, <2>3
  <2>5. ~ (i1 < i2) /\ ~ (i2 < i1)
    <3>1. (i1 < i2 => Cut(g)[i1] < Cut(g)[i2]) /\ (i2 < i1 => Cut(g)[i2] < Cut(g)[i1])
      BY <2>1, CutsGrow
    <3> QED BY <2>3, <2>4, <3>1
  <2> QED BY <2>1, <2>5
<1> HIDE DEF h, C, D
<1>7. Cardinality(R) <= Cardinality(C) /\ Cardinality(R) \in Nat
  <2>1. h \in Injection(R, C)
    BY <1>5, <1>6 DEF Injection, IsInjective
  <2>2. IsFiniteSet(R) /\ Cardinality(R) <= Cardinality(C)
    BY <1>3, <2>1, FS_Injection
  <2> QED BY <2>2, FS_CardinalityType
<1>8. Cardinality(R) = IF 1 \in D THEN Cardinality(D) - 1 ELSE Cardinality(D)
  BY <1>3, FS_RemoveElement
<1>9. Cardinality(D) <= Cardinality(C) + 1
  BY <1>3, <1>7, <1>8
<1> QED BY <1>3, <1>9 DEF C, D

\* What is left of a file from a place on is a file; from its start, it is all of it.
LEMMA FromIs ==
  ASSUME NEW f \in Seq(Bytes), NEW s \in 0 .. Len(f)
  PROVE  From(f, s) \in Seq(Bytes) /\ From(f, 0) = f
<1>1. Len(f) \in Nat
  BY LenProperties
<1>2. s + 1 \in 1 .. Len(f) + 1
  BY <1>1
<1>3. SubSeq(f, s + 1, Len(f)) \in Seq(Bytes)
  BY <1>2, Rest
<1>4. SubSeq(f, 1, Len(f)) = f
  BY SubSeqFull
<1> QED BY <1>3, <1>4 DEF From

\* summary counts what tail shows.
LEMMA SummaryHolds ==
  ASSUME file \in Seq(Bytes), NEW since, NEW shown,
         shown = FilterTimeWindow(file, since, None, TRUE)
  PROVE  SummaryAgrees(since, shown)
<1> DEFINE err == <<"m">>
           counted == Len(shown) + Cardinality(Bare(file))
           errors == Matching(file, shown, err)
           n == Len(file)
           s == IF 6 >= n THEN 0 ELSE n - 6
           g == From(file, s)
<1>1. n \in Nat /\ s \in 0 .. n
  <2>1. n \in Nat
    BY LenProperties
  <2> HIDE DEF n
  <2> QED BY <2>1
<1>2. g \in Seq(Bytes) /\ From(file, 0) = file
  BY <1>1, FromIs
<1>3. /\ Cardinality(Counted(file, since)) = counted
      /\ Cardinality(Erroneous(file, since, err)) = errors
  BY WholeTallies
<1> HIDE DEF err, counted, errors, s, g
<1>4. ScanRecent(file, since, n, err, <<NL>>) = Tally(file, since, err)
  <2>1. file = From(file, IF n >= n THEN 0 ELSE n - n)
    BY <1>1, <1>2
  <2> QED BY <2>1, ScanTallies
<1>5. ScanRecent(file, since, 6, err, <<NL>>) = Tally(g, since, err)
  BY <1>2, ScanTallies DEF g, s
<1>6. /\ Cardinality(Counted(file, since)) \in Nat /\ Cardinality(Counted(g, since)) \in Nat
      /\ Cardinality(Counted(g, since)) <= Cardinality(Counted(file, since)) + 1
  BY <1>1, <1>2, PartCounts DEF g
<1>7. ScanRecent(file, since, n, err, <<NL>>) =
        [lines_scanned |-> counted, errors |-> errors, warnings |-> counted - errors]
  BY <1>3, <1>4 DEF Tally
<1>8. ScanRecent(file, since, 6, err, <<NL>>).lines_scanned = Cardinality(Counted(g, since))
  BY <1>5 DEF Tally
<1>9. ScanRecent(file, since, 6, err, <<NL>>).lines_scanned \in 0 .. counted + 1
  BY <1>3, <1>6, <1>8
<1> QED BY <1>7, <1>9 DEF SummaryAgrees, Bare, Matching, err, counted, errors

\* slice prints what tail does.
LEMMA SliceIsTail ==
  ASSUME NEW f, NEW since, NEW until, since # None \/ until # None
  PROVE  TimeSlice(f, since, until, TRUE) = TimeWindow(f, since, until, TRUE, Cap(None, FALSE))
<1> DEFINE w == FilterTimeWindow(f, since, until, TRUE)
<1>1. PostFilterCap(w, Cap(None, FALSE)) = w
  BY DEF PostFilterCap, Cap
<1>2. \A t : Cleaned(t, Cap(None, FALSE)) = t
  BY DEF Cleaned, Cap
<1> HIDE DEF w
<1>3. CASE StampedLines(f) = {}
  <2>1. TimeSlice(f, since, until, TRUE) = None
    BY <1>3 DEF TimeSlice
  <2> QED BY <1>3, <2>1 DEF TimeWindow
<1>4. CASE StampedLines(f) # {}
  <2>1. TimeSlice(f, since, until, TRUE) = FlattenSeq(w)
    BY <1>4 DEF TimeSlice, w
  <2>2. TimeWindow(f, since, until, TRUE, Cap(None, FALSE)) =
          Cleaned(FlattenSeq(PostFilterCap(w, Cap(None, FALSE))), Cap(None, FALSE))
    BY <1>4 DEF TimeWindow, w
  <2> QED BY <1>1, <1>2, <2>1, <2>2
<1> QED BY <1>3, <1>4

\* the lines of a window that grep finds
Found(f, since, until, pattern) ==
  LET L == SplitLines(f)
  IN  {k \in UpToLate(L, since, until) :
         /\ InTime(ParseMsPrefix(L[k]), since)
         /\ IsMatch(pattern, Chomp(From(L[k], ParseMsPrefix(L[k]).body)))}

\* the lines that grep shows of a window
GrepLines(f, since, until, pattern) ==
  LET hits == CollectHits(f, [pattern |-> pattern, since |-> since, until |-> until,
                              full |-> FALSE, limit |-> None])
  IN  [k \in DOMAIN hits |-> SplitLines(f)[hits[k] + 1]]

\* Without a limit, grep shows what it finds.
LEMMA GrepFinds ==
  ASSUME NEW A, NEW f \in Seq(A), NEW since, NEW until, since # None \/ until # None,
         NEW pattern
  PROVE  /\ Found(f, since, until, pattern) \in SUBSET (1 .. Len(SplitLines(f)))
         /\ GrepLines(f, since, until, pattern) =
              Picked(SplitLines(f), Found(f, since, until, pattern))
<1> DEFINE L == SplitLines(f)
           H == Found(f, since, until, pattern)
           o == [pattern |-> pattern, since |-> since, until |-> until,
                 full |-> FALSE, limit |-> None]
           hits == CollectHits(f, o)
           lines == [k \in DOMAIN hits |-> L[hits[k] + 1]]
           hit(line) == LET p == ParseMsPrefix(line)
                        IN  /\ InTime(p, since)
                            /\ IsMatch(pattern, Chomp(IF p = None THEN line ELSE From(line, p.body)))
           G == {k \in UpToLate(L, since, until) : hit(L[k])}
           found == Ascending(G)
           B == Seq(A)
<1>1. L \in Seq(B)
  BY LinesAre
<1>2. Len(L) \in Nat /\ DOMAIN L = 1 .. Len(L)
  <2> HIDE DEF L, B
  <2> QED BY <1>1, LenProperties
<1>3. H = G
  <2>1. ASSUME NEW line
        PROVE  hit(line) <=> /\ InTime(ParseMsPrefix(line), since)
                             /\ IsMatch(pattern, Chomp(From(line, ParseMsPrefix(line).body)))
    BY DEF InTime
  <2> HIDE DEF hit, L
  <2> QED BY <2>1 DEF Found, L
<1>4. hits = [k \in 1 .. Min({Len(found), Len(found)}) |-> found[k] - 1]
  BY DEF CollectHits
<1>a. GrepLines(f, since, until, pattern) = lines
  BY DEF GrepLines
<1> HIDE DEF hit, hits
<1>5. G \in SUBSET (1 .. Len(L))
  BY <1>2 DEF UpToLate
<1> DEFINE m == Cardinality(G)
<1>6. /\ G \in SUBSET Nat /\ IsFiniteSet(G) /\ m \in Nat
  <2> HIDE DEF G, L, B
  <2> QED BY <1>1, <1>5, PickedType
<1> HIDE DEF G
<1>7. DOMAIN found = 1 .. m /\ Len(found) = m /\ \A k \in 1 .. m : found[k] \in Nat
  <2>1. DOMAIN found = 1 .. m /\ \A k \in 1 .. m : found[k] \in G
    BY <1>6, AscendingOrder
  <2>2. Len(found) = m
    BY <1>6 DEF Ascending
  <2> QED BY <1>6, <2>1, <2>2
<1> HIDE DEF found, m
<1>8. Min({m, m}) = m
  BY <1>6, MinOfTwo
<1>9. hits = [k \in 1 .. m |-> found[k] - 1]
  BY <1>4, <1>7, <1>8
<1>10. DOMAIN hits = 1 .. m /\ \A k \in 1 .. m : hits[k] + 1 = found[k]
  <2>1. \A x \in Nat : (x - 1) + 1 = x
    OBVIOUS
  <2>2. DOMAIN hits = 1 .. m /\ \A k \in 1 .. m : hits[k] = found[k] - 1
    BY <1>9
  <2> QED BY <1>7, <2>1, <2>2
<1> HIDE DEF L
<1>11. lines = [k \in 1 .. m |-> L[found[k]]]
  <2>1. lines = [k \in DOMAIN hits |-> L[hits[k] + 1]]
    BY DEF L
  <2> QED BY <1>10, <2>1
<1>12. Picked(L, G) = [k \in 1 .. m |-> L[found[k]]]
  BY DEF Picked, found, m
<1> QED BY <1>a, <1>3, <1>5, <1>11, <1>12 DEF L

\* the complete ones of lines are those shown with a b in what was said
GrepShown(lines, shown, b) ==
  Picked(lines, {k \in DOMAIN lines : Complete(lines[k])}) =
    Picked(shown, {k \in DOMAIN shown :
                     IsMatch(<<b>>, From(shown[k], ParseMsPrefix(shown[k]).body))})

\* What grep finds in complete lines is what tail shows and matches.
LEMMA GrepShows ==
  ASSUME NEW A, NEW f \in Seq(A), NEW since, NEW until, since # None \/ until # None,
         NEW b, b # NL, NEW lines, lines = GrepLines(f, since, until, <<b>>),
         NEW shown, shown = FilterTimeWindow(f, since, until, TRUE)
  PROVE  GrepShown(lines, shown, b)
<1> DEFINE L == SplitLines(f)
           H == Found(f, since, until, <<b>>)
           W == WindowLines(f, since, until)
           T == {k \in H : Complete(L[k])}
           U == {k \in W : IsMatch(<<b>>, From(L[k], ParseMsPrefix(L[k]).body))}
           B == Seq(A)
           X == {k \in DOMAIN lines : Complete(lines[k])}
           Y == {k \in DOMAIN shown :
                   IsMatch(<<b>>, From(shown[k], ParseMsPrefix(shown[k]).body))}
<1>1. H \in SUBSET (1 .. Len(L)) /\ lines = Picked(L, H)
  <2> HIDE DEF T, U, X, Y, W
  <2> QED BY GrepFinds, ZenonT(40)
<1>2. /\ W \in SUBSET (1 .. Len(L)) /\ Len(L) \in Nat /\ DOMAIN L = 1 .. Len(L)
      /\ Len(L) = Cardinality(Ends(f)) /\ shown = Picked(L, W)
  BY WindowIs, ZenonT(100)
<1>3. L \in Seq(B)
  BY LinesAre
<1>4. T \in SUBSET H /\ U \in SUBSET W
  OBVIOUS
<1>5. T = U
  <2>1. \A k : k \in H <=> /\ k \in UpToLate(L, since, until)
                           /\ InTime(ParseMsPrefix(L[k]), since)
                           /\ IsMatch(<<b>>, Chomp(From(L[k], ParseMsPrefix(L[k]).body)))
    BY DEF Found
  <2>2. \A k : k \in W <=> /\ k \in UpToLate(L, since, until) /\ k \in DOMAIN L
                           /\ Complete(L[k]) /\ Stamped(L[k])
                           /\ ~ Early(ParseMsPrefix(L[k]).ts, since)
    BY DEF WindowLines, StampedLines
  <2>3. \A k \in UpToLate(L, since, until) : k \in DOMAIN L
    BY DEF UpToLate
  <2>4. ASSUME NEW k \in DOMAIN L, Stamped(L[k])
        PROVE  IsMatch(<<b>>, Chomp(From(L[k], ParseMsPrefix(L[k]).body)))
                 <=> IsMatch(<<b>>, From(L[k], ParseMsPrefix(L[k]).body))
    <3>1. L[k] \in Seq(A)
      BY <1>2, LineFull
    <3>2. Body(L[k]) \in Seq(A) /\ Body(L[k]) = From(L[k], ParseMsPrefix(L[k]).body)
      BY <2>4, <3>1, BodyIs DEF Body
    <3> QED BY <3>2, MatchChomped
  <2>5. \A k : InTime(ParseMsPrefix(L[k]), since)
                 <=> Stamped(L[k]) /\ ~ Early(ParseMsPrefix(L[k]).ts, since)
    BY DEF InTime, Stamped
  <2> HIDE DEF L, H, W
  <2>6. \A k : k \in T <=> k \in U
    BY <2>1, <2>2, <2>3, <2>4, <2>5
  <2> HIDE DEF T, U
  <2> QED BY <2>6
<1> HIDE DEF B, T, U, L, H, W
<1>6. Shows(lines, L, H, T) /\ Shows(shown, L, W, U)
  BY <1>1, <1>2, <1>3, <1>4, CountShown
<1>7. X = PlacesIn(H, T)
  <2>1. \A k \in DOMAIN lines : k \in PlacesIn(H, T) <=> Complete(lines[k])
    <3>1. \A j \in H : j \in T <=> Complete(L[j])
      BY DEF T
    <3> QED BY <1>6, <3>1 DEF Shows
  <2>2. PlacesIn(H, T) \in SUBSET DOMAIN lines
    BY <1>6 DEF Shows
  <2> QED BY <2>1, <2>2
<1>8. Y = PlacesIn(W, U)
  <2>1. \A k \in DOMAIN shown : k \in PlacesIn(W, U)
          <=> IsMatch(<<b>>, From(shown[k], ParseMsPrefix(shown[k]).body))
    <3>1. \A j \in W : j \in U <=> IsMatch(<<b>>, From(L[j], ParseMsPrefix(L[j]).body))
      BY DEF U
    <3> QED BY <1>6, <3>1 DEF Shows
  <2>2. PlacesIn(W, U) \in SUBSET DOMAIN shown
    BY <1>6 DEF Shows
  <2> QED BY <2>1, <2>2
<1>9. Picked(Picked(L, H), PlacesIn(H, T)) = Picked(L, T)
  BY <1>1, <1>3, <1>4, PickedAgain
<1>10. Picked(Picked(L, W), PlacesIn(W, U)) = Picked(L, U)
  BY <1>2, <1>3, <1>4, PickedAgain
<1> HIDE DEF X, Y
<1>11. Picked(lines, X) = Picked(shown, Y)
  BY <1>1, <1>2, <1>5, <1>7, <1>8, <1>9, <1>10
<1> QED BY <1>11 DEF X, Y, GrepShown

\* The readers agree on every file of bytes.
LEMMA ReadersAgree == TypeInv => WindowsAgree
<1> SUFFICES ASSUME TypeInv, NEW since \in Times, NEW until \in Times,
                    since # None \/ until # None,
                    NEW shown, shown = FilterTimeWindow(file, since, until, TRUE)
             PROVE  /\ TimeSlice(file, since, until, TRUE) =
                         TimeWindow(file, since, until, TRUE, Cap(None, FALSE))
                    /\ until = None => SummaryAgrees(since, shown)
                    /\ GrepAgrees(since, until, shown)
  BY DEF WindowsAgree
<1>1. file \in Seq(Bytes)
  BY TypeParts DEF FilesType
<1>2. TimeSlice(file, since, until, TRUE) =
        TimeWindow(file, since, until, TRUE, Cap(None, FALSE))
  BY SliceIsTail
<1>3. until = None => SummaryAgrees(since, shown)
  BY <1>1, SummaryHolds
<1>4. GrepAgrees(since, until, shown)
  <2>1. ASSUME NEW b \in Text \ {NL} PROVE GrepShown(GrepLines(file, since, until, <<b>>), shown, b)
    <3>1. b # NL
      OBVIOUS
    <3> QED BY <1>1, <3>1, GrepShows
  <2> QED BY <2>1 DEF GrepAgrees, GrepShown, GrepLines
<1> QED BY <1>2, <1>3, <1>4

\* Slice, grep, tail and summary agree on a time window (WindowsAgree), whatever
\* is said, stamped or not, and in whatever order the clocks ran.
THEOREM AgreeInvariance == Spec => []WindowsAgree
<1>1. Init => TypeInv
  BY InitType
<1>2. TypeInv /\ [Next]_vars => TypeInv'
  BY NextType
<1>3. TypeInv => WindowsAgree
  BY ReadersAgree
<1> QED BY <1>1, <1>2, <1>3, PTL DEF Spec
=============================================================================
