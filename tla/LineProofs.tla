----------------------------- MODULE LineProofs -----------------------------
(***************************************************************************)
(* What the line of an event says, for every event, memory, table and      *)
(* option: if the process leaves its memory alone the line is the          *)
(* rendering of that memory, and whatever the process does its numbers can *)
(* be read back.                                                           *)
(***************************************************************************)
EXTENDS DecoderProofs

-----------------------------------------------------------------------------
(***************************************************************************)
(* Recursive functions: sums, and sequences put together.                  *)
(***************************************************************************)

\* A function on 0 .. N that makes a step from each value in A is an iteration.
LEMMA IterationIs ==
  ASSUME NEW A, NEW a0 \in A, NEW N \in Nat, NEW step \in [1 .. N -> [A -> A]], NEW g,
         g = [i \in 0 .. N |-> g[i]], g[0] = a0,
         \A i \in 1 .. N : g[i - 1] \in A => g[i] = step[i][g[i - 1]]
  PROVE  IsIteration(g, A, a0, N, step)
<1> DEFINE S == {n \in 0 .. N : g[n] \in A}
<1>1. 0 \in S
  OBVIOUS
<1>2. ASSUME NEW n \in 0 .. N - 1, n \in S PROVE n + 1 \in S
  <2>1. n + 1 \in 1 .. N /\ (n + 1) - 1 = n /\ g[n] \in A
    BY <1>2
  <2>2. g[n + 1] = step[n + 1][g[n]]
    BY <2>1
  <2> QED BY <2>1, <2>2
<1> HIDE DEF S
<1>3. \A n \in 0 .. N : n \in S
  BY <1>1, <1>2, SetInduction
<1>4. \A n \in 0 .. N : g[n] \in A
  BY <1>3 DEF S
<1>5. \A i \in 1 .. N : i - 1 \in 0 .. N
  OBVIOUS
<1> QED BY <1>4, <1>5 DEF IsIteration

\* Sums adds the numbers up.
LEMMA SumsIs ==
  ASSUME NEW s \in Seq(Int)
  PROVE  /\ Sums(s) \in [0 .. Len(s) -> Int] /\ Sums(s)[0] = 0
         /\ \A i \in 1 .. Len(s) : Sums(s)[i] = Sums(s)[i - 1] + s[i]
<1> DEFINE N == Len(s)
           step == [i \in 1 .. N |-> [x \in Int |-> x + s[i]]]
           F(f) == [i \in 0 .. N |-> IF i = 0 THEN 0 ELSE f[i - 1] + s[i]]
           g == CHOOSE h : h = F(h)
<1>1. N \in Nat /\ \A i \in 1 .. N : s[i] \in Int
  OBVIOUS
<1>2. step \in [1 .. N -> [Int -> Int]] /\ 0 \in Int
  BY <1>1
<1>3. \A i \in 1 .. N : \A x \in Int : step[i][x] = x + s[i]
  OBVIOUS
<1> HIDE DEF step
<1>4. PICK f : IsIteration(f, Int, 0, N, step)
  BY <1>1, <1>2, IterationExists
<1>5. ASSUME NEW i \in 1 .. N PROVE f[i] = f[i - 1] + s[i]
  <2>1. f[i - 1] \in Int /\ f[i] = step[i][f[i - 1]]
    BY <1>1, <1>4 DEF IsIteration
  <2> QED BY <1>3, <2>1
<1>6. f = F(f)
  BY <1>1, <1>4, <1>5 DEF IsIteration
<1>7. g = F(g)
  BY <1>6, Zenon
<1>8. Sums(s) = g
  BY DEF Sums
<1> HIDE DEF g
<1>9. g = [i \in 0 .. N |-> g[i]] /\ g[0] = 0 /\ \A i \in 1 .. N : g[i] = g[i - 1] + s[i]
  BY <1>1, <1>7
<1>10. \A i \in 1 .. N : g[i - 1] \in Int => g[i] = step[i][g[i - 1]]
  BY <1>3, <1>9
<1>11. IsIteration(g, Int, 0, N, step)
  BY <1>1, <1>2, <1>9, <1>10, IterationIs
<1> QED BY <1>8, <1>9, <1>11 DEF IsIteration

\* Sums of naturals grow.
LEMMA SumsNat ==
  ASSUME NEW s \in Seq(Nat)
  PROVE  /\ \A i \in 0 .. Len(s) : Sums(s)[i] \in Nat
         /\ \A i, j \in 0 .. Len(s) : i <= j => Sums(s)[i] <= Sums(s)[j]
<1>1. s \in Seq(Int) /\ Len(s) \in Nat /\ \A i \in 1 .. Len(s) : s[i] \in Nat
  OBVIOUS
<1>2. /\ Sums(s)[0] = 0 /\ \A i \in 0 .. Len(s) : Sums(s)[i] \in Int
      /\ \A i \in 1 .. Len(s) : Sums(s)[i] = Sums(s)[i - 1] + s[i]
  BY <1>1, SumsIs
<1> DEFINE S == {j \in 0 .. Len(s) : \A i \in 0 .. j : 0 <= Sums(s)[i] /\ Sums(s)[i] <= Sums(s)[j]}
<1>3. 0 \in S
  BY <1>1, <1>2
<1>4. ASSUME NEW j \in 0 .. Len(s) - 1, j \in S PROVE j + 1 \in S
  <2>1. j + 1 \in 1 .. Len(s) /\ (j + 1) - 1 = j /\ j \in 0 .. Len(s) /\ s[j + 1] \in Nat
    BY <1>1
  <2>2. Sums(s)[j + 1] = Sums(s)[j] + s[j + 1]
    BY <1>2, <2>1
  <2>3. \A i \in 0 .. j : 0 <= Sums(s)[i] /\ Sums(s)[i] <= Sums(s)[j] /\ Sums(s)[i] \in Int
    BY <1>2, <1>4, <2>1
  <2>4. \A i \in 0 .. j + 1 : i \in 0 .. j \/ i = j + 1
    BY <2>1
  <2>5. j \in 0 .. j
    BY <2>1
  <2>6. 0 <= Sums(s)[j + 1] /\ Sums(s)[j] <= Sums(s)[j + 1] /\ Sums(s)[j + 1] \in Int
    BY <2>1, <2>2, <2>3, <2>5
  <2>7. ASSUME NEW i \in 0 .. j + 1 PROVE 0 <= Sums(s)[i] /\ Sums(s)[i] <= Sums(s)[j + 1]
    <3>1. CASE i = j + 1
      BY <2>6, <3>1
    <3>2. CASE i \in 0 .. j
      <4>1. Sums(s)[i] \in Int /\ 0 <= Sums(s)[i] /\ Sums(s)[i] <= Sums(s)[j] /\ Sums(s)[j] \in Int
        BY <2>3, <2>5, <3>2
      <4> QED BY <2>6, <4>1
    <3> QED BY <2>4, <3>1, <3>2
  <2> QED BY <2>1, <2>7
<1> HIDE DEF S
<1>5. \A j \in 0 .. Len(s) : j \in S
  BY <1>1, <1>3, <1>4, SetInduction
<1>6. \A i \in 0 .. Len(s) : i \in 0 .. i
  OBVIOUS
<1> QED BY <1>2, <1>5, <1>6 DEF S

\* The sum of one number more.
LEMMA SumsAppend ==
  ASSUME NEW s \in Seq(Int), NEW x \in Int
  PROVE  Sums(Append(s, x))[Len(s) + 1] = Sums(s)[Len(s)] + x
<1> DEFINE t == Append(s, x)
           S == {n \in 0 .. Len(s) : Sums(s)[n] = Sums(t)[n]}
<1>1. t \in Seq(Int) /\ Len(t) = Len(s) + 1 /\ t[Len(s) + 1] = x /\ Len(s) \in Nat
      /\ \A i \in 1 .. Len(s) : t[i] = s[i]
  OBVIOUS
<1> HIDE DEF t
<1>2. /\ Sums(s)[0] = 0 /\ \A i \in 1 .. Len(s) : Sums(s)[i] = Sums(s)[i - 1] + s[i]
      /\ Sums(t)[0] = 0 /\ \A i \in 1 .. Len(t) : Sums(t)[i] = Sums(t)[i - 1] + t[i]
  BY <1>1, SumsIs
<1>3. 0 \in S
  BY <1>1, <1>2
<1>4. ASSUME NEW n \in 0 .. Len(s) - 1, n \in S PROVE n + 1 \in S
  <2>1. n + 1 \in 1 .. Len(s) /\ n + 1 \in 1 .. Len(t) /\ (n + 1) - 1 = n
    BY <1>1
  <2>2. Sums(s)[n + 1] = Sums(s)[n] + s[n + 1] /\ Sums(t)[n + 1] = Sums(t)[n] + t[n + 1]
    BY <1>2, <2>1
  <2> QED BY <1>1, <1>4, <2>1, <2>2
<1> HIDE DEF S
<1>5. \A n \in 0 .. Len(s) : n \in S
  BY <1>1, <1>3, <1>4, SetInduction
<1>6. Len(s) \in 0 .. Len(s) /\ Len(s) + 1 \in 1 .. Len(t) /\ (Len(s) + 1) - 1 = Len(s)
  BY <1>1
<1>7. Sums(s)[Len(s)] = Sums(t)[Len(s)]
  BY <1>5, <1>6 DEF S
<1>8. Sums(t)[Len(s) + 1] = Sums(t)[Len(s)] + t[Len(s) + 1]
  BY <1>2, <1>6
<1> QED BY <1>1, <1>7, <1>8 DEF t

\* Concatenation is associative, and the empty sequence neutral.
Algebra(Q) ==
  /\ \A x, y \in Q : x \o y \in Q
  /\ \A x, y, z \in Q : (x \o y) \o z = x \o (y \o z)
  /\ \A x \in Q : x \o <<>> = x /\ <<>> \o x = x
  /\ <<>> \in Q

LEMMA SeqAlgebra == \A S : Algebra(Seq(S))
<1> TAKE S
<1>1. ASSUME NEW x \in Seq(S), NEW y \in Seq(S) PROVE x \o y \in Seq(S)
  OBVIOUS
<1>2. ASSUME NEW x \in Seq(S), NEW y \in Seq(S), NEW z \in Seq(S)
      PROVE  (x \o y) \o z = x \o (y \o z)
  BY ConcatAssociative
<1>3. ASSUME NEW x \in Seq(S) PROVE x \o <<>> = x /\ <<>> \o x = x
  BY ConcatEmptySeq
<1>4. <<>> \in Seq(S)
  OBVIOUS
<1> QED BY <1>1, <1>2, <1>3, <1>4, Zenon DEF Algebra

\* What is put together begins with the first sequence.
LEMMA FlattenHead ==
  ASSUME NEW S, NEW seqs \in Seq(Seq(S)), seqs # <<>>
  PROVE  FlattenSeq(seqs) = Head(seqs) \o FlattenSeq(Tail(seqs))
<1> DEFINE rest == Tail(seqs)
           N == Len(rest)
<1>1. /\ rest \in Seq(Seq(S)) /\ N \in Nat /\ Len(seqs) = N + 1 /\ Head(seqs) = seqs[1]
      /\ \A i \in 1 .. N : rest[i] = seqs[i + 1]
      /\ \A i \in 1 .. N + 1 : seqs[i] \in Seq(S)
  OBVIOUS
<1> HIDE DEF rest
<1>2. PICK f : Flattens(f, S, seqs) /\ FlattenSeq(seqs) = f[Len(seqs)]
  BY FlattenIs
<1>3. PICK g : Flattens(g, S, rest) /\ FlattenSeq(rest) = g[Len(rest)]
  BY <1>1, FlattenIs
<1> DEFINE T == {i \in 0 .. N : f[i + 1] = seqs[1] \o g[i]}
<1>4. 0 \in T
  <2>1. 1 \in 1 .. Len(seqs) /\ 1 - 1 = 0 /\ 0 + 1 = 1
    BY <1>1
  <2>2. f[1] = <<>> \o seqs[1] /\ g[0] = <<>>
    BY <1>2, <1>3, <2>1 DEF Flattens
  <2>3. seqs[1] \in Seq(S)
    BY <1>1, <2>1
  <2>4. <<>> \o seqs[1] = seqs[1] /\ seqs[1] \o <<>> = seqs[1]
    BY <2>3, ConcatEmptySeq
  <2>5. f[0 + 1] = seqs[1] \o g[0] /\ 0 \in 0 .. N
    BY <1>1, <2>1, <2>2, <2>4
  <2> QED BY <2>5
<1>5. ASSUME NEW i \in 0 .. N - 1, i \in T PROVE i + 1 \in T
  <2>1. /\ i + 2 \in 1 .. Len(seqs) /\ (i + 2) - 1 = i + 1 /\ i + 1 \in 1 .. N /\ (i + 1) - 1 = i
        /\ (i + 1) + 1 = i + 2 /\ i \in 0 .. Len(rest) /\ 1 \in 1 .. N + 1 /\ i + 2 \in 1 .. N + 1
    BY <1>1
  <2>2. f[i + 2] = f[i + 1] \o seqs[i + 2]
    BY <1>2, <2>1 DEF Flattens
  <2>3. g[i + 1] = g[i] \o rest[i + 1] /\ g[i] \in Seq(S)
    BY <1>3, <2>1 DEF Flattens
  <2>4. rest[i + 1] = seqs[i + 2] /\ f[i + 1] = seqs[1] \o g[i]
    BY <1>1, <1>5, <2>1
  <2>5. seqs[1] \in Seq(S) /\ seqs[i + 2] \in Seq(S)
    BY <1>1, <2>1
  <2>6. (seqs[1] \o g[i]) \o seqs[i + 2] = seqs[1] \o (g[i] \o seqs[i + 2])
    <3> DEFINE Q == Seq(S)
    <3>1. Algebra(Q) /\ seqs[1] \in Q /\ g[i] \in Q /\ seqs[i + 2] \in Q
      BY <2>3, <2>5, SeqAlgebra
    <3> HIDE DEF Q
    <3> QED BY <3>1 DEF Algebra
  <2>7. f[(i + 1) + 1] = seqs[1] \o g[i + 1]
    BY <2>1, <2>2, <2>3, <2>4, <2>6, Zenon
  <2>8. i + 1 \in 0 .. N
    BY <1>1, <2>1
  <2> QED BY <2>7, <2>8, Zenon
<1> HIDE DEF T
<1>6. \A i \in 0 .. N : i \in T
  BY <1>1, <1>4, <1>5, SetInduction
<1>7. f[N + 1] = seqs[1] \o g[N]
  <2>1. N \in 0 .. N
    BY <1>1
  <2> QED BY <1>6, <2>1, Zenon DEF T
<1> QED BY <1>1, <1>2, <1>3, <1>7 DEF rest

\* What is put together is a sequence of the same elements.
LEMMA FlattenType ==
  ASSUME NEW S, NEW seqs \in Seq(Seq(S))
  PROVE  FlattenSeq(seqs) \in Seq(S) /\ FlattenSeq(<<>>) = <<>>
<1>1. PICK f : Flattens(f, S, seqs) /\ FlattenSeq(seqs) = f[Len(seqs)]
  BY FlattenIs
<1>2. Len(seqs) \in 0 .. Len(seqs)
  OBVIOUS
<1>3. FlattenSeq(<<>>) = <<>>
  BY DEF FlattenSeq
<1> QED BY <1>1, <1>2, <1>3 DEF Flattens

-----------------------------------------------------------------------------
(***************************************************************************)
(* Reading on.                                                             *)
(***************************************************************************)

\* Division with a remainder.
LEMMA DivIs ==
  ASSUME NEW x \in Nat, NEW w \in Nat \ {0}
  PROVE  (x \div w) \in Nat /\ x = w * (x \div w) + (x % w)
<1> DEFINE d == x \div w
           m == x % w
<1>1. d \in Int /\ m \in 0 .. w - 1 /\ x = w * d + m
  OBVIOUS
<1> HIDE DEF d, m
<1>2. ASSUME d < 0 PROVE FALSE
  <2>1. w * (d + 1) <= 0
    BY <1>1, <1>2
  <2>2. w * (d + 1) = w * d + w
    BY <1>1
  <2> QED BY <1>1, <2>1, <2>2
<1>3. d \in Nat
  BY <1>1, <1>2
<1> QED BY <1>1, <1>3 DEF d, m

\* A number less than w more than a multiple of w has itself for remainder.
LEMMA RemainderIs ==
  ASSUME NEW w \in Nat \ {0}, NEW q \in Int, NEW r \in 0 .. w - 1
  PROVE  (w * q + r) % w = r
<1> DEFINE x == w * q + r
           d == x \div w
           m == x % w
<1>1. x \in Int /\ x = w * q + r
  OBVIOUS
<1> HIDE DEF x
<1>2. d \in Int /\ m \in 0 .. w - 1 /\ x = w * d + m
  BY <1>1
<1> HIDE DEF d, m
<1>3. ASSUME d > q PROVE FALSE
  <2>1. w * (q + 1) <= w * d
    BY <1>2, <1>3
  <2>2. w * (q + 1) = w * q + w
    OBVIOUS
  <2> QED BY <1>1, <1>2, <2>1, <2>2
<1>4. ASSUME d < q PROVE FALSE
  <2>1. w * (d + 1) <= w * q
    BY <1>2, <1>4
  <2>2. w * (d + 1) = w * d + w
    BY <1>2
  <2> QED BY <1>1, <1>2, <2>1, <2>2
<1>5. d = q
  BY <1>2, <1>3, <1>4
<1>6. m = r
  BY <1>1, <1>2, <1>5
<1> QED BY <1>6 DEF m, x

\* The cell at address a can be read.
Readable(a) == owner # "gone" /\ (a \div PageSize) \in mapped

Span == IF ev.abi = 32 THEN Word32 ELSE TagSpan

\* The last page of the address space is not mapped.
SpaceInv == \A p \in mapped : (p + 1) * PageSize < Span

\* A read returns the cells up to the first one that cannot be read.
LEMMA ReadIs ==
  ASSUME ev \in Event, MemInv, dereference, NEW v \in Int, v # 0, NEW n \in Nat
  PROVE  /\ read_mem(v, n) \in Seq(Nat) /\ Len(read_mem(v, n)) \in 0 .. n
         /\ \A i \in 1 .. Len(read_mem(v, n)) :
              /\ read_mem(v, n)[i] = mem[read_addr(v) + i - 1]
              /\ Readable(read_addr(v) + i - 1)
         /\ Len(read_mem(v, n)) < n => ~Readable(read_addr(v) + Len(read_mem(v, n)))
<1> DEFINE a == read_addr(v)
           ok(k) == \A i \in a .. a + k - 1 : owner # "gone" /\ (i \div PageSize) \in mapped
           K == {k \in 0 .. n : ok(k)}
           got == Max(K)
<1>1. a \in Nat
  BY RegisterTypes
<1> HIDE DEF a
<1>2. K \in SUBSET (0 .. n) /\ K # {}
  <2>1. 0 \in K
    BY <1>1
  <2> QED BY <2>1
<1>3. got \in K /\ \A y \in K : y <= got
  BY <1>2, MaxOf
<1>4. read_mem(v, n) = [i \in 1 .. got |-> mem[a + i - 1]]
  BY DEF read_mem, read, a
<1>5. got \in 0 .. n /\ ok(got)
  BY <1>3
<1>6. read_mem(v, n) \in Seq(Nat)
  BY ReadType
<1>7. got < n => ~ok(got + 1)
  <2>1. SUFFICES ASSUME got < n, ok(got + 1) PROVE FALSE
    OBVIOUS
  <2>2. got + 1 \in K
    BY <1>5, <2>1
  <2> QED BY <1>3, <1>5, <2>2
<1> HIDE DEF got, K
<1>8. Len(read_mem(v, n)) = got /\ got \in Nat
  BY <1>4, <1>5
<1>9. ASSUME NEW i \in 1 .. got PROVE Readable(a + i - 1)
  <2>1. a + i - 1 \in a .. a + got - 1
    BY <1>1, <1>8
  <2> QED BY <1>5, <2>1 DEF Readable
<1>10. ASSUME got < n PROVE ~Readable(a + got)
  <2>1. SUFFICES ASSUME Readable(a + got) PROVE FALSE
    OBVIOUS
  <2>2. ASSUME NEW i \in a .. a + (got + 1) - 1 PROVE owner # "gone" /\ (i \div PageSize) \in mapped
    <3>1. i \in a .. a + got - 1 \/ i = a + got
      BY <1>1, <1>8
    <3> QED BY <1>5, <2>1, <3>1 DEF Readable
  <2> QED BY <1>7, <1>10, <2>2
<1> QED BY <1>4, <1>5, <1>6, <1>8, <1>9, <1>10 DEF a

\* The address after a cell that can be read is the next one.
LEMMA NextAddr ==
  ASSUME ev \in Event, MemInv, SpaceInv, NEW v \in Nat, NEW k \in Nat, k > 0,
         Readable(read_addr(v) + k - 1)
  PROVE  read_addr(v + k) = read_addr(v) + k
<1> USE MemoryAssumption, SpansAssumption
<1>1. Span \in Nat \ {0} /\ \A x : read_addr(x) = x % Span
  <2>1. ev.abi \in {32, 64} /\ Word32 \in Nat \ {0} /\ TagSpan \in Nat \ {0}
    BY DEF Event
  <2>2. CASE ev.abi = 32
    BY <2>1, <2>2 DEF Span, read_addr, ptr_value
  <2>3. CASE ev.abi = 64
    BY <2>1, <2>3 DEF Span, read_addr
  <2> QED BY <2>1, <2>2, <2>3
<1> DEFINE a == v % Span
           p == (a + k - 1) \div PageSize
<1>2. a \in Nat /\ a < Span /\ a + k - 1 \in Nat
  <2>1. a \in 0 .. Span - 1
    BY <1>1, ModType
  <2> HIDE DEF a
  <2> QED BY <1>1, <2>1
<1>3. p \in mapped /\ p \in Nat
  <2>1. p \in mapped
    BY <1>1, Zenon DEF Readable
  <2> HIDE DEF a
  <2>2. p \in Nat
    BY <1>2, DivIs
  <2> QED BY <2>1, <2>2
<1>4. a + k - 1 < (p + 1) * PageSize
  <2> DEFINE c == a + k - 1
             r == c % PageSize
  <2>1. c \in Nat
    BY <1>2
  <2> HIDE DEF c, a
  <2>2. c = PageSize * (c \div PageSize) + r /\ r < PageSize /\ r \in Nat /\ (c \div PageSize) \in Int
    BY <2>1, SMTT(30)
  <2>3. p = c \div PageSize
    BY DEF c
  <2> HIDE DEF r, p
  <2>4. (p + 1) * PageSize = PageSize * p + PageSize /\ PageSize * p \in Int
    BY <1>3
  <2>5. c < (p + 1) * PageSize
    BY <2>1, <2>2, <2>3, <2>4
  <2> QED BY <2>5 DEF c
<1>5. (p + 1) * PageSize < Span /\ (p + 1) * PageSize \in Nat
  <2> HIDE DEF p
  <2> QED BY <1>3 DEF SpaceInv
<1>6. a + k < Span
  <2> HIDE DEF a, p
  <2> QED BY <1>1, <1>2, <1>3, <1>4, <1>5
<1>7. (v + k) % Span = a + k
  <2> DEFINE q == v \div Span
  <2>1. v = Span * q + a /\ q \in Int
    <3>1. Span \in Nat \ {0}
      BY <1>1
    <3>2. (v \div Span) \in Nat /\ v = Span * (v \div Span) + (v % Span)
      BY <3>1, DivIs, Zenon
    <3> QED BY <3>2
  <2> HIDE DEF a, q
  <2>2. v + k = Span * q + (a + k) /\ a + k \in 0 .. Span - 1
    BY <1>1, <1>2, <1>6, <2>1
  <2>3. (Span * q + (a + k)) % Span = a + k
    BY <1>1, <2>1, <2>2, RemainderIs
  <2> QED BY <2>2, <2>3
<1> QED BY <1>1, <1>7

\* Reading on where a longer read has come to gives what that read goes on with.
LEMMA ReadOn ==
  ASSUME ev \in Event, MemInv, SpaceInv, dereference, NEW v \in Nat, v # 0,
         NEW n \in Nat, NEW k \in 0 .. Len(read_mem(v, n)), NEW m \in Nat, k + m <= n
  PROVE  /\ Len(read_mem(v + k, m)) = Least(m, Len(read_mem(v, n)) - k)
         /\ \A i \in 1 .. Len(read_mem(v + k, m)) : read_mem(v + k, m)[i] = read_mem(v, n)[k + i]
<1> SUFFICES ASSUME NEW all, all = read_mem(v, n)
             PROVE  /\ Len(read_mem(v + k, m)) = Least(m, Len(all) - k)
                    /\ \A i \in 1 .. Len(read_mem(v + k, m)) : read_mem(v + k, m)[i] = all[k + i]
  OBVIOUS
<1> DEFINE got == read_mem(v + k, m)
           a == read_addr(v)
           b == read_addr(v + k)
           L == Len(all)
           M == Len(got)
<1>1. /\ all \in Seq(Nat) /\ L \in 0 .. n
      /\ \A i \in 1 .. L : all[i] = mem[a + i - 1] /\ Readable(a + i - 1)
      /\ L < n => ~Readable(a + L)
  <2>1. v \in Int
    OBVIOUS
  <2> QED BY <2>1, ReadIs, Zenon
<1>2. v + k \in Nat /\ v + k # 0 /\ k \in Nat
  BY <1>1
<1>3. /\ got \in Seq(Nat) /\ M \in 0 .. m
      /\ \A i \in 1 .. M : got[i] = mem[b + i - 1] /\ Readable(b + i - 1)
      /\ M < m => ~Readable(b + M)
  <2>1. v + k \in Int
    BY <1>2
  <2> QED BY <1>2, <2>1, ReadIs, Zenon
<1>4. a \in Nat /\ b = a + k
  <2>1. a \in Nat
    BY RegisterTypes
  <2>2. CASE k = 0
    BY <2>1, <2>2
  <2>3. CASE k # 0
    <3>1. k \in 1 .. L /\ k > 0
      BY <1>1, <2>3
    <3>2. Readable(a + k - 1)
      BY <1>1, <3>1
    <3> QED BY <1>2, <2>1, <3>1, <3>2, NextAddr
  <2> QED BY <2>2, <2>3
<1> HIDE DEF a, b, got
<1>5. M <= L - k
  <2>1. SUFFICES ASSUME M > L - k PROVE FALSE
    BY <1>1, <1>3
  <2>2. L - k + 1 \in 1 .. M /\ L < n
    BY <1>1, <1>2, <1>3, <2>1
  <2>3. Readable(b + (L - k + 1) - 1)
    BY <1>3, <2>2
  <2>4. b + (L - k + 1) - 1 = a + L
    BY <1>1, <1>2, <1>4
  <2> QED BY <1>1, <2>2, <2>3, <2>4
<1>6. M = m \/ M = L - k
  <2>1. SUFFICES ASSUME M < m, M < L - k PROVE FALSE
    BY <1>1, <1>3, <1>5
  <2>2. k + M + 1 \in 1 .. L
    BY <1>1, <1>2, <1>3, <2>1
  <2>3. Readable(a + (k + M + 1) - 1)
    BY <1>1, <2>2
  <2>4. a + (k + M + 1) - 1 = b + M
    BY <1>2, <1>3, <1>4
  <2> QED BY <1>3, <2>1, <2>3, <2>4
<1>7. M = Least(m, L - k)
  BY <1>1, <1>2, <1>3, <1>5, <1>6 DEF Least
<1>8. ASSUME NEW i \in 1 .. M PROVE got[i] = all[k + i]
  <2>1. k + i \in 1 .. L
    BY <1>1, <1>2, <1>3, <1>5
  <2>2. got[i] = mem[b + i - 1] /\ all[k + i] = mem[a + (k + i) - 1]
    BY <1>1, <1>3, <2>1
  <2>3. b + i - 1 = a + (k + i) - 1
    BY <1>2, <1>4
  <2> QED BY <2>2, <2>3
<1> QED BY <1>7, <1>8 DEF got

-----------------------------------------------------------------------------
(***************************************************************************)
(* What is to be seen.                                                     *)
(***************************************************************************)

Text == Seq(Token)

LEMMA TextAlgebra == Algebra(Text)
  BY SeqAlgebra DEF Text

LEMMA TextAssoc ==
  ASSUME NEW x \in Text, NEW y \in Text, NEW z \in Text
  PROVE  (x \o y) \o z = x \o (y \o z)
  BY TextAlgebra DEF Algebra

\* The same, for terms that the provers need not look into.
Associates(x, y, z) == (x \o y) \o z = x \o (y \o z)

LEMMA TextAssociates ==
  ASSUME NEW x \in Text, NEW y \in Text, NEW z \in Text
  PROVE  Associates(x, y, z)
  BY TextAssoc DEF Associates

LEMMA TextEmpty ==
  ASSUME NEW x \in Text PROVE x \o <<>> = x /\ <<>> \o x = x
  BY TextAlgebra DEF Algebra

LEMMA TextConcat == ASSUME NEW x \in Text, NEW y \in Text PROVE x \o y \in Text
  BY TextAlgebra DEF Algebra

\* Addresses and marks are texts.
LEMMA MarkTexts ==
  ASSUME ev \in Event, NEW v \in Nat
  PROVE  /\ Ptr(v) \in Text /\ Ptr(v) \o Mark("unreadable") \in Text
         /\ Mark("...") \in Text /\ Mark("... unreadable") \in Text /\ <<>> \in Text
<1>1. v \in Int
  OBVIOUS
<1> QED BY <1>1, TextTypes, Zenon DEF Text

\* What is put together of texts is a text.
LEMMA TextFlat ==
  ASSUME NEW n \in Nat, NEW f, \A i \in 1 .. n : f[i] \in Text, f = [i \in 1 .. n |-> f[i]]
  PROVE  /\ FlattenSeq(f) \in Text
         /\ n = 0 => FlattenSeq(f) = <<>>
         /\ n > 0 => FlattenSeq(f) = f[1] \o FlattenSeq([i \in 1 .. n - 1 |-> f[i + 1]])
<1>1. f \in Seq(Seq(Token)) /\ Len(f) = n
  BY DEF Text
<1>2. FlattenSeq(f) \in Text
  BY <1>1, FlattenType DEF Text
<1>3. ASSUME n = 0 PROVE FlattenSeq(f) = <<>>
  <2>1. f = <<>>
    BY <1>1, <1>3
  <2> QED BY <1>1, <2>1, FlattenType
<1>4. ASSUME n > 0 PROVE FlattenSeq(f) = f[1] \o FlattenSeq([i \in 1 .. n - 1 |-> f[i + 1]])
  <2>1. f # <<>> /\ Head(f) = f[1] /\ Tail(f) = [i \in 1 .. n - 1 |-> f[i + 1]]
    BY <1>1, <1>4
  <2>2. FlattenSeq(f) = Head(f) \o FlattenSeq(Tail(f))
    BY <1>1, <2>1, FlattenHead
  <2> QED BY <2>1, <2>2
<1> QED BY <1>2, <1>3, <1>4

\* What is put together of the texts after the i-th.
FlatFrom(f, L, i) == FlattenSeq([x \in 1 .. L - i |-> f[i + x]])

LEMMA FlatNext ==
  ASSUME NEW L \in Nat, NEW f, NEW i \in 0 .. L, \A x \in i + 1 .. L : f[x] \in Text
  PROVE  /\ FlatFrom(f, L, i) \in Text
         /\ i = L => FlatFrom(f, L, i) = <<>>
         /\ i < L => FlatFrom(f, L, i) = f[i + 1] \o FlatFrom(f, L, i + 1)
<1> DEFINE n == L - i
           g == [x \in 1 .. n |-> f[i + x]]
<1>1. n \in Nat /\ i \in Int /\ \A x \in 1 .. n : i + x \in i + 1 .. L
  OBVIOUS
<1>2. /\ g = [x \in 1 .. n |-> g[x]] /\ \A x \in 1 .. n : g[x] = f[i + x] /\ g[x] \in Text
  BY <1>1
<1>3. FlatFrom(f, L, i) = FlattenSeq(g)
  BY DEF FlatFrom
<1> HIDE DEF g, n
<1>4. /\ FlattenSeq(g) \in Text /\ (n = 0 => FlattenSeq(g) = <<>>)
      /\ n > 0 => FlattenSeq(g) = g[1] \o FlattenSeq([x \in 1 .. n - 1 |-> g[x + 1]])
  BY <1>1, <1>2, TextFlat
<1>5. i = L => n = 0
  BY DEF n
<1>6. ASSUME i < L PROVE FlatFrom(f, L, i) = f[i + 1] \o FlatFrom(f, L, i + 1)
  <2> DEFINE h == [x \in 1 .. n - 1 |-> g[x + 1]]
  <2>1. n > 0 /\ n - 1 = L - (i + 1)
    BY <1>6 DEF n
  <2>2. \A x \in 1 .. n - 1 : x + 1 \in 1 .. n /\ i + (x + 1) = (i + 1) + x
    BY <1>1, <2>1
  <2>3. \A x \in 1 .. n - 1 : g[x + 1] = f[(i + 1) + x]
    BY <1>2, <2>2
  <2>4. h = [x \in 1 .. n - 1 |-> f[(i + 1) + x]]
    BY <2>3
  <2>5. FlatFrom(f, L, i + 1) = FlattenSeq(h)
    BY <2>1, <2>4 DEF FlatFrom
  <2>6. 1 \in 1 .. n /\ g[1] = f[i + 1]
    BY <1>1, <1>2, <2>1
  <2> QED BY <1>3, <1>4, <2>1, <2>5, <2>6
<1> QED BY <1>3, <1>4, <1>5, <1>6

\* A string and a buffer are shown as texts.
LEMMA StringType ==
  ASSUME ev \in Event, MemInv, NEW v \in Nat
  PROVE  StringRendering(v) \in Text
<1> DEFINE all == read_mem(v, MaxStr)
           nul == FirstNul(all)
<1>1. all \in Seq(Nat)
  BY OptionTypes, ReadType
<1>2. Ptr(v) \in Text /\ Ptr(v) \o Mark("unreadable") \in Text
  BY MarkTexts
<1>3. StringRendering(v) =
        IF v = 0 \/ ~dereference THEN Ptr(v)
        ELSE IF all = <<>> THEN Ptr(v) \o Mark("unreadable")
        ELSE IF nul = 0 THEN Quoted(all, TRUE)
        ELSE Quoted(SubSeq(all, 1, nul - 1), FALSE)
  BY DEF StringRendering
<1> HIDE DEF all
<1>4. nul \in 0 .. Len(all)
  BY <1>1, NulIs
<1> HIDE DEF nul
<1>5. nul # 0 => SubSeq(all, 1, nul - 1) \in Seq(Nat)
  BY <1>1, <1>4
<1>6. Quoted(all, TRUE) \in Text /\ (nul # 0 => Quoted(SubSeq(all, 1, nul - 1), FALSE) \in Text)
  BY <1>1, <1>5, QuotedType DEF Text
<1> QED BY <1>2, <1>3, <1>6, Zenon

LEMMA BufferType ==
  ASSUME ev \in Event, MemInv, NEW v \in Nat, NEW n \in Nat
  PROVE  BufferRendering(v, n) \in Text
<1> DEFINE got == read_mem(v, Least(n, max_buffer))
<1>1. got \in Seq(Nat)
  <2>1. Least(n, max_buffer) \in Nat
    BY OptionTypes DEF Least
  <2> QED BY <2>1, ReadType
<1>2. Ptr(v) \in Text /\ Ptr(v) \o Mark("unreadable") \in Text
  BY MarkTexts
<1>3. BufferRendering(v, n) =
        IF v = 0 \/ ~dereference THEN Ptr(v)
        ELSE IF n = 0 \/ max_buffer = 0 THEN Quoted(<<>>, FALSE)
        ELSE IF got = <<>> THEN Ptr(v) \o Mark("unreadable")
        ELSE Quoted(got, Len(got) < n)
  BY DEF BufferRendering
<1> HIDE DEF got
<1>4. Quoted(<<>>, FALSE) \in Text /\ Quoted(got, Len(got) < n) \in Text
  <2>1. <<>> \in Seq(Nat) /\ (Len(got) < n) \in BOOLEAN
    OBVIOUS
  <2> QED BY <1>1, <2>1, QuotedType DEF Text
<1> QED BY <1>2, <1>3, <1>4, Zenon

\* The pointers of a list of strings, those before the null one, what ends the list, and
\* what is to be seen of it from element i on.
StrvPtrs(v) ==
  [i \in 1 .. Len(read_mem(v, max_array)) |-> ptr_value(read_mem(v, max_array)[i])]
StrvSome(v) ==
  IF FirstNul(StrvPtrs(v)) = 0 THEN StrvPtrs(v)
  ELSE SubSeq(StrvPtrs(v), 1, FirstNul(StrvPtrs(v)) - 1)
StrvEnd(v) ==
  IF FirstNul(StrvPtrs(v)) > 0 THEN <<>>
  ELSE IF Len(read_mem(v, max_array)) = max_array THEN Mark("...") ELSE Mark("... unreadable")
StrvTexts(v) == [x \in 1 .. Len(StrvSome(v)) |-> StringRendering(StrvSome(v)[x])]
StrvLeft(v, i) ==
  IF v = 0 \/ ~dereference THEN Ptr(v)
  ELSE FlatFrom(StrvTexts(v), Len(StrvSome(v)), i) \o StrvEnd(v)

LEMMA StrvPtrsAre ==
  ASSUME ev \in Event, MemInv, NEW v \in Nat
  PROVE  /\ StrvPtrs(v) \in Seq(Nat) /\ StrvSome(v) \in Seq(Nat)
         /\ Len(StrvPtrs(v)) = Len(read_mem(v, max_array)) /\ Len(StrvPtrs(v)) <= max_array
         /\ \A i \in 1 .. Len(StrvPtrs(v)) : StrvPtrs(v)[i] = ptr_value(read_mem(v, max_array)[i])
         /\ Len(StrvSome(v)) = IF FirstNul(StrvPtrs(v)) = 0 THEN Len(StrvPtrs(v))
                               ELSE FirstNul(StrvPtrs(v)) - 1
         /\ \A i \in 1 .. Len(StrvSome(v)) : StrvSome(v)[i] = StrvPtrs(v)[i]
         /\ StrvEnd(v) \in Text
<1> DEFINE all == read_mem(v, max_array)
           s == StrvPtrs(v)
           nul == FirstNul(s)
<1>1. all \in Seq(Nat) /\ Len(all) <= max_array /\ max_array \in Nat
  BY OptionTypes, ReadType
<1>2. s = [i \in 1 .. Len(all) |-> ptr_value(all[i])]
  BY DEF StrvPtrs
<1> HIDE DEF all, s
<1>3. \A i \in 1 .. Len(all) : ptr_value(all[i]) \in Nat
  <2>1. \A i \in 1 .. Len(all) : all[i] \in Nat
    BY <1>1
  <2> QED BY <2>1, RegisterTypes
<1>4. s \in Seq(Nat) /\ Len(s) = Len(all) /\ \A i \in 1 .. Len(all) : s[i] = ptr_value(all[i])
  BY <1>1, <1>2, <1>3
<1>5. nul \in 0 .. Len(s)
  BY <1>4, NulIs
<1>6. StrvSome(v) = IF nul = 0 THEN s ELSE SubSeq(s, 1, nul - 1)
  BY DEF StrvSome, s
<1> HIDE DEF nul
<1>7. /\ StrvSome(v) \in Seq(Nat) /\ Len(StrvSome(v)) = IF nul = 0 THEN Len(s) ELSE nul - 1
      /\ \A i \in 1 .. Len(StrvSome(v)) : StrvSome(v)[i] = s[i]
  BY <1>4, <1>5, <1>6
<1>8. StrvEnd(v) \in Text
  <2>1. Mark("...") \in Text /\ Mark("... unreadable") \in Text /\ <<>> \in Text
    BY MarkTexts
  <2> QED BY <2>1, Zenon DEF StrvEnd
<1> QED BY <1>1, <1>4, <1>7, <1>8 DEF s, all, nul

\* The list from its beginning is the whole of it.
LEMMA StrvWhole ==
  ASSUME ev \in Event, MemInv, NEW v \in Nat
  PROVE  StrvLeft(v, 0) = StrvRendering(v)
<1> DEFINE L == Len(StrvSome(v))
           f == StrvTexts(v)
<1>1. L \in Nat
  BY StrvPtrsAre
<1>2. f = [x \in 1 .. L |-> StringRendering(StrvSome(v)[x])]
  BY DEF StrvTexts
<1>3. FlatFrom(f, L, 0) = FlattenSeq(f)
  <2> HIDE DEF L, f
  <2>1. L - 0 = L /\ \A x \in 1 .. L : 0 + x = x
    BY <1>1
  <2>2. f = [x \in 1 .. L |-> f[x]]
    BY <1>2
  <2>3. [x \in 1 .. L - 0 |-> f[0 + x]] = f
    BY <2>1, <2>2
  <2> QED BY <2>3 DEF FlatFrom
<1>4. StrvLeft(v, 0) = IF v = 0 \/ ~dereference THEN Ptr(v) ELSE FlattenSeq(f) \o StrvEnd(v)
  BY <1>3, Zenon DEF StrvLeft
<1>5. StrvRendering(v) = IF v = 0 \/ ~dereference THEN Ptr(v) ELSE FlattenSeq(f) \o StrvEnd(v)
  BY <1>2 DEF StrvRendering, StrvSome, StrvPtrs, StrvEnd
<1> QED BY <1>4, <1>5

\* The next string of a list, and the ones after it.
LEMMA StrvNext ==
  ASSUME ev \in Event, MemInv, NEW v \in Nat, v # 0, dereference, NEW i \in 0 .. Len(StrvSome(v))
  PROVE  /\ StrvLeft(v, i) \in Text
         /\ i = Len(StrvSome(v)) => StrvLeft(v, i) = StrvEnd(v)
         /\ i < Len(StrvSome(v)) =>
              StrvLeft(v, i) = StringRendering(StrvSome(v)[i + 1]) \o StrvLeft(v, i + 1)
<1> DEFINE some == StrvSome(v)
           L == Len(some)
           e == StrvEnd(v)
           f == StrvTexts(v)
<1>1. /\ some \in Seq(Nat) /\ L \in Nat /\ e \in Text /\ (\A x \in 1 .. L : some[x] \in Nat)
      /\ i \in 0 .. L
  <2>1. some \in Seq(Nat) /\ e \in Text /\ i \in 0 .. Len(some)
    BY StrvPtrsAre
  <2> HIDE DEF some
  <2> QED BY <2>1
<1>2. \A x \in 1 .. L : f[x] = StringRendering(some[x])
  BY DEF StrvTexts
<1>3. \A m : StrvLeft(v, m) = FlatFrom(f, L, m) \o e
  BY DEF StrvLeft
<1> HIDE DEF some, e, f, L
<1>4. \A x \in 1 .. L : f[x] \in Text
  BY <1>1, <1>2, StringType
<1>5. /\ FlatFrom(f, L, i) \in Text
      /\ i = L => FlatFrom(f, L, i) = <<>>
      /\ i < L => FlatFrom(f, L, i) = f[i + 1] \o FlatFrom(f, L, i + 1)
  <2>1. \A x \in i + 1 .. L : f[x] \in Text
    BY <1>1, <1>4
  <2> QED BY <1>1, <2>1, FlatNext
<1>6. StrvLeft(v, i) \in Text
  BY <1>1, <1>3, <1>5, TextAlgebra DEF Algebra
<1>7. ASSUME i = L PROVE StrvLeft(v, i) = e
  <2>1. <<>> \o e = e
    BY <1>1, TextEmpty
  <2> QED BY <1>3, <1>5, <1>7, <2>1
<1>8. ASSUME i < L PROVE StrvLeft(v, i) = StringRendering(some[i + 1]) \o StrvLeft(v, i + 1)
  <2>1. i + 1 \in 1 .. L /\ i + 1 \in 0 .. L
    BY <1>1, <1>8
  <2>2. f[i + 1] \in Text /\ FlatFrom(f, L, i + 1) \in Text
    <3>1. \A x \in (i + 1) + 1 .. L : f[x] \in Text
      BY <1>1, <1>4
    <3> QED BY <1>1, <1>4, <2>1, <3>1, FlatNext
  <2>3. (f[i + 1] \o FlatFrom(f, L, i + 1)) \o e = f[i + 1] \o (FlatFrom(f, L, i + 1) \o e)
    BY <1>1, <2>2, TextAssoc
  <2>4. f[i + 1] = StringRendering(some[i + 1])
    BY <1>2, <2>1
  <2> QED BY <1>3, <1>5, <1>8, <2>3, <2>4
<1> QED BY <1>6, <1>7, <1>8 DEF L, e, some

\* How many elements of a vector can be read, what the first of them hold together, how
\* much element x may show when i have been shown and lim is left, and what is to be seen
\* of the vector from element i on.
IovCount(v, n) == Len(read_mem(v, 2 * n)) \div 2
IovSizes(v, n) == Sums([i \in 1 .. IovCount(v, n) |-> ptr_value(read_mem(v, 2 * n)[2 * i])])
Share(lim, used) == IF used < lim THEN lim - used ELSE 0
IovShare(v, n, i, lim, x) == Share(lim, IovSizes(v, n)[x - 1] - IovSizes(v, n)[i])
IovTexts(v, n, i, lim, show) ==
  [x \in 1 .. IovCount(v, n) |->
     IovElement(read_mem(v, 2 * n), x, IovShare(v, n, i, lim, x), show)]
IovEnd(v, n) == IF IovCount(v, n) = n THEN <<>> ELSE Mark("... unreadable")
IovLeft(v, n, i, lim, show) ==
  IF v = 0 \/ ~dereference THEN Ptr(v)
  ELSE FlatFrom(IovTexts(v, n, i, lim, show), IovCount(v, n), i) \o IovEnd(v, n)

\* The elements of a vector that can be read.
LEMMA IovIs ==
  ASSUME ev \in Event, MemInv, NEW v \in Nat, NEW n \in Nat
  PROVE  /\ read_mem(v, 2 * n) \in Seq(Nat) /\ IovCount(v, n) \in 0 .. n
         /\ 2 * IovCount(v, n) <= Len(read_mem(v, 2 * n))
         /\ Len(read_mem(v, 2 * n)) <= 2 * IovCount(v, n) + 1
         /\ \A x \in 1 .. IovCount(v, n) : /\ ptr_value(read_mem(v, 2 * n)[2 * x]) \in Nat
                                           /\ ptr_value(read_mem(v, 2 * n)[2 * x - 1]) \in Nat
         /\ IovEnd(v, n) \in Text
<1> DEFINE all == read_mem(v, 2 * n)
           L == Len(all)
           K == L \div 2
<1>1. all \in Seq(Nat) /\ L \in Nat /\ L <= 2 * n
  <2>1. 2 * n \in Nat
    OBVIOUS
  <2>2. all \in Seq(Nat) /\ L <= 2 * n
    BY <2>1, ReadType
  <2> HIDE DEF all
  <2> QED BY <2>2
<1>2. K = IovCount(v, n)
  BY DEF IovCount
<1> HIDE DEF all, L
<1>3. K \in 0 .. n /\ 2 * K <= L /\ L <= 2 * K + 1
  BY <1>1
<1> HIDE DEF K
<1>4. ASSUME NEW x \in 1 .. K PROVE ptr_value(all[2 * x]) \in Nat /\ ptr_value(all[2 * x - 1]) \in Nat
  <2>1. 2 * x \in 1 .. L /\ 2 * x - 1 \in 1 .. L
    BY <1>1, <1>3
  <2>2. all[2 * x] \in Nat /\ all[2 * x - 1] \in Nat
    BY <1>1, <2>1 DEF L
  <2> QED BY <2>2, RegisterTypes
<1>5. IovEnd(v, n) \in Text
  <2>1. Mark("... unreadable") \in Text /\ <<>> \in Text
    BY MarkTexts
  <2> QED BY <2>1, Zenon DEF IovEnd
<1> QED BY <1>1, <1>2, <1>3, <1>4, <1>5 DEF L, all

\* An element is shown as a text.
LEMMA ElementType ==
  ASSUME ev \in Event, MemInv, NEW v \in Nat, NEW n \in Nat, NEW x \in 1 .. IovCount(v, n),
         NEW left \in Nat, NEW show \in BOOLEAN
  PROVE  IovElement(read_mem(v, 2 * n), x, left, show) \in Text
<1> DEFINE all  == read_mem(v, 2 * n)
           base == ptr_value(all[2 * x - 1])
           size == ptr_value(all[2 * x])
<1>1. base \in Nat /\ size \in Nat
  BY IovIs
<1>2. IovElement(all, x, left, show) =
        (IF show THEN BufferRendering(base, Least(size, left)) ELSE Ptr(base))
        \o <<Tok("word", size)>>
  BY DEF IovElement
<1> HIDE DEF base, size
<1>3. Least(size, left) \in Nat
  BY <1>1 DEF Least
<1>4. BufferRendering(base, Least(size, left)) \in Text /\ Ptr(base) \in Text
  BY <1>1, <1>3, BufferType, MarkTexts
<1>5. <<Tok("word", size)>> \in Text
  BY <1>1 DEF Text, Tok, Token, Tags
<1>6. (IF show THEN BufferRendering(base, Least(size, left)) ELSE Ptr(base)) \in Text
  BY <1>4
<1> QED BY <1>2, <1>5, <1>6, TextConcat

\* What the elements hold adds up.
LEMMA IovSizesAre ==
  ASSUME ev \in Event, MemInv, NEW v \in Nat, NEW n \in Nat
  PROVE  /\ IovSizes(v, n)[0] = 0
         /\ \A x \in 0 .. IovCount(v, n) : IovSizes(v, n)[x] \in Nat
         /\ \A x, y \in 0 .. IovCount(v, n) : x <= y => IovSizes(v, n)[x] <= IovSizes(v, n)[y]
         /\ \A x \in 0 .. IovCount(v, n) - 1 :
              IovSizes(v, n)[x + 1] = IovSizes(v, n)[x] + ptr_value(read_mem(v, 2 * n)[2 * (x + 1)])
<1> DEFINE K == IovCount(v, n)
           size(x) == ptr_value(read_mem(v, 2 * n)[2 * x])
           s == [i \in 1 .. K |-> size(i)]
<1>1. K \in Nat /\ \A x \in 1 .. K : size(x) \in Nat
  BY IovIs
<1>2. IovSizes(v, n) = Sums(s)
  BY DEF IovSizes
<1> HIDE DEF K, size
<1>3. s \in Seq(Nat) /\ s \in Seq(Int) /\ Len(s) = K /\ \A x \in 1 .. K : s[x] = size(x)
  BY <1>1
<1> HIDE DEF s
<1>4. Sums(s)[0] = 0 /\ \A x \in 1 .. K : Sums(s)[x] = Sums(s)[x - 1] + s[x]
  BY <1>3, SumsIs
<1>5. /\ \A x \in 0 .. K : Sums(s)[x] \in Nat
      /\ \A x, y \in 0 .. K : x <= y => Sums(s)[x] <= Sums(s)[y]
  BY <1>3, SumsNat
<1>6. ASSUME NEW x \in 0 .. K - 1 PROVE Sums(s)[x + 1] = Sums(s)[x] + size(x + 1)
  <2>1. x + 1 \in 1 .. K /\ (x + 1) - 1 = x
    BY <1>1
  <2> QED BY <1>3, <1>4, <2>1
<1> QED BY <1>2, <1>4, <1>5, <1>6 DEF K, size

\* The vector from its beginning is the whole of it.
LEMMA IovWhole ==
  ASSUME ev \in Event, MemInv, NEW v \in Nat, NEW n \in Nat, NEW lim \in Nat, NEW show \in BOOLEAN
  PROVE  IovLeft(v, n, 0, lim, show) = IovRendering(v, n, lim, show)
<1> DEFINE K == IovCount(v, n)
           all == read_mem(v, 2 * n)
           S == IovSizes(v, n)
           f == IovTexts(v, n, 0, lim, show)
           left(x) == IF S[x - 1] < lim THEN lim - S[x - 1] ELSE 0
<1>1. K \in Nat /\ S[0] = 0 /\ \A x \in 0 .. K : S[x] \in Nat
  BY IovIs, IovSizesAre
<1>2. ASSUME NEW x \in 1 .. K PROVE f[x] = IovElement(all, x, left(x), show)
  <2>1. x - 1 \in 0 .. K
    BY <1>1
  <2>2. S[x - 1] - S[0] = S[x - 1]
    BY <1>1, <2>1
  <2>3. IovShare(v, n, 0, lim, x) = left(x)
    BY <2>2 DEF IovShare, Share
  <2> QED BY <2>3 DEF IovTexts
<1>3. f = [x \in 1 .. K |-> IovElement(all, x, left(x), show)]
  <2>1. f = [x \in 1 .. K |-> f[x]]
    BY DEF IovTexts
  <2> HIDE DEF f, K, all, left
  <2> QED BY <1>2, <2>1
<1>4. FlatFrom(f, K, 0) = FlattenSeq(f)
  <2>1. f = [x \in 1 .. K |-> f[x]]
    BY DEF IovTexts
  <2> HIDE DEF K, f
  <2>2. K - 0 = K /\ \A x \in 1 .. K : 0 + x = x
    BY <1>1
  <2>3. [x \in 1 .. K - 0 |-> f[0 + x]] = f
    BY <2>1, <2>2
  <2> QED BY <2>3 DEF FlatFrom
<1>5. IovLeft(v, n, 0, lim, show) =
        IF v = 0 \/ ~dereference THEN Ptr(v) ELSE FlattenSeq(f) \o IovEnd(v, n)
  BY <1>4, Zenon DEF IovLeft
<1>6. IovRendering(v, n, lim, show) =
        IF v = 0 \/ ~dereference THEN Ptr(v) ELSE FlattenSeq(f) \o IovEnd(v, n)
  BY <1>3 DEF IovRendering, IovEnd, IovCount, IovSizes
<1> QED BY <1>5, <1>6

\* What an element takes from the limit, the elements after it do not get.
LEMMA ShareShifts ==
  ASSUME NEW lim \in Nat, NEW size \in Nat, NEW a \in Nat, NEW b \in Nat, b >= a + size,
         NEW new, new = LimitLeft(lim, Least(size, lim))
  PROVE  /\ new \in Nat
         /\ Share(lim, b - a) = Share(new, b - (a + size))
<1>1. CASE size < lim
  <2>1. new = lim - size
    BY <1>1 DEF LimitLeft, Least
  <2> QED BY <1>1, <2>1 DEF Share
<1>2. CASE ~(size < lim)
  <2>1. new = 0
    BY <1>2 DEF LimitLeft, Least
  <2> QED BY <1>2, <2>1 DEF Share
<1> QED BY <1>1, <1>2

\* The next element of a vector, and the ones after it with what it leaves of the limit.
LEMMA IovNext ==
  ASSUME ev \in Event, MemInv, NEW v \in Nat, v # 0, dereference, NEW n \in Nat,
         NEW i \in 0 .. IovCount(v, n), NEW lim \in Nat, NEW show \in BOOLEAN
  PROVE  /\ IovLeft(v, n, i, lim, show) \in Text
         /\ i = IovCount(v, n) => IovLeft(v, n, i, lim, show) = IovEnd(v, n)
         /\ \A all, new :
              /\ i < IovCount(v, n) /\ all = read_mem(v, 2 * n)
              /\ new = LimitLeft(lim, Least(ptr_value(all[2 * (i + 1)]), lim))
              => IovLeft(v, n, i, lim, show)
                   = IovElement(all, i + 1, lim, show) \o IovLeft(v, n, i + 1, new, show)
<1> SUFFICES ASSUME NEW all, all = read_mem(v, 2 * n),
                    NEW new, new = LimitLeft(lim, Least(ptr_value(all[2 * (i + 1)]), lim))
             PROVE  /\ IovLeft(v, n, i, lim, show) \in Text
                    /\ i = IovCount(v, n) => IovLeft(v, n, i, lim, show) = IovEnd(v, n)
                    /\ i < IovCount(v, n) =>
                         IovLeft(v, n, i, lim, show)
                           = IovElement(all, i + 1, lim, show) \o IovLeft(v, n, i + 1, new, show)
  OBVIOUS
<1> DEFINE K == IovCount(v, n)
           S == IovSizes(v, n)
           e == IovEnd(v, n)
           share(m, l, x) == IovShare(v, n, m, l, x)
           f(m, l) == IovTexts(v, n, m, l, show)
<1>1. K \in Nat /\ i \in 0 .. K /\ e \in Text
  BY IovIs
<1>2. /\ \A x \in 0 .. K : S[x] \in Nat
      /\ \A x, y \in 0 .. K : x <= y => S[x] <= S[y]
      /\ \A x \in 0 .. K - 1 : S[x + 1] = S[x] + ptr_value(all[2 * (x + 1)])
  BY IovSizesAre
<1>3. \A m, l, x : share(m, l, x) = Share(l, S[x - 1] - S[m])
  BY DEF IovShare
<1>4. \A m, l : \A x \in 1 .. K : f(m, l)[x] = IovElement(all, x, share(m, l, x), show)
  BY DEF IovTexts
<1>5. \A m, l : IovLeft(v, n, m, l, show) = FlatFrom(f(m, l), K, m) \o e
  BY DEF IovLeft
<1>6. \A x \in 1 .. K : \A l \in Nat : IovElement(all, x, l, show) \in Text
  BY ElementType
<1> HIDE DEF K, S, e, share, f
<1>7. ASSUME NEW m \in 0 .. K, NEW l \in Nat, NEW x \in m + 1 .. K
      PROVE  share(m, l, x) \in Nat /\ f(m, l)[x] \in Text /\ x \in 1 .. K
  <2>1. x - 1 \in 0 .. K /\ x \in 1 .. K /\ m <= x - 1
    BY <1>1
  <2>2. S[x - 1] \in Nat /\ S[m] \in Nat /\ S[m] <= S[x - 1]
    BY <1>2, <2>1
  <2>3. share(m, l, x) \in Nat
    BY <1>3, <2>2 DEF Share
  <2> QED BY <1>4, <1>6, <2>1, <2>3
<1> DEFINE F(m, l) == FlatFrom(f(m, l), K, m)
<1>8. ASSUME NEW m \in 0 .. K, NEW l \in Nat
      PROVE  /\ F(m, l) \in Text
             /\ m = K => F(m, l) = <<>>
             /\ m < K => F(m, l) = f(m, l)[m + 1] \o FlatFrom(f(m, l), K, m + 1)
  BY <1>1, <1>7, <1>8, FlatNext
<1>9. IovLeft(v, n, i, lim, show) \in Text
  <2>1. F(i, lim) \in Text
    BY <1>1, <1>8
  <2> QED BY <1>1, <1>5, <2>1, TextConcat
<1>10. ASSUME i = K PROVE IovLeft(v, n, i, lim, show) = e
  <2>1. F(i, lim) = <<>>
    BY <1>1, <1>8, <1>10
  <2> QED BY <1>1, <1>5, <2>1, TextEmpty
<1>11. ASSUME i < K
       PROVE  IovLeft(v, n, i, lim, show)
                = IovElement(all, i + 1, lim, show) \o IovLeft(v, n, i + 1, new, show)
  <2> DEFINE size == ptr_value(all[2 * (i + 1)])
             x1 == IovElement(all, i + 1, lim, show)
  <2>1. /\ i + 1 \in 1 .. K /\ i + 1 \in 0 .. K /\ i \in 0 .. K - 1 /\ i + 1 \in i + 1 .. K
        /\ (i + 1) - 1 = i
    BY <1>1, <1>11
  <2>2. S[i] \in Nat /\ S[i + 1] \in Nat /\ S[i + 1] = S[i] + size /\ S[i] <= S[i + 1]
    BY <1>1, <1>2, <2>1
  <2>3. size \in Nat
    <3>1. \A x \in 1 .. K : ptr_value(all[2 * x]) \in Nat
      BY IovIs DEF K
    <3> QED BY <2>1, <3>1
  <2> HIDE DEF size
  <2>4. new = LimitLeft(lim, Least(size, lim))
    BY DEF size
  <2>5. new \in Nat
    BY <2>3, <2>4 DEF LimitLeft, Least
  <2>6. f(i, lim)[i + 1] = x1 /\ x1 \in Text
    <3>1. share(i, lim, i + 1) = lim
      <4>1. S[(i + 1) - 1] - S[i] = 0
        BY <2>1, <2>2
      <4> QED BY <1>3, <4>1 DEF Share
    <3> QED BY <1>4, <1>6, <2>1, <3>1
  <2>7. ASSUME NEW x \in i + 2 .. K PROVE f(i, lim)[x] = f(i + 1, new)[x]
    <3>1. x - 1 \in 0 .. K /\ x \in 1 .. K /\ i + 1 <= x - 1
      BY <1>1, <2>1
    <3>2. S[x - 1] \in Nat /\ S[x - 1] >= S[i] + size
      BY <1>2, <2>1, <2>2, <3>1
    <3>3. share(i, lim, x) = share(i + 1, new, x)
      <4>1. /\ share(i, lim, x) = Share(lim, S[x - 1] - S[i])
            /\ share(i + 1, new, x) = Share(new, S[x - 1] - (S[i] + size))
        BY <1>3, <2>2
      <4>2. Share(lim, S[x - 1] - S[i]) = Share(new, S[x - 1] - (S[i] + size))
        BY <2>2, <2>3, <2>4, <3>2, ShareShifts
      <4> QED BY <4>1, <4>2
    <3> QED BY <1>4, <3>1, <3>3
  <2>8. FlatFrom(f(i, lim), K, i + 1) = F(i + 1, new)
    <3>1. \A x \in 1 .. K - (i + 1) : (i + 1) + x \in i + 2 .. K
      BY <1>1, <2>1
    <3>2. \A x \in 1 .. K - (i + 1) : f(i, lim)[(i + 1) + x] = f(i + 1, new)[(i + 1) + x]
      BY <2>7, <3>1
    <3> QED BY <3>2 DEF FlatFrom
  <2>9. F(i + 1, new) \in Text
    BY <1>8, <2>1, <2>5
  <2>10. F(i, lim) = x1 \o F(i + 1, new)
    BY <1>1, <1>8, <1>11, <2>6, <2>8
  <2> HIDE DEF x1, F
  <2>11. (x1 \o F(i + 1, new)) \o e = x1 \o (F(i + 1, new) \o e)
    <3>1. Associates(x1, F(i + 1, new), e)
      BY <1>1, <2>6, <2>9, TextAssociates
    <3> QED BY <3>1 DEF Associates
  <2>12. IovLeft(v, n, i, lim, show) = F(i, lim) \o e
         /\ IovLeft(v, n, i + 1, new, show) = F(i + 1, new) \o e
    BY <1>5 DEF F
  <2> QED BY <2>10, <2>11, <2>12 DEF x1
<1> QED BY <1>9, <1>10, <1>11 DEF K, e

-----------------------------------------------------------------------------
(***************************************************************************)
(* If the memory stays as it is, the line is its rendering.                *)
(***************************************************************************)

\* What is to be seen of a job.
Shows(j) ==
  CASE j.k = "head" -> <<Tok("call", j.v)>>
    [] j.k \in ValueKinds -> ValueText(j.k, j.v, j.n)
    [] j.k = "result" -> ResultText
    [] j.k \in {"str", "chars"} -> StringRendering(j.v)
    [] j.k = "buffer" -> BufferRendering(j.v, j.n)
    [] j.k = "strv" -> StrvLeft(j.v, j.i)
    [] j.k = "iov" -> IovLeft(j.v, j.n, j.i, j.lim, j.show)
    [] OTHER -> <<>>

PointerKinds == {"str", "chars", "buffer", "strv", "iov"}

\* A string has been read as it is in the memory, up to a place before its end; a list
\* has not been taken beyond its end.
Steady(j) ==
  /\ j.k \in ValueKinds \cup PointerKinds \cup {"head", "result", "puts", "stack"}
  /\ j.k \in PointerKinds => j.v \in Nat
  /\ j.k = "chars" =>
       /\ j.v # 0 /\ dereference /\ Len(j.got) <= Len(read_mem(j.v, MaxStr))
       /\ \A x \in 1 .. Len(j.got) : j.got[x] = read_mem(j.v, MaxStr)[x] /\ j.got[x] # 0
  /\ j.k = "strv" /\ j.v # 0 /\ dereference => j.i <= Len(StrvSome(j.v))
  /\ j.k = "iov" /\ j.v # 0 /\ dereference => j.i <= IovCount(j.v, j.n)

ShowsAll(t) == FlattenSeq([x \in 1 .. Len(t) |-> Shows(t[x])])

\* The line that StableRendering asks for.
Whole ==
  <<Tok("call", ev.syscall_id)>>
  \o FlattenSeq([i \in 1 .. Len(Args) |-> ArgRendering(Args[i])]) \o ResultText

\* What has been printed and what is to be seen of the jobs left is the whole line.
Rendered(tx, t) ==
  (\A x \in 1 .. Len(t) : Steady(t[x])) /\ tx \o ShowsAll(t) = Whole

RenderInv ==
  changes = 0 /\ ev.syscall_id >= 0
    /\ (\A i \in DOMAIN Args : Args[i].kind \in FollowedKinds \cup ValueKinds) =>
      SpaceInv /\ Rendered(text, todo)

\* What is to be seen depends on the event and the memory.
LEMMA SameMemory ==
  ASSUME UNCHANGED <<ev, mem, mapped, owner>>
  PROVE  /\ \A j : Shows(j)' = Shows(j) /\ Steady(j)' = Steady(j)
         /\ Whole' = Whole /\ SpaceInv' = SpaceInv
<1>1. \A v : ptr_value(v)' = ptr_value(v) /\ read_addr(v)' = read_addr(v)
  BY DEF ptr_value, read_addr
<1>2. \A a, n : read(a, n)' = read(a, n)
  BY DEF read
<1>3. \A v, n : read_mem(v, n)' = read_mem(v, n)
  BY <1>1, <1>2 DEF read_mem
<1>4. \A v : Ptr(v)' = Ptr(v)
  BY <1>1 DEF Ptr
<1>5. \A v : StringRendering(v)' = StringRendering(v)
  BY <1>3, <1>4 DEF StringRendering
<1>6. \A v, n : BufferRendering(v, n)' = BufferRendering(v, n)
  BY <1>3, <1>4 DEF BufferRendering
<1>7. \A v : StrvPtrs(v)' = StrvPtrs(v)
  BY <1>1, <1>3 DEF StrvPtrs
<1>8. \A v : StrvSome(v)' = StrvSome(v) /\ StrvEnd(v)' = StrvEnd(v)
  BY <1>3, <1>7 DEF StrvSome, StrvEnd
<1>9. \A v, i : StrvLeft(v, i)' = StrvLeft(v, i)
  BY <1>4, <1>5, <1>8 DEF StrvLeft, StrvTexts
<1>10. \A v, n : IovCount(v, n)' = IovCount(v, n)
  BY <1>3 DEF IovCount
<1>11. \A v, n : IovSizes(v, n)' = IovSizes(v, n)
  BY <1>1, <1>3, <1>10 DEF IovSizes
<1>12. \A all, x, l, show : IovElement(all, x, l, show)' = IovElement(all, x, l, show)
  BY <1>1, <1>4, <1>6 DEF IovElement
<1>13. \A v, n, i, l, show : IovTexts(v, n, i, l, show)' = IovTexts(v, n, i, l, show)
  BY <1>3, <1>10, <1>11, <1>12 DEF IovTexts, IovShare
<1>14. \A v, n, i, l, show : IovLeft(v, n, i, l, show)' = IovLeft(v, n, i, l, show)
  BY <1>4, <1>10, <1>13 DEF IovLeft, IovEnd
<1>15. \A k, v, n : ValueText(k, v, n)' = ValueText(k, v, n)
  BY <1>1, <1>4, ZenonT(40) DEF ValueText
<1>16. ResultText' = ResultText /\ is_error' = is_error /\ returned' = returned
  BY DEF ResultText, is_error, returned, retval, call_name, syscall_table_lookup
<1>17. \A j : Shows(j)' = Shows(j)
  BY <1>5, <1>6, <1>9, <1>14, <1>15, <1>16 DEF Shows
<1>18. \A j : Steady(j)' = Steady(j)
  BY <1>3, <1>8, <1>10 DEF Steady
<1>19. \A v : StrvRendering(v)' = StrvRendering(v)
  <2> SUFFICES ASSUME NEW v PROVE StrvRendering(v)' = StrvRendering(v)
    OBVIOUS
  <2>1. StrvRendering(v) =
          IF v = 0 \/ ~dereference THEN Ptr(v) ELSE FlattenSeq(StrvTexts(v)) \o StrvEnd(v)
    BY DEF StrvRendering, StrvTexts, StrvSome, StrvPtrs, StrvEnd
  <2>2. StrvRendering(v)' =
          IF v = 0 \/ ~dereference THEN Ptr(v)' ELSE FlattenSeq(StrvTexts(v)') \o StrvEnd(v)'
    BY DEF StrvRendering, StrvTexts, StrvSome, StrvPtrs, StrvEnd
  <2>3. StrvTexts(v)' = StrvTexts(v)
    BY <1>5, <1>8 DEF StrvTexts
  <2> QED BY <1>4, <1>8, <2>1, <2>2, <2>3
<1>20. \A v, n, l, show : IovRendering(v, n, l, show)' = IovRendering(v, n, l, show)
  <2> SUFFICES ASSUME NEW v, NEW n, NEW l, NEW show
               PROVE  IovRendering(v, n, l, show)' = IovRendering(v, n, l, show)
    OBVIOUS
  <2> DEFINE left(x) == Share(l, IovSizes(v, n)[x - 1])
             texts == [x \in 1 .. IovCount(v, n) |-> IovElement(read_mem(v, 2 * n), x, left(x), show)]
  <2>1. IovRendering(v, n, l, show) =
          IF v = 0 \/ ~dereference THEN Ptr(v) ELSE FlattenSeq(texts) \o IovEnd(v, n)
    BY DEF IovRendering, Share, IovSizes, IovCount, IovEnd
  <2>2. IovRendering(v, n, l, show)' =
          IF v = 0 \/ ~dereference THEN Ptr(v)' ELSE FlattenSeq(texts') \o IovEnd(v, n)'
    BY DEF IovRendering, Share, IovSizes, IovCount, IovEnd
  <2>3. texts' = texts
    BY <1>3, <1>10, <1>11, <1>12
  <2>4. IovEnd(v, n)' = IovEnd(v, n)
    BY <1>10 DEF IovEnd
  <2> HIDE DEF texts
  <2> QED BY <1>4, <2>1, <2>2, <2>3, <2>4
<1>21. \A d : ArgRendering(d)' = ArgRendering(d)
  BY <1>4, <1>5, <1>6, <1>15, <1>16, <1>19, <1>20 DEF ArgRendering
<1>22. Whole' = Whole
  BY <1>16, <1>21, SameEvent DEF Whole
<1>23. SpaceInv' = SpaceInv
  BY DEF SpaceInv, Span
<1> QED BY <1>17, <1>18, <1>22, <1>23

\* What is to be seen of each kind of job.
LEMMA ShowsIs ==
  /\ \A j : j.k = "head" => Shows(j) = <<Tok("call", j.v)>>
  /\ \A j : j.k \in ValueKinds => Shows(j) = ValueText(j.k, j.v, j.n)
  /\ \A j : j.k = "result" => Shows(j) = ResultText
  /\ \A j : j.k \in {"str", "chars"} => Shows(j) = StringRendering(j.v)
  /\ \A j : j.k = "buffer" => Shows(j) = BufferRendering(j.v, j.n)
  /\ \A j : j.k = "strv" => Shows(j) = StrvLeft(j.v, j.i)
  /\ \A j : j.k = "iov" => Shows(j) = IovLeft(j.v, j.n, j.i, j.lim, j.show)
  /\ \A j : j.k \in {"puts", "stack"} => Shows(j) = <<>>
<1>1. ValueKinds \cap ({"head", "result", "puts", "stack"} \cup PointerKinds) = {}
  BY DEF ValueKinds, PointerKinds
<1>2. \A j : j.k \in ValueKinds =>
        j.k \notin {"head", "result", "str", "chars", "buffer", "strv", "iov", "puts", "stack"}
  BY <1>1 DEF PointerKinds
<1>3. \A j : j.k \in {"head", "result", "str", "chars", "buffer", "strv", "iov", "puts", "stack"} =>
        j.k \notin ValueKinds
  BY <1>2
<1>4. \A j : j.k \in ValueKinds => Shows(j) = ValueText(j.k, j.v, j.n)
  BY <1>2 DEF Shows
<1>5. \A j : j.k = "head" => Shows(j) = <<Tok("call", j.v)>>
  BY <1>3 DEF Shows
<1>6. \A j : j.k = "result" => Shows(j) = ResultText
  BY <1>3 DEF Shows
<1>7. \A j : j.k \in {"str", "chars"} => Shows(j) = StringRendering(j.v)
  BY <1>3 DEF Shows
<1>8. \A j : j.k = "buffer" => Shows(j) = BufferRendering(j.v, j.n)
  BY <1>3 DEF Shows
<1>9. \A j : j.k = "strv" => Shows(j) = StrvLeft(j.v, j.i)
  BY <1>3 DEF Shows
<1>10. \A j : j.k = "iov" => Shows(j) = IovLeft(j.v, j.n, j.i, j.lim, j.show)
  BY <1>3 DEF Shows
<1>11. \A j : j.k \in {"puts", "stack"} => Shows(j) = <<>>
  BY <1>3 DEF Shows
<1> QED BY <1>4, <1>5, <1>6, <1>7, <1>8, <1>9, <1>10, <1>11

\* A job is shown as a text.
LEMMA ShowsType ==
  ASSUME ev \in Event, MemInv, NEW j \in GoodJob, Steady(j)
  PROVE  Shows(j) \in Text
<1>1. /\ j.v \in Int /\ j.n \in Nat /\ j.i \in Nat /\ j.lim \in Nat /\ j.show \in BOOLEAN
      /\ (j.k = "iov" => j.i \in 0 .. j.n)
  BY OptionTypes DEF GoodJob
<1>2. j.k \in PointerKinds => j.v \in Nat
  BY DEF Steady
<1>3. CASE j.k = "head"
  <2>1. <<Tok("call", j.v)>> \in Text
    BY <1>1 DEF Tok, Token, Tags, Text
  <2> QED BY <1>3, <2>1, ShowsIs
<1>4. CASE j.k \in ValueKinds
  <2>1. ValueText(j.k, j.v, j.n) \in Text
    BY <1>1, <1>4, ValueTextType, PlainToken DEF Text
  <2> QED BY <1>4, <2>1, ShowsIs
<1>5. CASE j.k = "result"
  <2>1. ResultText \in Text
    BY ResultType, PlainToken DEF Text
  <2> QED BY <1>5, <2>1, ShowsIs
<1>6. CASE j.k \in {"str", "chars"}
  <2>1. j.v \in Nat
    BY <1>2, <1>6 DEF PointerKinds
  <2> QED BY <1>6, <2>1, ShowsIs, StringType
<1>7. CASE j.k = "buffer"
  <2>1. j.v \in Nat
    BY <1>2, <1>7 DEF PointerKinds
  <2> QED BY <1>1, <1>7, <2>1, ShowsIs, BufferType
<1>8. CASE j.k = "strv"
  <2>1. j.v \in Nat
    BY <1>2, <1>8 DEF PointerKinds
  <2>2. CASE j.v = 0 \/ ~dereference
    <3>1. Shows(j) = Ptr(j.v)
      BY <1>8, <2>2, ShowsIs DEF StrvLeft
    <3> QED BY <2>1, <3>1, MarkTexts
  <2>3. CASE j.v # 0 /\ dereference
    <3>1. j.i \in 0 .. Len(StrvSome(j.v))
      <4>1. Len(StrvSome(j.v)) \in Nat
        BY <2>1, StrvPtrsAre
      <4>2. j.i <= Len(StrvSome(j.v))
        BY <1>8, <2>3 DEF Steady
      <4> QED BY <1>1, <4>1, <4>2
    <3>2. StrvLeft(j.v, j.i) \in Text
      BY <2>1, <2>3, <3>1, StrvNext
    <3> QED BY <1>8, <3>2, ShowsIs
  <2> QED BY <2>2, <2>3
<1>9. CASE j.k = "iov"
  <2>1. j.v \in Nat
    BY <1>2, <1>9 DEF PointerKinds
  <2>2. CASE j.v = 0 \/ ~dereference
    <3>1. Shows(j) = Ptr(j.v)
      BY <1>9, <2>2, ShowsIs DEF IovLeft
    <3> QED BY <2>1, <3>1, MarkTexts
  <2>3. CASE j.v # 0 /\ dereference
    <3>1. j.i \in 0 .. IovCount(j.v, j.n)
      <4>1. IovCount(j.v, j.n) \in 0 .. j.n
        BY <1>1, <2>1, IovIs, Zenon
      <4>2. j.i <= IovCount(j.v, j.n)
        BY <1>9, <2>3 DEF Steady
      <4> QED BY <1>1, <4>1, <4>2
    <3>2. IovLeft(j.v, j.n, j.i, j.lim, j.show) \in Text
      BY <1>1, <2>1, <2>3, <3>1, IovNext
    <3> QED BY <1>9, <3>2, ShowsIs
  <2> QED BY <2>2, <2>3
<1>10. CASE j.k \in {"puts", "stack"}
  <2>1. <<>> \in Text
    BY DEF Text
  <2> QED BY <1>10, <2>1, ShowsIs
<1>11. j.k \in ValueKinds \cup {"str", "chars", "buffer", "strv", "iov"}
                 \cup {"head", "result", "puts", "stack"}
  BY DEF Steady, PointerKinds
<1> QED BY <1>3, <1>4, <1>5, <1>6, <1>7, <1>8, <1>9, <1>10, <1>11

\* What is to be seen of a list of jobs begins with its first one.
LEMMA ShowsFirst ==
  ASSUME ev \in Event, MemInv, NEW t \in Seq(GoodJob), \A x \in 1 .. Len(t) : Steady(t[x])
  PROVE  /\ ShowsAll(t) \in Text
         /\ t = <<>> => ShowsAll(t) = <<>>
         /\ t # <<>> => /\ ShowsAll(t) = Shows(Head(t)) \o ShowsAll(Tail(t))
                        /\ Shows(Head(t)) \in Text /\ Tail(t) \in Seq(GoodJob)
                        /\ Steady(Head(t)) /\ \A x \in 1 .. Len(Tail(t)) : Steady(Tail(t)[x])
<1> DEFINE n == Len(t)
           f == [x \in 1 .. n |-> Shows(t[x])]
<1>1. n \in Nat /\ \A x \in 1 .. n : t[x] \in GoodJob
  OBVIOUS
<1>2. \A x \in 1 .. n : f[x] = Shows(t[x]) /\ f[x] \in Text
  BY <1>1, ShowsType
<1>3. f = [x \in 1 .. n |-> f[x]] /\ ShowsAll(t) = FlattenSeq(f)
  BY DEF ShowsAll
<1>4. t = <<>> <=> n = 0
  BY EmptySeq
<1>5. t # <<>> => /\ Head(t) = t[1] /\ Tail(t) \in Seq(GoodJob) /\ Len(Tail(t)) = n - 1
                  /\ \A x \in 1 .. n - 1 : Tail(t)[x] = t[x + 1]
  OBVIOUS
<1> HIDE DEF n, f
<1>6. /\ FlattenSeq(f) \in Text
      /\ n = 0 => FlattenSeq(f) = <<>>
      /\ n > 0 => FlattenSeq(f) = f[1] \o FlattenSeq([i \in 1 .. n - 1 |-> f[i + 1]])
  BY <1>1, <1>2, <1>3, TextFlat
<1>7. ASSUME t # <<>>
      PROVE  /\ ShowsAll(t) = Shows(Head(t)) \o ShowsAll(Tail(t))
             /\ Shows(Head(t)) \in Text /\ Tail(t) \in Seq(GoodJob)
             /\ Steady(Head(t)) /\ \A x \in 1 .. Len(Tail(t)) : Steady(Tail(t)[x])
  <2>1. n > 0 /\ 1 \in 1 .. n /\ \A x \in 1 .. n - 1 : x + 1 \in 1 .. n
    BY <1>1, <1>4, <1>7
  <2>2. \A x \in 1 .. n - 1 : f[x + 1] = Shows(Tail(t)[x])
    BY <1>2, <1>5, <1>7, <2>1
  <2>3. [i \in 1 .. n - 1 |-> f[i + 1]] = [x \in 1 .. Len(Tail(t)) |-> Shows(Tail(t)[x])]
    BY <1>5, <1>7, <2>2
  <2>4. FlattenSeq([i \in 1 .. n - 1 |-> f[i + 1]]) = ShowsAll(Tail(t))
    BY <2>3 DEF ShowsAll
  <2>5. f[1] = Shows(Head(t)) /\ f[1] \in Text
    BY <1>2, <1>5, <1>7, <2>1
  <2>6. Steady(Head(t)) /\ \A x \in 1 .. Len(Tail(t)) : Steady(Tail(t)[x])
    BY <1>5, <1>7, <2>1 DEF n
  <2> QED BY <1>3, <1>5, <1>6, <1>7, <2>1, <2>4, <2>5, <2>6
<1> QED BY <1>3, <1>4, <1>6, <1>7

\* A job before others.
LEMMA ShowsMore ==
  ASSUME ev \in Event, MemInv, NEW x \in GoodJob, Steady(x),
         NEW u \in Seq(GoodJob), \A a \in 1 .. Len(u) : Steady(u[a])
  PROVE  /\ <<x>> \o u \in Seq(GoodJob) /\ \A a \in 1 .. Len(<<x>> \o u) : Steady((<<x>> \o u)[a])
         /\ ShowsAll(<<x>> \o u) = Shows(x) \o ShowsAll(u)
<1> DEFINE t == <<x>> \o u
<1>1. /\ t \in Seq(GoodJob) /\ Len(t) = Len(u) + 1 /\ t[1] = x /\ t # <<>>
      /\ Head(t) = x /\ Tail(t) = u /\ \A a \in 2 .. Len(t) : t[a] = u[a - 1]
  OBVIOUS
<1>2. \A a \in 1 .. Len(t) : Steady(t[a])
  <2> SUFFICES ASSUME NEW a \in 1 .. Len(t) PROVE Steady(t[a])
    OBVIOUS
  <2>1. CASE a = 1
    BY <1>1, <2>1
  <2>2. CASE a # 1
    <3>1. a \in 2 .. Len(t) /\ a - 1 \in 1 .. Len(u)
      BY <1>1, <2>2
    <3> QED BY <1>1, <3>1
  <2> QED BY <2>1, <2>2
<1> HIDE DEF t
<1>3. ShowsAll(t) = Shows(Head(t)) \o ShowsAll(Tail(t))
  BY <1>1, <1>2, ShowsFirst
<1> QED BY <1>1, <1>2, <1>3 DEF t

\* A job that prints what is to be seen of it leaves the rest.
LEMMA EmitRenders ==
  ASSUME ev \in Event, MemInv, NEW t \in Seq(GoodJob), t # <<>>, NEW tx \in Text, Rendered(tx, t)
  PROVE  Rendered(tx \o Shows(Head(t)), Tail(t))
<1> DEFINE s == Shows(Head(t))
           r == ShowsAll(Tail(t))
<1>1. \A x \in 1 .. Len(t) : Steady(t[x])
  BY DEF Rendered
<1>2. /\ ShowsAll(t) = s \o r /\ s \in Text /\ Tail(t) \in Seq(GoodJob)
      /\ \A x \in 1 .. Len(Tail(t)) : Steady(Tail(t)[x])
  BY <1>1, ShowsFirst
<1>3. r \in Text
  BY <1>2, ShowsFirst
<1>4. tx \o (s \o r) = Whole
  BY <1>2 DEF Rendered
<1> HIDE DEF s, r
<1>5. (tx \o s) \o r = Whole
  BY <1>2, <1>3, <1>4, TextAssoc
<1> QED BY <1>2, <1>5 DEF Rendered, s, r

\* Two elements, one after the other.
LEMMA PairIs ==
  ASSUME NEW S, NEW x \in S, NEW y \in S
  PROVE  <<x, y>> = <<x>> \o <<y>> /\ <<x>> \in Seq(S) /\ <<y>> \in Seq(S)
<1>1. <<x>> \in Seq(S) /\ <<y>> \in Seq(S) /\ Len(<<x>>) = 1 /\ Len(<<y>>) = 1
  OBVIOUS
<1>2. <<x>> \o <<y>> \in Seq(S) /\ Len(<<x>> \o <<y>>) = 2
  BY <1>1
<1>3. (<<x>> \o <<y>>)[1] = x /\ (<<x>> \o <<y>>)[2] = y
  BY <1>1
<1>4. <<x, y>> \in Seq(S) /\ Len(<<x, y>>) = 2 /\ <<x, y>>[1] = x /\ <<x, y>>[2] = y
  OBVIOUS
<1>5. \A i \in 1 .. Len(<<x, y>>) : <<x, y>>[i] = (<<x>> \o <<y>>)[i]
  BY <1>3, <1>4
<1> QED BY <1>1, <1>2, <1>4, <1>5, SeqEqual

\* A job may be replaced by jobs that show the same.
LEMMA ReplaceRenders ==
  ASSUME ev \in Event, MemInv, NEW t \in Seq(GoodJob), t # <<>>, NEW tx \in Text, Rendered(tx, t)
  PROVE  /\ \A x \in GoodJob :
              Steady(x) /\ Shows(x) = Shows(Head(t)) => Rendered(tx \o <<>>, <<x>> \o Tail(t))
         /\ \A x, y \in GoodJob :
              Steady(x) /\ Steady(y) /\ Shows(Head(t)) = Shows(x) \o Shows(y) =>
                Rendered(tx \o <<>>, <<x, y>> \o Tail(t))
         /\ \A x, y, z \in GoodJob :
              Steady(x) /\ Steady(y) /\ Steady(z)
              /\ Shows(Head(t)) = Shows(x) \o (Shows(y) \o Shows(z)) =>
                Rendered(tx \o <<>>, <<x, y, z>> \o Tail(t))
<1> DEFINE s == Shows(Head(t))
           u == Tail(t)
           r == ShowsAll(u)
           Good(q) == q \in Seq(GoodJob) /\ \A a \in 1 .. Len(q) : Steady(q[a])
<1>1. \A x \in 1 .. Len(t) : Steady(t[x])
  BY DEF Rendered
<1>2. ShowsAll(t) = s \o r /\ s \in Text /\ Good(u)
  BY <1>1, ShowsFirst
<1>3. r \in Text
  BY <1>2, ShowsFirst
<1>4. tx \o (s \o r) = Whole
  BY <1>2 DEF Rendered
<1>5. ASSUME NEW q, Good(q), ShowsAll(q) = s \o r PROVE Rendered(tx \o <<>>, q)
  <2>1. tx \o <<>> = tx
    BY TextEmpty
  <2> QED BY <1>4, <1>5, <2>1 DEF Rendered
<1>6. ASSUME NEW x \in GoodJob, Steady(x), NEW q, Good(q)
      PROVE  Good(<<x>> \o q) /\ ShowsAll(<<x>> \o q) = Shows(x) \o ShowsAll(q)
  BY <1>6, ShowsMore
<1>7. \A x \in GoodJob : Steady(x) => Shows(x) \in Text
  BY ShowsType
<1>8. ASSUME NEW x \in GoodJob, NEW y \in GoodJob, NEW q \in Seq(GoodJob)
      PROVE  <<x, y>> \o q = <<x>> \o (<<y>> \o q)
  <2>1. <<x, y>> = <<x>> \o <<y>> /\ <<x>> \in Seq(GoodJob) /\ <<y>> \in Seq(GoodJob)
    BY PairIs
  <2> QED BY <2>1, ConcatAssociative
<1>9. ASSUME NEW x \in GoodJob, NEW y \in GoodJob, NEW z \in GoodJob, NEW q \in Seq(GoodJob)
      PROVE  <<x, y, z>> \o q = <<x>> \o (<<y, z>> \o q)
  <2>1. <<x, y, z>> = <<x>> \o <<y, z>> /\ <<x>> \in Seq(GoodJob) /\ <<y, z>> \in Seq(GoodJob)
    OBVIOUS
  <2> QED BY <2>1, ConcatAssociative
<1> HIDE DEF s, u, r
<1>10. ASSUME NEW x \in GoodJob, Steady(x), Shows(x) = s PROVE Rendered(tx \o <<>>, <<x>> \o u)
  <2>1. Good(<<x>> \o u) /\ ShowsAll(<<x>> \o u) = s \o r
    BY <1>2, <1>6, <1>10 DEF r
  <2> QED BY <1>5, <2>1
<1>11. ASSUME NEW x \in GoodJob, NEW y \in GoodJob, Steady(x), Steady(y), s = Shows(x) \o Shows(y)
       PROVE  Rendered(tx \o <<>>, <<x, y>> \o u)
  <2>1. Good(<<y>> \o u) /\ ShowsAll(<<y>> \o u) = Shows(y) \o r
    BY <1>2, <1>6, <1>11 DEF r
  <2>2. Good(<<x, y>> \o u) /\ ShowsAll(<<x, y>> \o u) = Shows(x) \o (Shows(y) \o r)
    <3>1. <<x, y>> \o u = <<x>> \o (<<y>> \o u)
      BY <1>2, <1>8
    <3> HIDE DEF Good
    <3> QED BY <1>6, <1>11, <2>1, <3>1
  <2>3. (Shows(x) \o Shows(y)) \o r = Shows(x) \o (Shows(y) \o r)
    <3>1. Associates(Shows(x), Shows(y), r)
      BY <1>3, <1>7, <1>11, TextAssociates
    <3> QED BY <3>1 DEF Associates
  <2> QED BY <1>5, <1>11, <2>2, <2>3
<1>12. ASSUME NEW x \in GoodJob, NEW y \in GoodJob, NEW z \in GoodJob,
              Steady(x), Steady(y), Steady(z), s = Shows(x) \o (Shows(y) \o Shows(z))
       PROVE  Rendered(tx \o <<>>, <<x, y, z>> \o u)
  <2> DEFINE a == Shows(x)
             b == Shows(y)
             c == Shows(z)
  <2>1. Good(<<z>> \o u) /\ ShowsAll(<<z>> \o u) = c \o r
    BY <1>2, <1>6, <1>12 DEF r
  <2>2. Good(<<y, z>> \o u) /\ ShowsAll(<<y, z>> \o u) = b \o (c \o r)
    <3>1. <<y, z>> \o u = <<y>> \o (<<z>> \o u)
      BY <1>2, <1>8
    <3> HIDE DEF Good
    <3> QED BY <1>6, <1>12, <2>1, <3>1
  <2>3. Good(<<x, y, z>> \o u) /\ ShowsAll(<<x, y, z>> \o u) = a \o (b \o (c \o r))
    <3>1. <<x, y, z>> \o u = <<x>> \o (<<y, z>> \o u)
      BY <1>2, <1>9, ZenonT(40)
    <3> HIDE DEF Good
    <3> QED BY <1>6, <1>12, <2>2, <3>1
  <2>4. a \in Text /\ b \in Text /\ c \in Text
    BY <1>7, <1>12
  <2>5. s = a \o (b \o c)
    BY <1>12
  <2> HIDE DEF a, b, c
  <2>6. b \o c \in Text
    BY <2>4, TextConcat
  <2>7. (a \o (b \o c)) \o r = a \o ((b \o c) \o r)
    <3> DEFINE d == b \o c
    <3> HIDE DEF d
    <3>1. d \in Text
      BY <2>6 DEF d
    <3>2. (a \o d) \o r = a \o (d \o r)
      <4>1. Associates(a, d, r)
        BY <1>3, <2>4, <3>1, TextAssociates
      <4> QED BY <4>1 DEF Associates
    <3> QED BY <3>2 DEF d
  <2>8. (b \o c) \o r = b \o (c \o r)
    <3>1. Associates(b, c, r)
      BY <1>3, <2>4, TextAssociates
    <3> QED BY <3>1 DEF Associates
  <2> QED BY <1>5, <2>3, <2>5, <2>7, <2>8
<1> QED BY <1>10, <1>11, <1>12 DEF s, u

\* The step is judged by the memory before it, which is the same.
LEMMA RenderedStep ==
  ASSUME UNCHANGED <<ev, mem, mapped, owner>>, Rendered(text', todo')
  PROVE  Rendered(text, todo)'
<1>1. \A x \in 1 .. Len(todo') : Steady(todo'[x])
  BY DEF Rendered
<1>2. \A j : Shows(j)' = Shows(j) /\ Steady(j)' = Steady(j)
  BY SameMemory
<1>3. \A x \in 1 .. Len(todo') : Steady(todo[x])'
  BY <1>1, <1>2
<1>4. ShowsAll(todo)' = ShowsAll(todo')
  BY <1>2 DEF ShowsAll
<1>5. text' \o ShowsAll(todo') = Whole'
  BY SameMemory DEF Rendered
<1> QED BY <1>3, <1>4, <1>5 DEF Rendered

Quiet == UNCHANGED <<ev, mem, mapped, owner>>

\* The first job is as steady as the others.
LEMMA SteadyJob ==
  ASSUME TypeInv, todo # <<>>, Rendered(text, todo)
  PROVE  /\ job \in GoodJob /\ Steady(job) /\ Shows(job) \in Text /\ text \in Text
         /\ ev \in Event /\ MemInv
<1>1. /\ todo \in Seq(GoodJob) /\ ev \in Event /\ MemInv /\ text \in Text
      /\ \A x \in 1 .. Len(todo) : Steady(todo[x])
  BY DEF TypeInv, OutInv, Text, Rendered
<1> QED BY <1>1, FirstJob, ShowsFirst DEF job

\* A step that prints what is to be seen of the first job.
LEMMA EmitStep ==
  ASSUME TypeInv, todo # <<>>, Rendered(text, todo), Emit(Shows(job)), Quiet
  PROVE  Rendered(text, todo)'
<1>1. text \in Text /\ ev \in Event /\ MemInv /\ todo \in Seq(GoodJob)
  BY SteadyJob DEF TypeInv
<1>2. Rendered(text \o Shows(job), Tail(todo))
  BY <1>1, EmitRenders DEF job
<1>3. text' = text \o Shows(job) /\ todo' = Tail(todo)
  BY DEF Emit, out_printf
<1> QED BY <1>2, <1>3, RenderedStep DEF Quiet

\* A step that replaces the first job.
LEMMA ReplaceStep ==
  ASSUME TypeInv, todo # <<>>, Rendered(text, todo), Quiet, NEW x \in GoodJob, NEW y \in GoodJob,
         NEW z \in GoodJob, Steady(x)
  PROVE  /\ EmitThen(<<>>, <<x>>) /\ Shows(x) = Shows(job) => Rendered(text, todo)'
         /\ EmitThen(<<>>, <<x, y>>) /\ Steady(y) /\ Shows(job) = Shows(x) \o Shows(y) =>
              Rendered(text, todo)'
         /\ EmitThen(<<>>, <<x, y, z>>) /\ Steady(y) /\ Steady(z)
            /\ Shows(job) = Shows(x) \o (Shows(y) \o Shows(z)) => Rendered(text, todo)'
<1>1. text \in Text /\ ev \in Event /\ MemInv /\ todo \in Seq(GoodJob)
  BY SteadyJob DEF TypeInv
<1>2. \A js : EmitThen(<<>>, js) => text' = text \o <<>> /\ todo' = js \o Tail(todo)
  BY DEF EmitThen, out_printf
<1>3. \A js : EmitThen(<<>>, js) /\ Rendered(text \o <<>>, js \o Tail(todo)) =>
               Rendered(text', todo')
  BY <1>2, Zenon
<1>4. \A js : EmitThen(<<>>, js) /\ Rendered(text \o <<>>, js \o Tail(todo)) =>
               Rendered(text, todo)'
  BY <1>3, RenderedStep DEF Quiet
<1>5. /\ Shows(x) = Shows(job) => Rendered(text \o <<>>, <<x>> \o Tail(todo))
      /\ Steady(y) /\ Shows(job) = Shows(x) \o Shows(y) =>
           Rendered(text \o <<>>, <<x, y>> \o Tail(todo))
      /\ Steady(y) /\ Steady(z) /\ Shows(job) = Shows(x) \o (Shows(y) \o Shows(z)) =>
           Rendered(text \o <<>>, <<x, y, z>> \o Tail(todo))
  BY <1>1, ReplaceRenders DEF job
<1> QED BY <1>4, <1>5

\* One iteration of the loop of print_cstring goes on in the string as a whole; when it
\* ends, it shows that string.
LEMMA StringNext ==
  ASSUME ev \in Event, MemInv, SpaceInv, NEW j \in GoodJob, Steady(j), j.k = "chars",
         NEW got, got = read_mem(ChunkAddr(j), Chunk(Len(j.got))),
         NEW nul, nul = FirstNul(got)
  PROVE  /\ nul > 0 => StringText(j.v, j.got \o SubSeq(got, 1, nul - 1), TRUE) = StringRendering(j.v)
         /\ nul = 0 /\ (Len(got) < Chunk(Len(j.got)) \/ Len(j.got \o got) >= MaxStr) =>
              StringText(j.v, j.got \o got, FALSE) = StringRendering(j.v)
         /\ nul = 0 => Steady([j EXCEPT !.got = j.got \o got])
<1> DEFINE v == j.v
           seen == j.got
           used == Len(seen)
           chunk == Chunk(used)
           whole == read_mem(v, MaxStr)
           end == FirstNul(whole)
           all == seen \o got
<1>1. /\ v \in Nat /\ v # 0 /\ dereference /\ seen \in Seq(Nat) /\ used \in Nat /\ used < MaxStr
      /\ used <= Len(whole) /\ \A x \in 1 .. used : seen[x] = whole[x] /\ seen[x] # 0
  BY DEF Steady, GoodJob, PointerKinds
<1>2. MaxStr \in Nat /\ CHUNK \in Nat
  BY OptionTypes
<1>3. chunk \in Nat /\ used + chunk <= MaxStr
  BY <1>1, <1>2 DEF Chunk, Least
<1>4. whole \in Seq(Nat) /\ Len(whole) \in 0 .. MaxStr
  <2>1. v \in Int
    BY <1>1
  <2>2. whole \in Seq(Nat) /\ Len(whole) <= MaxStr
    BY <1>2, <2>1, ReadType
  <2> HIDE DEF whole
  <2> QED BY <1>2, <2>2
<1>5. got = read_mem(v + used, chunk)
  BY DEF ChunkAddr
<1> HIDE DEF v, seen, whole, chunk
<1>6. /\ Len(got) = Least(chunk, Len(whole) - used)
      /\ \A i \in 1 .. Len(got) : got[i] = whole[used + i]
  <2>1. used \in 0 .. Len(whole)
    BY <1>1, <1>4
  <2>2. whole = read_mem(v, MaxStr)
    BY DEF whole
  <2> HIDE DEF used
  <2>3. /\ Len(read_mem(v + used, chunk)) = Least(chunk, Len(whole) - used)
        /\ \A i \in 1 .. Len(read_mem(v + used, chunk)) :
             read_mem(v + used, chunk)[i] = whole[used + i]
    <3>1. v \in Nat /\ v # 0 /\ dereference /\ used + chunk <= MaxStr /\ chunk \in Nat
      BY <1>1, <1>3
    <3> QED BY <1>2, <2>1, <2>2, <3>1, ReadOn, ZenonT(40)
  <2> QED BY <1>5, <2>3
<1>7. got \in Seq(Nat)
  <2>1. v + used \in Int
    BY <1>1
  <2> QED BY <1>3, <1>5, <2>1, ReadType
<1>8. Len(got) <= chunk /\ Len(got) <= Len(whole) - used /\ Len(got) \in Nat
      /\ (Len(got) < chunk => Len(got) = Len(whole) - used)
  BY <1>1, <1>3, <1>4, <1>6, <1>7 DEF Least
<1>9. /\ nul \in 0 .. Len(got) /\ (nul > 0 => got[nul] = 0)
      /\ \A i \in 1 .. Len(got) : got[i] = 0 => 0 < nul /\ nul <= i
  BY <1>7, NulIs
<1>10. /\ end \in 0 .. Len(whole) /\ (end > 0 => whole[end] = 0)
       /\ \A i \in 1 .. Len(whole) : whole[i] = 0 => 0 < end /\ end <= i
  BY <1>4, NulIs
<1>11. /\ all \in Seq(Nat) /\ Len(all) = used + Len(got)
       /\ \A i \in 1 .. Len(all) : all[i] = IF i <= used THEN seen[i] ELSE got[i - used]
  BY <1>1, <1>7, ConcatIs
<1> HIDE DEF end, all, used
<1>20. /\ used \in Nat /\ Len(got) \in Nat /\ Len(whole) \in Nat /\ Len(all) = used + Len(got)
       /\ used <= Len(whole) /\ Len(all) <= Len(whole)
  BY <1>1, <1>4, <1>8, <1>11
<1>12. \A i \in 1 .. Len(all) : all[i] = whole[i] /\ i \in 1 .. Len(whole)
  <2> SUFFICES ASSUME NEW i \in 1 .. Len(all) PROVE all[i] = whole[i] /\ i \in 1 .. Len(whole)
    OBVIOUS
  <2>1. CASE i <= used
    <3>1. i \in 1 .. used /\ i \in 1 .. Len(whole)
      BY <1>20, <2>1
    <3> QED BY <1>1, <1>11, <2>1, <3>1
  <2>2. CASE i > used
    <3>1. i - used \in 1 .. Len(got) /\ used + (i - used) = i
      BY <1>20, <2>2
    <3>2. all[i] = got[i - used]
      BY <1>1, <1>11, <2>2
    <3>3. got[i - used] = whole[i]
      BY <1>6, <3>1
    <3> QED BY <1>1, <1>4, <1>8, <1>11, <3>2, <3>3
  <2> QED BY <1>1, <2>1, <2>2
<1>13. end > 0 => end > used
  <2> SUFFICES ASSUME end > 0, end <= used PROVE FALSE
    BY <1>1, <1>10
  <2>1. end \in 1 .. used
    BY <1>1, <1>10
  <2> QED BY <1>1, <1>10, <2>1
<1>14. StringRendering(v) =
         IF whole = <<>> THEN Ptr(v) \o Mark("unreadable")
         ELSE IF end = 0 THEN Quoted(whole, TRUE)
         ELSE Quoted(SubSeq(whole, 1, end - 1), FALSE)
  BY <1>1 DEF StringRendering, whole, end
<1>15. ASSUME nul > 0
       PROVE  StringText(v, seen \o SubSeq(got, 1, nul - 1), TRUE) = StringRendering(v)
  <2> DEFINE a == SubSeq(got, 1, nul - 1)
             b == SubSeq(whole, 1, end - 1)
  <2>1. nul \in 1 .. Len(got) /\ got[nul] = 0
    BY <1>9, <1>15
  <2>2. whole[used + nul] = 0 /\ used + nul \in 1 .. Len(whole)
    BY <1>1, <1>4, <1>6, <1>8, <2>1, SMTT(30)
  <2>3. end > 0 /\ end <= used + nul /\ end > used
    BY <1>10, <1>13, <2>2
  <2>4. end = used + nul
    <3>1. end - used \in 1 .. Len(got) /\ used + (end - used) = end
      BY <1>1, <1>8, <1>10, <2>1, <2>3
    <3>2. got[end - used] = 0
      BY <1>6, <1>10, <2>3, <3>1
    <3>3. nul <= end - used
      BY <1>9, <3>1, <3>2
    <3> QED BY <1>1, <1>10, <2>1, <2>3, <3>3
  <2>5. a \in Seq(Nat) /\ Len(a) = nul - 1 /\ \A i \in 1 .. nul - 1 : a[i] = got[i]
    <3>1. nul - 1 \in 0 .. Len(got)
      BY <2>1
    <3> QED BY <1>7, <3>1, PrefixIs
  <2>6. b \in Seq(Nat) /\ Len(b) = end - 1 /\ \A i \in 1 .. end - 1 : b[i] = whole[i]
    <3>1. end - 1 \in 0 .. Len(whole)
      BY <1>10, <2>3
    <3> QED BY <1>4, <3>1, PrefixIs
  <2> HIDE DEF a, b
  <2>7. /\ seen \o a \in Seq(Nat) /\ Len(seen \o a) = used + (nul - 1)
        /\ \A i \in 1 .. Len(seen \o a) : (seen \o a)[i] = IF i <= used THEN seen[i] ELSE a[i - used]
    <3>1. /\ seen \o a \in Seq(Nat) /\ Len(seen \o a) = Len(seen) + Len(a)
          /\ \A i \in 1 .. Len(seen \o a) :
               (seen \o a)[i] = IF i <= Len(seen) THEN seen[i] ELSE a[i - Len(seen)]
      BY <1>1, <2>5, ConcatIs
    <3> QED BY <2>5, <3>1 DEF used
  <2>8. \A i \in 1 .. Len(seen \o a) : (seen \o a)[i] = b[i]
    <3> SUFFICES ASSUME NEW i \in 1 .. Len(seen \o a) PROVE (seen \o a)[i] = b[i]
      OBVIOUS
    <3>1. i \in 1 .. end - 1 /\ i \in 1 .. Len(all)
      <4>1. Len(seen \o a) = used + (nul - 1)
        BY <2>7
      <4> QED BY <1>20, <2>1, <2>4, <4>1
    <3>2. b[i] = all[i]
      BY <1>12, <2>6, <3>1
    <3>3. CASE i <= used
      BY <1>11, <2>7, <3>1, <3>2, <3>3
    <3>4. CASE i > used
      <4>1. i - used \in 1 .. nul - 1
        BY <1>1, <2>1, <2>7, <3>4
      <4>2. (seen \o a)[i] = a[i - used] /\ all[i] = got[i - used]
        BY <1>1, <1>11, <2>7, <3>1, <3>4, SMTT(30)
      <4> QED BY <2>5, <3>2, <4>1, <4>2
    <3> QED BY <1>1, <3>3, <3>4
  <2>9. seen \o a = b
    <3>1. Len(seen \o a) = Len(b)
      BY <1>1, <2>1, <2>4, <2>6, <2>7
    <3> QED BY <2>6, <2>7, <2>8, <3>1, SeqEqual
  <2>10. whole # <<>>
    BY <1>4, <2>2
  <2>11. StringRendering(v) = Quoted(b, FALSE)
    <3>1. end # 0
      BY <2>3
    <3> QED BY <1>14, <2>10, <3>1 DEF b
  <2>12. StringText(v, seen \o a, TRUE) = Quoted(seen \o a, FALSE)
    BY DEF StringText
  <2> QED BY <2>9, <2>11, <2>12 DEF a
<1>16. nul = 0 => \A i \in 1 .. Len(all) : all[i] # 0
  <2> SUFFICES ASSUME nul = 0, NEW i \in 1 .. Len(all), all[i] = 0 PROVE FALSE
    OBVIOUS
  <2>1. CASE i <= used
    BY <1>1, <1>11, <2>1
  <2>2. CASE i > used
    <3>1. i - used \in 1 .. Len(got)
      BY <1>20, <2>2
    <3>2. all[i] = got[i - used]
      BY <1>11, <1>20, <2>2
    <3> QED BY <1>9, <3>1, <3>2
  <2> QED BY <1>20, <2>1, <2>2
<1>17. ASSUME nul = 0, Len(got) < chunk \/ Len(all) >= MaxStr
       PROVE  StringText(v, all, FALSE) = StringRendering(v)
  <2>1. Len(all) = Len(whole)
    BY <1>1, <1>2, <1>4, <1>8, <1>11, <1>17
  <2>2. all = whole
    BY <1>4, <1>11, <1>12, <2>1, SeqEqual
  <2>3. end = 0
    BY <1>10, <1>16, <1>17, <2>2
  <2>4. StringText(v, whole, FALSE) =
          IF whole = <<>> THEN Ptr(v) \o Mark("unreadable") ELSE Quoted(whole, TRUE)
    BY DEF StringText
  <2> QED BY <1>14, <2>2, <2>3, <2>4
<1>18. ASSUME nul = 0 PROVE Steady([j EXCEPT !.got = all])
  <2> DEFINE n == [j EXCEPT !.got = all]
  <2>1. n.k = "chars" /\ n.v = v /\ n.got = all
    BY DEF GoodJob, v
  <2>2. Len(all) <= Len(whole)
    BY <1>1, <1>4, <1>8, <1>11
  <2>3. \A x \in 1 .. Len(all) : all[x] = whole[x] /\ all[x] # 0
    BY <1>12, <1>16, <1>18
  <2> HIDE DEF n
  <2> QED BY <1>1, <2>1, <2>2, <2>3 DEF Steady, whole, PointerKinds, n
<1> QED BY <1>15, <1>17, <1>18 DEF v, seen, used, chunk, all

\* One iteration of the loop of print_strv.
LEMMA StrvStep ==
  ASSUME ev \in Event, MemInv, SpaceInv, NEW v \in Nat, v # 0, dereference,
         NEW i \in 0 .. max_array, i <= Len(StrvSome(v)),
         NEW got, got = read_mem(v + i, 1), NEW p, p = ptr_value(got[1])
  PROVE  /\ i = max_array => StrvLeft(v, i) = Mark("...")
         /\ i < max_array /\ got = <<>> => StrvLeft(v, i) = Mark("... unreadable")
         /\ i < max_array /\ got # <<>> /\ p = 0 => StrvLeft(v, i) = <<>>
         /\ i < max_array /\ got # <<>> /\ p # 0 =>
              /\ p \in Nat /\ i + 1 <= Len(StrvSome(v))
              /\ StrvLeft(v, i) = StringRendering(p) \o StrvLeft(v, i + 1)
<1> DEFINE all  == read_mem(v, max_array)
           ptrs == StrvPtrs(v)
           some == StrvSome(v)
           null == FirstNul(ptrs)
           L == Len(ptrs)
           N == Len(some)
<1>1. /\ ptrs \in Seq(Nat) /\ some \in Seq(Nat) /\ L = Len(all) /\ L <= max_array
      /\ \A x \in 1 .. L : ptrs[x] = ptr_value(all[x])
      /\ N = IF null = 0 THEN L ELSE null - 1
      /\ \A x \in 1 .. N : some[x] = ptrs[x]
  BY StrvPtrsAre
<1>2. max_array \in Nat
  BY OptionTypes
<1>3. /\ null \in 0 .. L /\ (null > 0 => ptrs[null] = 0)
      /\ \A x \in 1 .. L : ptrs[x] = 0 => 0 < null /\ null <= x
  BY <1>1, NulIs
<1>4. StrvEnd(v) = IF null > 0 THEN <<>>
                   ELSE IF L = max_array THEN Mark("...") ELSE Mark("... unreadable")
  BY <1>1 DEF StrvEnd
<1> HIDE DEF null, some, ptrs
<1>5. L \in Nat /\ N \in Nat /\ i \in Nat /\ i <= N
  BY <1>1 DEF some
<1>6. i \in 0 .. N
  BY <1>5
<1>7. /\ i = N => StrvLeft(v, i) = StrvEnd(v)
      /\ i < N => StrvLeft(v, i) = StringRendering(some[i + 1]) \o StrvLeft(v, i + 1)
  BY <1>6, StrvNext DEF some
<1> HIDE DEF L, N
<1>8. ASSUME i = max_array PROVE StrvLeft(v, i) = Mark("...")
  <2>1. null = 0 /\ i = N /\ L = max_array
    BY <1>1, <1>2, <1>3, <1>5, <1>8
  <2> QED BY <1>4, <1>7, <2>1
<1>9. ASSUME i < max_array
      PROVE  /\ got = <<>> => StrvLeft(v, i) = Mark("... unreadable")
             /\ got # <<>> /\ p = 0 => StrvLeft(v, i) = <<>>
             /\ got # <<>> /\ p # 0 =>
                  /\ p \in Nat /\ i + 1 <= N
                  /\ StrvLeft(v, i) = StringRendering(p) \o StrvLeft(v, i + 1)
  <2>1. i <= L
    BY <1>1, <1>3, <1>5
  <2>2. Len(got) = Least(1, L - i) /\ \A x \in 1 .. Len(got) : got[x] = all[i + x]
    <3>1. i \in 0 .. Len(all) /\ i + 1 <= max_array /\ L = Len(all)
      BY <1>1, <1>2, <1>5, <1>9, <2>1 DEF L
    <3>2. /\ Len(read_mem(v + i, 1)) = Least(1, Len(read_mem(v, max_array)) - i)
          /\ \A x \in 1 .. Len(read_mem(v + i, 1)) :
               read_mem(v + i, 1)[x] = read_mem(v, max_array)[i + x]
      <4> DEFINE m == 1
      <4>1. m \in Nat /\ i + m <= max_array
        BY <3>1
      <4> HIDE DEF m
      <4>2. /\ Len(read_mem(v + i, m)) = Least(m, Len(read_mem(v, max_array)) - i)
            /\ \A x \in 1 .. Len(read_mem(v + i, m)) :
                 read_mem(v + i, m)[x] = read_mem(v, max_array)[i + x]
        BY <1>2, <3>1, <4>1, ReadOn
      <4> QED BY <4>2 DEF m
    <3> QED BY <3>1, <3>2
  <2>3. got \in Seq(Nat)
    <3>1. v + i \in Int
      BY <1>5
    <3> QED BY <3>1, ReadType
  <2>4. got = <<>> <=> Len(got) = 0
    BY <2>3, EmptySeq
  <2> HIDE DEF all
  <2>5. (got = <<>> => i = L) /\ (got # <<>> => Len(got) = 1 /\ i + 1 \in 1 .. L)
    <3>1. Len(got) = IF 1 < L - i THEN 1 ELSE L - i
      BY <2>2 DEF Least
    <3>2. (Len(got) = 0 => i = L) /\ (Len(got) # 0 => Len(got) = 1 /\ i + 1 \in 1 .. L)
      <4>1. CASE 1 < L - i
        BY <1>5, <2>1, <3>1, <4>1
      <4>2. CASE ~(1 < L - i)
        <5>1. L - i \in {0, 1}
          BY <1>5, <2>1, <4>2
        <5>2. Len(got) = L - i
          BY <3>1, <4>2
        <5> QED BY <1>5, <5>1, <5>2, SMTT(30)
      <4> QED BY <4>1, <4>2
    <3> QED BY <2>4, <3>2
  <2>6. got # <<>> => got[1] = all[i + 1]
    BY <2>2, <2>5
  <2>7. got # <<>> => p = ptrs[i + 1] /\ p \in Nat
    BY <1>1, <2>5, <2>6 DEF L
  <2>8. ASSUME got = <<>> PROVE StrvLeft(v, i) = Mark("... unreadable")
    <3>1. null = 0 /\ i = N /\ L # max_array
      BY <1>1, <1>2, <1>3, <1>5, <1>9, <2>5, <2>8
    <3>2. ~(null > 0)
      BY <3>1
    <3> QED BY <1>4, <1>7, <3>1, <3>2
  <2>9. ASSUME got # <<>>, p = 0 PROVE StrvLeft(v, i) = <<>>
    <3>1. null > 0 /\ null <= i + 1
      BY <1>3, <2>5, <2>7, <2>9
    <3>2. i = N
      BY <1>1, <1>3, <1>5, <3>1
    <3> QED BY <1>4, <1>7, <3>1, <3>2
  <2>10. ASSUME got # <<>>, p # 0
         PROVE  i + 1 <= N /\ StrvLeft(v, i) = StringRendering(p) \o StrvLeft(v, i + 1)
    <3>1. null # i + 1
      BY <1>3, <1>5, <2>7, <2>10
    <3>2. i < N
      BY <1>1, <1>3, <1>5, <2>5, <2>10, <3>1
    <3>3. i + 1 \in 1 .. N
      BY <1>5, <3>2
    <3>4. some[i + 1] = p
      BY <1>1, <2>7, <2>10, <3>3
    <3> QED BY <1>5, <1>7, <3>2, <3>4
  <2> QED BY <2>7, <2>8, <2>9, <2>10
<1> QED BY <1>8, <1>9 DEF N, some

\* What is to be seen from element i on, if got has been read there, with the address base
\* and the size of the element, and new is left of the limit.
IovGoesOn(v, n, i, lim, show, got, base, size, new) ==
  /\ i = n => IovLeft(v, n, i, lim, show) = <<>>
  /\ i < n /\ Len(got) < 2 => IovLeft(v, n, i, lim, show) = Mark("... unreadable")
  /\ i < n /\ Len(got) = 2 =>
       /\ base \in Nat /\ size \in Nat /\ new \in Nat /\ i + 1 <= IovCount(v, n)
       /\ IovLeft(v, n, i, lim, show) =
            ((IF show THEN BufferRendering(base, Least(size, lim)) ELSE Ptr(base))
             \o <<Tok("word", size)>>) \o IovLeft(v, n, i + 1, new, show)

\* One iteration of the loop of print_iov.
LEMMA IovStep ==
  ASSUME ev \in Event, MemInv, SpaceInv, NEW v \in Nat, v # 0, dereference, NEW n \in Nat,
         NEW i \in 0 .. n, i <= IovCount(v, n), NEW lim \in Nat, NEW show \in BOOLEAN,
         NEW got, got = read_mem(v + 2 * i, 2),
         NEW base, base = ptr_value(got[1]), NEW size, size = ptr_value(got[2]),
         NEW new, new = LimitLeft(lim, Least(size, lim))
  PROVE  IovGoesOn(v, n, i, lim, show, got, base, size, new)
<1> DEFINE K == IovCount(v, n)
<1>1. SUFFICES ASSUME NEW all, all = read_mem(v, 2 * n)
               PROVE  IovGoesOn(v, n, i, lim, show, got, base, size, new)
  OBVIOUS
<1>2. /\ all \in Seq(Nat) /\ K \in 0 .. n /\ 2 * K <= Len(all) /\ Len(all) <= 2 * K + 1
      /\ \A x \in 1 .. K : ptr_value(all[2 * x]) \in Nat /\ ptr_value(all[2 * x - 1]) \in Nat
  BY <1>1, IovIs
<1>3. i \in 0 .. K
  BY <1>2
<1>4. IovEnd(v, n) = IF K = n THEN <<>> ELSE Mark("... unreadable")
  BY DEF IovEnd
<1>5. \A m : m = LimitLeft(lim, Least(ptr_value(all[2 * (i + 1)]), lim)) =>
        /\ i = K => IovLeft(v, n, i, lim, show) = IovEnd(v, n)
        /\ i < K => IovLeft(v, n, i, lim, show)
                      = IovElement(all, i + 1, lim, show) \o IovLeft(v, n, i + 1, m, show)
  <2> SUFFICES ASSUME NEW m, m = LimitLeft(lim, Least(ptr_value(all[2 * (i + 1)]), lim))
               PROVE  /\ i = K => IovLeft(v, n, i, lim, show) = IovEnd(v, n)
                      /\ i < K => IovLeft(v, n, i, lim, show)
                                    = IovElement(all, i + 1, lim, show)
                                      \o IovLeft(v, n, i + 1, m, show)
    OBVIOUS
  <2>1. i = K => IovLeft(v, n, i, lim, show) = IovEnd(v, n)
    BY <1>3, IovNext
  <2>2. \A a, b : /\ i < K /\ a = read_mem(v, 2 * n)
                  /\ b = LimitLeft(lim, Least(ptr_value(a[2 * (i + 1)]), lim))
                  => IovLeft(v, n, i, lim, show)
                       = IovElement(a, i + 1, lim, show) \o IovLeft(v, n, i + 1, b, show)
    BY <1>3, IovNext, ZenonT(40)
  <2> QED BY <1>1, <2>1, <2>2, Zenon
<1> HIDE DEF K
<1>6. ASSUME i = n PROVE IovLeft(v, n, i, lim, show) = <<>>
  <2>1. i = K /\ K = n
    BY <1>2, <1>3, <1>6
  <2> QED BY <1>4, <1>5, <2>1
<1>7. ASSUME i < n PROVE Len(got) = Least(2, Len(all) - 2 * i)
                         /\ \A x \in 1 .. Len(got) : got[x] = all[2 * i + x]
  <2> DEFINE k == 2 * i
             N == 2 * n
  <2>1. k \in 0 .. Len(all) /\ k + 2 <= N /\ N \in Nat
    BY <1>2, <1>3, <1>7
  <2>2. all = read_mem(v, N) /\ got = read_mem(v + k, 2)
    BY <1>1
  <2> DEFINE m == 2
  <2>3. m \in Nat /\ k + m <= N
    BY <2>1
  <2> HIDE DEF k, N, m
  <2>4. /\ Len(read_mem(v + k, m)) = Least(m, Len(read_mem(v, N)) - k)
        /\ \A x \in 1 .. Len(read_mem(v + k, m)) : read_mem(v + k, m)[x] = read_mem(v, N)[k + x]
    BY <2>1, <2>2, <2>3, ReadOn, ZenonT(40)
  <2> QED BY <2>2, <2>4 DEF k, m
<1>8. ASSUME i < n, Len(got) < 2 PROVE IovLeft(v, n, i, lim, show) = Mark("... unreadable")
  <2>1. i = K /\ K # n
    BY <1>2, <1>3, <1>7, <1>8 DEF Least
  <2> QED BY <1>4, <1>5, <2>1
<1>9. ASSUME i < n, Len(got) = 2
      PROVE  /\ base \in Nat /\ size \in Nat /\ new \in Nat /\ i + 1 <= K
             /\ IovLeft(v, n, i, lim, show) =
                  ((IF show THEN BufferRendering(base, Least(size, lim)) ELSE Ptr(base))
                   \o <<Tok("word", size)>>) \o IovLeft(v, n, i + 1, new, show)
  <2>1. i < K /\ i + 1 <= K /\ i + 1 \in 1 .. K
    BY <1>2, <1>3, <1>7, <1>9 DEF Least
  <2>2. 2 * (i + 1) = 2 * i + 2 /\ 2 * (i + 1) - 1 = 2 * i + 1
    BY <1>3
  <2>3. got[1] = all[2 * i + 1] /\ got[2] = all[2 * i + 2]
    BY <1>7, <1>9
  <2>4. base = ptr_value(all[2 * (i + 1) - 1]) /\ size = ptr_value(all[2 * (i + 1)])
    BY <2>2, <2>3
  <2>5. base \in Nat /\ size \in Nat
    BY <1>2, <2>1, <2>4
  <2>6. new \in Nat
    BY <2>5 DEF LimitLeft, Least
  <2>7. IovElement(all, i + 1, lim, show)
          = (IF show THEN BufferRendering(base, Least(size, lim)) ELSE Ptr(base))
            \o <<Tok("word", size)>>
    BY <2>4 DEF IovElement
  <2>8. IovLeft(v, n, i, lim, show)
          = IovElement(all, i + 1, lim, show) \o IovLeft(v, n, i + 1, new, show)
    BY <1>5, <2>1, <2>4
  <2> QED BY <2>1, <2>5, <2>6, <2>7, <2>8
<1> QED BY <1>6, <1>8, <1>9 DEF IovGoesOn, K

\* Numbers, names and the result, and what is printed when the line is finished.
LEMMA ValueRenders ==
  ASSUME TypeInv, Rendered(text, todo), print_value \/ puts \/ show_stack_trace
  PROVE  Rendered(text, todo)'
<1>1. todo # <<>> /\ Quiet
  BY DEF print_value, puts, show_stack_trace, NoRead, procVars, Quiet, Doing
<1>2. CASE print_value
  <2>1. Emit(Shows(job))
    BY <1>2, ShowsIs DEF print_value, Doing, job
  <2> QED BY <1>1, <2>1, EmitStep
<1>3. CASE puts \/ show_stack_trace
  <2>1. job.k \in {"puts", "stack"} /\ todo' = Tail(todo) /\ text' = text
    BY <1>3 DEF puts, show_stack_trace, Doing, outVars, job
  <2>2. text \in Text /\ ev \in Event /\ MemInv /\ todo \in Seq(GoodJob)
    BY <1>1, SteadyJob DEF TypeInv
  <2>3. Shows(job) = <<>>
    BY <2>1, ShowsIs
  <2>4. Rendered(text \o Shows(job), Tail(todo))
    BY <1>1, <2>2, EmitRenders DEF job
  <2>5. text \o <<>> = text
    BY <2>2, TextEmpty
  <2> QED BY <1>1, <2>1, <2>3, <2>4, <2>5, RenderedStep DEF Quiet
<1> QED BY <1>2, <1>3

\* print_cstring and its loop.
LEMMA StringRenders ==
  ASSUME TypeInv, SpaceInv, Rendered(text, todo), print_cstring \/ string_read
  PROVE  Rendered(text, todo)'
<1>1. todo # <<>> /\ Quiet /\ job.k \in {"str", "chars"}
  BY DEF print_cstring, string_read, NoRead, procVars, Quiet, Doing, job
<1>2. job \in GoodJob /\ Steady(job) /\ ev \in Event /\ MemInv
  BY <1>1, SteadyJob
<1>3. Shows(job) = StringRendering(job.v) /\ job.v \in Nat
  BY <1>1, <1>2, ShowsIs DEF Steady, PointerKinds
<1>4. CASE print_cstring
  <2>1. CASE (job.v = 0 \/ ~dereference) /\ Emit(Ptr(job.v))
    <3>1. StringRendering(job.v) = Ptr(job.v)
      BY <2>1 DEF StringRendering
    <3> QED BY <1>1, <1>3, <2>1, <3>1, EmitStep
  <2>2. CASE job.v # 0 /\ dereference /\ EmitThen(<<>>, <<Job("chars", job.v, 0)>>)
    <3> DEFINE x == Job("chars", job.v, 0)
    <3>1. x.k = "chars" /\ x.v = job.v /\ x.got = <<>>
      BY DEF Job
    <3>2. x \in GoodJob
      <4>1. "chars" \in AllKinds /\ job.v \in Int
        BY <1>3 DEF AllKinds, JobKinds
      <4> QED BY <4>1, JobType
    <3>3. EmitThen(<<>>, <<x>>)
      BY <2>2
    <3> HIDE DEF x
    <3>4. Steady(x)
      <4>1. Len(read_mem(job.v, MaxStr)) \in Nat
        <5>1. MaxStr \in Nat /\ job.v \in Int
          BY <1>3, OptionTypes
        <5> QED BY <1>2, <5>1, ReadType
      <4> QED BY <1>3, <2>2, <3>1, <4>1 DEF Steady, PointerKinds
    <3>5. Shows(x) = Shows(job)
      BY <1>3, <3>1, ShowsIs
    <3> QED BY <1>1, <3>2, <3>3, <3>4, <3>5, ReplaceStep
  <2> QED BY <1>4, <2>1, <2>2 DEF print_cstring
<1>5. CASE string_read
  <2> SUFFICES ASSUME NEW got, got = read_mem(ChunkAddr(job), Chunk(Len(job.got))),
                      NEW nul, nul = FirstNul(got)
               PROVE  Rendered(text, todo)'
    OBVIOUS
  <2>1. job.k = "chars"
    BY <1>5 DEF string_read, Doing, job
  <2>2. /\ nul > 0 => StringText(job.v, job.got \o SubSeq(got, 1, nul - 1), TRUE)
                        = StringRendering(job.v)
        /\ nul = 0 /\ (Len(got) < Chunk(Len(job.got)) \/ Len(job.got \o got) >= MaxStr) =>
             StringText(job.v, job.got \o got, FALSE) = StringRendering(job.v)
        /\ nul = 0 => Steady([job EXCEPT !.got = job.got \o got])
    <3>1. SUFFICES ASSUME NEW j \in GoodJob, j = job
                   PROVE  /\ nul > 0 => StringText(j.v, j.got \o SubSeq(got, 1, nul - 1), TRUE)
                                          = StringRendering(j.v)
                          /\ nul = 0
                             /\ (Len(got) < Chunk(Len(j.got)) \/ Len(j.got \o got) >= MaxStr) =>
                               StringText(j.v, j.got \o got, FALSE) = StringRendering(j.v)
                          /\ nul = 0 => Steady([j EXCEPT !.got = j.got \o got])
      BY <1>2
    <3> QED BY <1>2, <2>1, <3>1, StringNext
  <2>3. \/ nul > 0 /\ Emit(StringText(job.v, job.got \o SubSeq(got, 1, nul - 1), TRUE))
        \/ /\ nul = 0 /\ (Len(got) < Chunk(Len(job.got)) \/ Len(job.got \o got) >= MaxStr)
           /\ Emit(StringText(job.v, job.got \o got, FALSE))
        \/ /\ nul = 0 /\ Len(job.got \o got) < MaxStr
           /\ EmitThen(<<>>, <<[job EXCEPT !.got = job.got \o got]>>)
    BY <1>5 DEF string_read, ReadEnds
  <2>4. CASE Emit(Shows(job))
    BY <1>1, <2>4, EmitStep
  <2>5. CASE /\ nul = 0 /\ Len(job.got \o got) < MaxStr
             /\ EmitThen(<<>>, <<[job EXCEPT !.got = job.got \o got]>>)
    <3> DEFINE x == [job EXCEPT !.got = job.got \o got]
    <3>1. got \in Seq(Nat) /\ job.got \in Seq(Nat)
      <4>1. Len(job.got) \in Nat /\ Len(job.got) < MaxStr /\ job.got \in Seq(Nat)
        BY <1>2, <2>1 DEF GoodJob
      <4>2. Chunk(Len(job.got)) \in Nat /\ ChunkAddr(job) \in Int
        BY <1>3, <4>1, OptionTypes DEF Chunk, Least, ChunkAddr
      <4> QED BY <1>2, <4>1, <4>2, ReadType
    <3>2. job.got \o got \in Seq(Nat)
      BY <3>1, ConcatIs
    <3>3. x \in GoodJob /\ x.k = "chars" /\ x.v = job.v
      BY <1>2, <2>1, <2>5, <3>2 DEF GoodJob
    <3>4. Steady(x) /\ EmitThen(<<>>, <<x>>)
      BY <2>2, <2>5
    <3> HIDE DEF x
    <3>5. Shows(x) = Shows(job)
      BY <1>3, <3>3, ShowsIs
    <3> QED BY <1>1, <3>3, <3>4, <3>5, ReplaceStep
  <2> QED BY <1>3, <2>2, <2>3, <2>4, <2>5
<1> QED BY <1>4, <1>5

\* print_buffer.
LEMMA BufferRenders ==
  ASSUME TypeInv, Rendered(text, todo), print_buffer
  PROVE  Rendered(text, todo)'
<1> DEFINE want == Least(job.n, max_buffer)
           got  == read_mem(job.v, want)
<1>1. todo # <<>> /\ Quiet /\ job.k = "buffer"
  BY DEF print_buffer, procVars, Quiet, Doing, job
<1>2. job.n \in Nat /\ max_buffer \in Nat
  BY <1>1, SteadyJob, OptionTypes DEF GoodJob
<1>3. Shows(job) = IF job.v = 0 \/ ~dereference THEN Ptr(job.v)
                   ELSE IF job.n = 0 \/ max_buffer = 0 THEN Quoted(<<>>, FALSE)
                   ELSE IF got = <<>> THEN Ptr(job.v) \o Mark("unreadable")
                   ELSE Quoted(got, Len(got) < job.n)
  BY <1>1, ShowsIs DEF BufferRendering
<1>4. want = 0 <=> job.n = 0 \/ max_buffer = 0
  BY <1>2 DEF Least
<1>5. want \in Nat
  BY <1>2 DEF Least
<1>6. \/ (job.v = 0 \/ ~dereference) /\ Emit(Ptr(job.v))
      \/ job.v # 0 /\ dereference /\ want = 0 /\ Emit(Quoted(<<>>, FALSE))
      \/ /\ job.v # 0 /\ dereference /\ want > 0
         /\ Emit(IF got = <<>> THEN Ptr(job.v) \o Mark("unreadable")
                 ELSE Quoted(got, job.n > Len(got)))
  BY DEF print_buffer
<1> HIDE DEF want, got
<1>7. want > 0 => want # 0
  BY <1>5
<1>8. Quoted(got, job.n > Len(got)) = Quoted(got, Len(got) < job.n)
  OBVIOUS
<1>9. Emit(Shows(job))
  BY <1>3, <1>4, <1>6, <1>7, <1>8
<1> QED BY <1>1, <1>9, EmitStep

\* print_strv.
LEMMA StrvRenders ==
  ASSUME TypeInv, SpaceInv, Rendered(text, todo), print_strv
  PROVE  Rendered(text, todo)'
<1> SUFFICES ASSUME NEW got, got = read_mem(job.v + job.i, 1), NEW p, p = ptr_value(got[1]),
                    NEW v, v = job.v, NEW i, i = job.i
             PROVE  Rendered(text, todo)'
  OBVIOUS
<1>1. todo # <<>> /\ Quiet /\ job.k = "strv"
  BY DEF print_strv, procVars, Quiet, Doing, job
<1>2. job \in GoodJob /\ Steady(job) /\ ev \in Event /\ MemInv
  BY <1>1, SteadyJob
<1>3. Shows(job) = StrvLeft(v, i) /\ v \in Nat /\ i \in 0 .. max_array
  BY <1>1, <1>2, ShowsIs DEF Steady, PointerKinds, GoodJob
<1>4. \/ (v = 0 \/ ~dereference) /\ Emit(Ptr(v))
      \/ v # 0 /\ dereference /\ i = max_array /\ Emit(Mark("..."))
      \/ /\ v # 0 /\ dereference /\ i < max_array
         /\ \/ got = <<>> /\ Emit(Mark("... unreadable"))
            \/ got # <<>> /\ p = 0 /\ Emit(<<>>)
            \/ /\ got # <<>> /\ p # 0
               /\ EmitThen(<<>>, <<Job("str", p, 0), [job EXCEPT !.i = @ + 1]>>)
  BY DEF print_strv
<1>5. CASE v = 0 \/ ~dereference
  <2>1. Emit(Shows(job))
    BY <1>3, <1>4, <1>5 DEF StrvLeft
  <2> QED BY <1>1, <2>1, EmitStep
<1>6. CASE v # 0 /\ dereference
  <2>1. i <= Len(StrvSome(v))
    BY <1>1, <1>2, <1>6 DEF Steady
  <2>2. /\ i = max_array => StrvLeft(v, i) = Mark("...")
        /\ i < max_array /\ got = <<>> => StrvLeft(v, i) = Mark("... unreadable")
        /\ i < max_array /\ got # <<>> /\ p = 0 => StrvLeft(v, i) = <<>>
        /\ i < max_array /\ got # <<>> /\ p # 0 =>
             /\ p \in Nat /\ i + 1 <= Len(StrvSome(v))
             /\ StrvLeft(v, i) = StringRendering(p) \o StrvLeft(v, i + 1)
    <3>1. got = read_mem(v + i, 1) /\ v \in Nat /\ v # 0 /\ i \in 0 .. max_array
      BY <1>3, <1>6
    <3> QED BY <1>2, <1>6, <2>1, <3>1, StrvStep, Zenon
  <2>3. CASE Emit(Shows(job))
    BY <1>1, <2>3, EmitStep
  <2>4. CASE /\ i < max_array /\ got # <<>> /\ p # 0
             /\ EmitThen(<<>>, <<Job("str", p, 0), [job EXCEPT !.i = @ + 1]>>)
    <3> DEFINE x == Job("str", p, 0)
               y == [job EXCEPT !.i = @ + 1]
    <3>1. p \in Nat
      BY <2>2, <2>4
    <3>2. p \in Int
      BY <3>1
    <3>3. x \in GoodJob /\ x.k = "str" /\ x.v = p
      <4>1. "str" \in AllKinds
        BY DEF AllKinds, JobKinds
      <4>2. x \in GoodJob
        BY <3>1, <3>2, <4>1, JobType
      <4> QED BY <4>2 DEF Job
    <3>4. y \in GoodJob /\ y.k = "strv" /\ y.v = v /\ y.i = i + 1
      <4>1. job.i + 1 \in 0 .. max_array
        BY <1>3, <2>4, OptionTypes
      <4>2. y \in GoodJob
        BY <1>1, <1>2, <4>1, AgainType
      <4>3. y.k = "strv" /\ y.v = v /\ y.i = i + 1
        BY <1>1, <1>2 DEF GoodJob
      <4> QED BY <4>2, <4>3
    <3>5. EmitThen(<<>>, <<x, y>>)
      BY <2>4
    <3> HIDE DEF x, y
    <3>6. Steady(x)
      BY <3>1, <3>3 DEF Steady, PointerKinds
    <3>7. Steady(y)
      BY <1>3, <2>2, <2>4, <3>4 DEF Steady, PointerKinds
    <3>8. Shows(x) = StringRendering(p) /\ Shows(y) = StrvLeft(v, i + 1)
      BY <3>3, <3>4, ShowsIs
    <3>9. Shows(job) = Shows(x) \o Shows(y)
      BY <1>3, <2>2, <2>4, <3>8
    <3> QED BY <1>1, <3>3, <3>4, <3>5, <3>6, <3>7, <3>9, ReplaceStep
  <2> QED BY <1>3, <1>4, <1>6, <2>2, <2>3, <2>4
<1> QED BY <1>5, <1>6

\* A pointer cut to its register is cut no further.
LEMMA PtrAgain ==
  ASSUME ev \in Event, NEW v \in Nat PROVE ptr_value(ptr_value(v)) = ptr_value(v)
<1>1. Word32 \in Nat \ {0}
  BY SpansAssumption
<1>2. (v % Word32) \in 0 .. Word32 - 1
  BY <1>1
<1>3. (v % Word32) % Word32 = v % Word32
  BY <1>1, <1>2
<1> QED BY <1>3 DEF ptr_value

\* print_iov.
LEMMA IovRenders ==
  ASSUME TypeInv, SpaceInv, Rendered(text, todo), print_iov
  PROVE  Rendered(text, todo)'
<1> SUFFICES ASSUME NEW got, got = read_mem(job.v + 2 * job.i, 2),
                    NEW base, base = ptr_value(got[1]), NEW size, size = ptr_value(got[2]),
                    NEW v, v = job.v, NEW i, i = job.i, NEW n, n = job.n,
                    NEW lim, lim = job.lim, NEW show, show = job.show,
                    NEW shown, shown = Least(size, lim), NEW new, new = LimitLeft(lim, shown)
             PROVE  Rendered(text, todo)'
  OBVIOUS
<1> DEFINE first == IF show THEN Job("buffer", base, shown) ELSE Job("ptr", base, 0)
           word  == Job("word", size, 0)
           next  == [job EXCEPT !.i = @ + 1, !.lim = new]
<1>1. todo # <<>> /\ Quiet /\ job.k = "iov"
  BY DEF print_iov, procVars, Quiet, Doing, job
<1>2. job \in GoodJob /\ Steady(job) /\ ev \in Event /\ MemInv
  BY <1>1, SteadyJob
<1>3. /\ Shows(job) = IovLeft(v, n, i, lim, show) /\ v \in Nat
      /\ n \in Nat /\ i \in 0 .. n /\ lim \in Nat /\ show \in BOOLEAN /\ n <= max_array
  BY <1>1, <1>2, ShowsIs, OptionTypes, SMTT(30) DEF Steady, PointerKinds, GoodJob
<1>4. \/ (v = 0 \/ ~dereference) /\ Emit(Ptr(v))
      \/ v # 0 /\ dereference /\ i = n /\ Emit(<<>>)
      \/ /\ v # 0 /\ dereference /\ i < n
         /\ \/ Len(got) < 2 /\ Emit(Mark("... unreadable"))
            \/ Len(got) = 2 /\ EmitThen(<<>>, <<first, word, next>>)
  <2>1. next = [job EXCEPT !.i = @ + 1, !.lim = LimitLeft(@, Least(size, job.lim))]
    BY <1>2 DEF GoodJob
  <2> HIDE DEF next
  <2> QED BY <2>1 DEF print_iov
<1>5. CASE v = 0 \/ ~dereference
  <2>1. Emit(Shows(job))
    BY <1>3, <1>4, <1>5 DEF IovLeft
  <2> QED BY <1>1, <2>1, EmitStep
<1>6. CASE v # 0 /\ dereference
  <2>1. i <= IovCount(v, n)
    BY <1>1, <1>2, <1>6, SMTT(30) DEF Steady
  <2>2. /\ i = n => IovLeft(v, n, i, lim, show) = <<>>
        /\ i < n /\ Len(got) < 2 => IovLeft(v, n, i, lim, show) = Mark("... unreadable")
        /\ i < n /\ Len(got) = 2 =>
             /\ base \in Nat /\ size \in Nat /\ new \in Nat /\ i + 1 <= IovCount(v, n)
             /\ IovLeft(v, n, i, lim, show) =
                  ((IF show THEN BufferRendering(base, Least(size, lim)) ELSE Ptr(base))
                   \o <<Tok("word", size)>>) \o IovLeft(v, n, i + 1, new, show)
    <3>1. /\ got = read_mem(v + 2 * i, 2) /\ v \in Nat /\ v # 0 /\ i \in 0 .. n /\ n \in Nat
          /\ lim \in Nat /\ show \in BOOLEAN /\ new = LimitLeft(lim, Least(size, lim))
      BY <1>3, <1>6
    <3>2. IovGoesOn(v, n, i, lim, show, got, base, size, new)
      BY <1>2, <1>6, <2>1, <3>1, IovStep
    <3> QED BY <3>2 DEF IovGoesOn
  <2>3. CASE Emit(Shows(job))
    BY <1>1, <2>3, EmitStep, SMTT(30)
  <2>4. CASE i < n /\ Len(got) = 2 /\ EmitThen(<<>>, <<first, word, next>>)
    <3>1. base \in Nat /\ size \in Nat /\ new \in Nat /\ i + 1 <= IovCount(v, n)
      BY <2>2, <2>4
    <3>2. shown \in Nat /\ base \in Int /\ size \in Int /\ 0 \in Nat
      BY <1>3, <3>1 DEF Least
    <3>3. {"buffer", "ptr", "word"} \subseteq AllKinds \ {"iov"} /\ {"ptr", "word"} \subseteq ValueKinds
      BY DEF AllKinds, JobKinds, ValueKinds
    <3>4. /\ first \in GoodJob /\ Steady(first)
          /\ Shows(first) = IF show THEN BufferRendering(base, shown) ELSE Ptr(base)
      <4>1. CASE show
        <5> DEFINE x == Job("buffer", base, shown)
        <5>1. x \in GoodJob
          BY <3>2, <3>3, JobType
        <5>2. x.k = "buffer" /\ x.v = base /\ x.n = shown
          BY DEF Job
        <5>3. first = x
          BY <4>1
        <5> HIDE DEF x, first
        <5>4. Steady(x)
          BY <3>1, <5>2 DEF Steady, PointerKinds
        <5>5. Shows(x) = BufferRendering(base, shown)
          BY <5>2, ShowsIs
        <5> QED BY <4>1, <5>1, <5>3, <5>4, <5>5
      <4>2. CASE ~show
        <5> DEFINE x == Job("ptr", base, 0)
        <5>1. x \in GoodJob
          BY <3>2, <3>3, JobType
        <5>2. x.k = "ptr" /\ x.v = base
          BY DEF Job
        <5>3. first = x
          BY <4>2
        <5> HIDE DEF x, first
        <5>4. Steady(x)
          BY <3>1, <3>3, <5>2 DEF Steady, PointerKinds
        <5>5. Shows(x) = ValueText("ptr", base, x.n)
          BY <3>3, <5>2, ShowsIs
        <5>6. Shows(x) = Ptr(base)
          BY <5>5 DEF ValueText
        <5> QED BY <4>2, <5>1, <5>3, <5>4, <5>6
      <4> QED BY <4>1, <4>2
    <3>5. word \in GoodJob /\ Steady(word) /\ Shows(word) = <<Tok("word", size)>>
      <4>1. word \in GoodJob
        BY <3>2, <3>3, JobType
      <4>2. word.k = "word" /\ word.v = size
        BY DEF Job
      <4> HIDE DEF word
      <4>3. Steady(word)
        BY <3>3, <4>2 DEF Steady, PointerKinds
      <4>4. Shows(word) = ValueText("word", size, word.n)
        BY <3>3, <4>2, ShowsIs
      <4>5. Shows(word) = <<Tok("word", ptr_value(size))>>
        BY <4>4 DEF ValueText
      <4>6. ptr_value(size) = size
        <5>1. got \in Seq(Nat)
          <6>1. job.v + 2 * job.i \in Int
            BY <1>3
          <6> QED BY <1>2, <6>1, ReadType
        <5>2. got[2] \in Nat
          BY <2>4, <5>1
        <5> QED BY <1>2, <5>2, PtrAgain
      <4> QED BY <4>1, <4>3, <4>5, <4>6
    <3>6. next \in GoodJob /\ Steady(next) /\ Shows(next) = IovLeft(v, n, i + 1, new, show)
      <4>1. next \in GoodJob
        <5>1. job.i + 1 \in 0 .. max_array /\ job.i + 1 <= job.n
          BY <1>3, <2>4, OptionTypes, SMTT(30)
        <5> QED BY <1>1, <1>2, <3>1, <5>1, AgainType
      <4>2. /\ next.k = "iov" /\ next.v = v /\ next.n = n /\ next.i = i + 1 /\ next.lim = new
            /\ next.show = show
        BY <1>1, <1>2 DEF GoodJob
      <4> HIDE DEF next
      <4>3. Steady(next)
        BY <1>3, <3>1, <4>2 DEF Steady, PointerKinds
      <4> QED BY <4>1, <4>2, <4>3, ShowsIs
    <3>7. EmitThen(<<>>, <<first, word, next>>)
      BY <2>4
    <3> HIDE DEF first, word, next
    <3>8. Shows(job) = (Shows(first) \o Shows(word)) \o Shows(next)
      BY <1>3, <2>2, <2>4, <3>4, <3>5, <3>6
    <3>9. Shows(first) \in Text /\ Shows(word) \in Text /\ Shows(next) \in Text
      BY <1>2, <3>4, <3>5, <3>6, ShowsType
    <3>10. Shows(job) = Shows(first) \o (Shows(word) \o Shows(next))
      BY <3>8, <3>9, TextAssoc
    <3> QED BY <1>1, <3>4, <3>5, <3>6, <3>7, <3>10, ReplaceStep
  <2> QED BY <1>3, <1>4, <1>6, <2>2, <2>3, <2>4
<1> QED BY <1>5, <1>6

\* While the process does nothing, every step goes on with the line.
LEMMA NextRenderInv == TypeInv /\ RenderInv /\ [HNext]_hvars => RenderInv'
<1> SUFFICES ASSUME TypeInv, RenderInv, [HNext]_hvars, changes' = 0,
                    (ev.syscall_id >= 0)',
                    (\A i \in DOMAIN Args : Args[i].kind \in FollowedKinds \cup ValueKinds)'
             PROVE  SpaceInv' /\ Rendered(text, todo)'
  BY DEF RenderInv
<1>1. ev' = ev /\ Args' = Args
  BY EventKept, SameEvent
<1>2. changes \in Nat
  BY OptionTypes DEF TypeInv, MemInv
<1>3. ~malloc_fails /\ ~Process
  <2>1. changes + 1 # 0
    BY <1>2
  <2> QED BY <2>1 DEF malloc_fails, Process, process_write, process_unmap, process_exit,
             pid_reuse, Change
<1>4. Quiet /\ changes' = changes
  <2>1. CASE UNCHANGED hvars
    BY <2>1 DEF hvars, dvars, procVars, Quiet
  <2>2. CASE HandleEvent
    BY <2>2 DEF HandleEvent, Decode, print_value, print_cstring, string_read, print_buffer,
       print_strv, print_iov, print_timespec, print_struct, print_socket_words, print_sockaddr,
       puts, show_stack_trace, NoRead, procVars, Quiet
  <2> QED BY <1>3, <2>1, <2>2 DEF HNext
<1>5. SpaceInv /\ Rendered(text, todo)
  BY <1>1, <1>4 DEF RenderInv
<1>6. SpaceInv'
  BY <1>4, <1>5, SameMemory DEF Quiet
<1>7. Rendered(text, todo)'
  <2>1. CASE print_value \/ puts \/ show_stack_trace
    BY <1>5, <2>1, ValueRenders
  <2>2. CASE print_cstring \/ string_read
    BY <1>5, <2>2, StringRenders
  <2>3. CASE print_buffer
    BY <1>5, <2>3, BufferRenders
  <2>4. CASE print_strv
    BY <1>5, <2>4, StrvRenders
  <2>5. CASE print_iov
    BY <1>5, <2>5, IovRenders
  <2>6. CASE print_timespec \/ print_struct \/ print_socket_words \/ print_sockaddr
    <3>1. todo # <<>> /\ job.k \in {"timespec", "how", "clone_args", "socket_words", "sockaddr"}
      BY <2>6 DEF print_timespec, print_struct, print_socket_words, print_sockaddr, Doing, job
    <3>2. Steady(job)
      BY <1>5, <3>1, SteadyJob
    <3> QED BY <3>1, <3>2 DEF Steady, ValueKinds, PointerKinds
  <2>7. CASE UNCHANGED hvars
    <3>1. text' = text /\ todo' = todo
      BY <2>7 DEF hvars, dvars, outVars
    <3> QED BY <1>4, <1>5, <3>1, RenderedStep DEF Quiet
  <2> QED BY <1>3, <2>1, <2>2, <2>3, <2>4, <2>5, <2>6, <2>7 DEF HNext, HandleEvent, Decode
<1> QED BY <1>6, <1>7

\* One element more.
LEMMA OneMore ==
  ASSUME NEW S, NEW s \in Seq(S), NEW x \in S
  PROVE  /\ s \o <<x>> \in Seq(S) /\ Len(s \o <<x>>) = Len(s) + 1 /\ (s \o <<x>>)[Len(s) + 1] = x
         /\ \A i \in 1 .. Len(s) : (s \o <<x>>)[i] = s[i]
<1>1. <<x>> \in Seq(S) /\ Len(<<x>>) = 1 /\ <<x>>[1] = x
  OBVIOUS
<1>2. /\ s \o <<x>> \in Seq(S) /\ Len(s \o <<x>>) = Len(s) + Len(<<x>>)
      /\ \A i \in 1 .. Len(s \o <<x>>) :
           (s \o <<x>>)[i] = IF i <= Len(s) THEN s[i] ELSE <<x>>[i - Len(s)]
  BY <1>1, ConcatIs
<1> QED BY <1>1, <1>2

\* The jobs of an event, one by one.
LEMMA EventJobsExactly ==
  ASSUME ev \in Event, ev.syscall_id >= 0, NEW stack, NEW E, E = EventJobs(stack),
         NEW N, N = Len(Args)
  PROVE  /\ E \in Seq(GoodJob) /\ N \in Nat /\ Len(E) \in {N + 3, N + 4}
         /\ E[1] = Job("head", ev.syscall_id, 0) /\ E[N + 2] = Job("result", ev.ret, 0)
         /\ \A i \in 1 .. N : E[i + 1] = ArgJob(Args[i])
         /\ \A i \in N + 3 .. Len(E) : E[i].k \in {"puts", "stack"}
<1> DEFINE h == Job("head", ev.syscall_id, 0)
           A == [i \in 1 .. Len(Args) |-> ArgJob(Args[i])]
           r == Job("result", ev.ret, 0)
           q == Job("puts", 0, 0)
           x == Job("stack", 0, 0)
           a == <<h>> \o A
           b == a \o <<r>>
           c == b \o <<q>>
<1>1. h \in GoodJob /\ r \in GoodJob /\ q \in GoodJob /\ x \in GoodJob
  <2>1. \A k \in {"head", "result", "puts", "stack"} : k \in AllKinds /\ k # "iov"
    BY DEF AllKinds, JobKinds
  <2>2. ev.syscall_id \in Int /\ ev.ret \in Int
    BY DEF Event
  <2> QED BY <2>1, <2>2, JobType
<1>2. A \in Seq(GoodJob) /\ Len(A) = N /\ N \in Nat /\ \A i \in 1 .. N : A[i] = ArgJob(Args[i])
  <2>1. Args \in Seq(ArgDesc)
    BY ArgsType
  <2>2. \A i \in 1 .. Len(Args) : ArgJob(Args[i]) \in GoodJob
    BY <2>1, ArgJobType
  <2>3. Len(Args) \in Nat
    BY <2>1
  <2> QED BY <2>2, <2>3
<1>3. q.k = "puts" /\ x.k = "stack"
  BY DEF Job
<1>4. Jobs = b
  <2>1. ~(ev.syscall_id < 0)
    BY DEF Event
  <2> QED BY <2>1 DEF Jobs
<1>5. E = c \o (IF stack THEN <<x>> ELSE <<>>)
  BY <1>4 DEF EventJobs
<1> HIDE DEF h, A, r, q, x
<1>6. /\ a \in Seq(GoodJob) /\ Len(a) = N + 1 /\ a[1] = h
      /\ \A i \in 1 .. N : a[i + 1] = ArgJob(Args[i])
  <2>1. <<h>> \in Seq(GoodJob) /\ Len(<<h>>) = 1 /\ <<h>>[1] = h
    BY <1>1
  <2>2. /\ a \in Seq(GoodJob) /\ Len(a) = 1 + N
        /\ \A i \in 1 .. Len(a) : a[i] = IF i <= 1 THEN <<h>>[i] ELSE A[i - 1]
    BY <1>2, <2>1, ConcatIs
  <2> HIDE DEF a
  <2> QED BY <1>2, <2>1, <2>2, SMTT(30)
<1> HIDE DEF a
<1>7. /\ b \in Seq(GoodJob) /\ Len(b) = N + 2 /\ b[N + 2] = r
      /\ \A i \in 1 .. N + 1 : b[i] = a[i]
  <2>1. /\ b \in Seq(GoodJob) /\ Len(b) = Len(a) + 1 /\ b[Len(a) + 1] = r
        /\ \A i \in 1 .. Len(a) : b[i] = a[i]
    BY <1>1, <1>6, OneMore
  <2> HIDE DEF b
  <2>2. Len(a) + 1 = N + 2
    BY <1>2, <1>6
  <2> QED BY <1>6, <2>1, <2>2
<1> HIDE DEF b
<1>8. /\ c \in Seq(GoodJob) /\ Len(c) = N + 3 /\ c[N + 3] = q
      /\ \A i \in 1 .. N + 2 : c[i] = b[i]
  <2>1. /\ c \in Seq(GoodJob) /\ Len(c) = Len(b) + 1 /\ c[Len(b) + 1] = q
        /\ \A i \in 1 .. Len(b) : c[i] = b[i]
    BY <1>1, <1>7, OneMore
  <2> HIDE DEF c
  <2>2. Len(b) + 1 = N + 3
    BY <1>2, <1>7
  <2> QED BY <1>7, <2>1, <2>2
<1> HIDE DEF c
<1>9. /\ E \in Seq(GoodJob) /\ Len(E) \in {N + 3, N + 4} /\ (Len(E) = N + 4 => E[N + 4] = x)
      /\ \A i \in 1 .. N + 3 : E[i] = c[i]
  <2>1. CASE stack
    <3>1. E = c \o <<x>>
      BY <1>5, <2>1
    <3>2. /\ E \in Seq(GoodJob) /\ Len(E) = Len(c) + 1 /\ E[Len(c) + 1] = x
          /\ \A i \in 1 .. Len(c) : E[i] = c[i]
      BY <1>1, <1>8, <3>1, OneMore
    <3>3. Len(c) + 1 = N + 4
      BY <1>2, <1>8
    <3> QED BY <1>8, <3>2, <3>3
  <2>2. CASE ~stack
    <3>1. E = c
      <4>1. E = c \o <<>>
        BY <1>5, <2>2
      <4> QED BY <1>8, <4>1, ConcatEmptySeq
    <3>2. Len(E) = N + 3 /\ N + 3 # N + 4
      BY <1>2, <1>8, <3>1
    <3> QED BY <1>8, <3>1, <3>2
  <2> QED BY <2>1, <2>2
<1>10. E[1] = h /\ E[N + 2] = r
  <2>1. 1 \in 1 .. N + 1 /\ 1 \in 1 .. N + 2 /\ 1 \in 1 .. N + 3
        /\ N + 2 \in 1 .. N + 2 /\ N + 2 \in 1 .. N + 3
    BY <1>2
  <2> QED BY <1>6, <1>7, <1>8, <1>9, <2>1
<1>11. ASSUME NEW i \in 1 .. N PROVE E[i + 1] = ArgJob(Args[i])
  <2>1. i + 1 \in 1 .. N + 1 /\ i + 1 \in 1 .. N + 2 /\ i + 1 \in 1 .. N + 3
    BY <1>2
  <2> QED BY <1>6, <1>7, <1>8, <1>9, <2>1
<1>12. ASSUME NEW i \in N + 3 .. Len(E) PROVE E[i].k \in {"puts", "stack"}
  <2>1. i = N + 3 \/ (i = N + 4 /\ Len(E) = N + 4)
    BY <1>2, <1>9
  <2>2. N + 3 \in 1 .. N + 3
    BY <1>2
  <2> QED BY <1>3, <1>8, <1>9, <2>1, <2>2
<1> QED BY <1>2, <1>9, <1>10, <1>11, <1>12 DEF h, r

\* What is put together can be put together in two parts.
LEMMA FlatSplit ==
  ASSUME NEW L \in Nat, NEW M \in 0 .. L, NEW f, \A x \in 1 .. L : f[x] \in Text, NEW k \in 0 .. M
  PROVE  FlatFrom(f, L, k) = FlatFrom(f, M, k) \o FlatFrom(f, L, M)
<1> DEFINE R == FlatFrom(f, L, M)
           S == {i \in 0 .. M : FlatFrom(f, L, M - i) = FlatFrom(f, M, M - i) \o R}
<1>1. /\ M \in Nat /\ M \in 0 .. M /\ M <= L
      /\ \A i \in 0 .. M : /\ M - i \in 0 .. M /\ M - i \in 0 .. L
                           /\ \A x \in (M - i) + 1 .. L : x \in 1 .. L
                           /\ \A x \in (M - i) + 1 .. M : x \in 1 .. L
  OBVIOUS
<1>2. ASSUME NEW i \in 0 .. M
      PROVE  /\ FlatFrom(f, L, M - i) \in Text /\ FlatFrom(f, M, M - i) \in Text
             /\ M - i < L => FlatFrom(f, L, M - i) = f[(M - i) + 1] \o FlatFrom(f, L, (M - i) + 1)
             /\ M - i < M => FlatFrom(f, M, M - i) = f[(M - i) + 1] \o FlatFrom(f, M, (M - i) + 1)
             /\ M - i = M => FlatFrom(f, M, M - i) = <<>>
  <2> DEFINE j == M - i
  <2>1. j \in 0 .. M /\ j \in 0 .. L /\ (\A x \in j + 1 .. L : f[x] \in Text)
        /\ (\A x \in j + 1 .. M : f[x] \in Text)
    BY <1>1
  <2> HIDE DEF j
  <2>2. /\ FlatFrom(f, L, j) \in Text
        /\ j < L => FlatFrom(f, L, j) = f[j + 1] \o FlatFrom(f, L, j + 1)
    BY <2>1, FlatNext
  <2>3. /\ FlatFrom(f, M, j) \in Text
        /\ j = M => FlatFrom(f, M, j) = <<>>
        /\ j < M => FlatFrom(f, M, j) = f[j + 1] \o FlatFrom(f, M, j + 1)
    <3>1. M \in Nat /\ j \in 0 .. M /\ \A x \in j + 1 .. M : f[x] \in Text
      BY <1>1, <2>1
    <3> QED BY <3>1, FlatNext, Zenon
  <2> QED BY <2>2, <2>3 DEF j
<1>3. R \in Text
  <2>1. 0 \in 0 .. M /\ M - 0 = M
    BY <1>1
  <2> QED BY <1>2, <2>1
<1> HIDE DEF R
<1>4. 0 \in S
  <2>1. 0 \in 0 .. M /\ M - 0 = M
    BY <1>1
  <2>2. FlatFrom(f, M, M) = <<>>
    BY <1>2, <2>1
  <2>3. FlatFrom(f, M, M) \o R = R
    BY <1>3, <2>2, TextEmpty
  <2> QED BY <2>1, <2>3 DEF R
<1>5. ASSUME NEW i \in 0 .. M - 1, i \in S PROVE i + 1 \in S
  <2> DEFINE j == M - (i + 1)
  <2>1. /\ i \in 0 .. M /\ i + 1 \in 0 .. M /\ j + 1 = M - i /\ j < L /\ j < M
        /\ M - (i + 1) = j /\ j + 1 \in 1 .. L
    BY <1>1, <1>5
  <2> HIDE DEF j
  <2>2. /\ FlatFrom(f, L, j) = f[j + 1] \o FlatFrom(f, L, j + 1)
        /\ FlatFrom(f, M, j) = f[j + 1] \o FlatFrom(f, M, j + 1)
    BY <1>2, <2>1
  <2>3. FlatFrom(f, L, j + 1) = FlatFrom(f, M, j + 1) \o R
    BY <1>5, <2>1
  <2>4. FlatFrom(f, M, j + 1) \in Text /\ f[j + 1] \in Text
    BY <1>2, <2>1
  <2>5. (f[j + 1] \o FlatFrom(f, M, j + 1)) \o R = f[j + 1] \o (FlatFrom(f, M, j + 1) \o R)
    BY <1>3, <2>4, TextAssoc
  <2>6. FlatFrom(f, L, j) = FlatFrom(f, M, j) \o R
    BY <2>2, <2>3, <2>5
  <2> QED BY <2>1, <2>6
<1>6. \A i \in 0 .. M : i \in S
  <2> HIDE DEF S
  <2> QED BY <1>1, <1>4, <1>5, SetInduction
<1>7. M - k \in 0 .. M /\ M - (M - k) = k
  BY <1>1
<1> QED BY <1>6, <1>7 DEF R

\* Which job an argument is printed by.
LEMMA ArgJobIs ==
  ASSUME NEW d
  PROVE  /\ d.kind \in {"str", "strv"} => ArgJob(d) = Job(d.kind, ev.args[d.arg], 0)
         /\ d.kind \in ValueKinds =>
              ArgJob(d) = Job(d.kind, ev.args[d.arg], IF d.kind = "pair" THEN ev.args[d.aux] ELSE 0)
         /\ d.kind = "buf_in" => ArgJob(d) = Job("buffer", ev.args[d.arg], ev.args[d.aux])
         /\ d.kind = "buf_out" =>
              ArgJob(d) = IF is_error THEN Job("ptr", ev.args[d.arg], 0)
                          ELSE Job("buffer", ev.args[d.arg], Least(returned, ev.args[d.aux]))
<1>1. d.kind \in {"str", "strv"} => ArgJob(d) = Job(d.kind, ev.args[d.arg], 0)
  BY DEF ArgJob
<1>2. d.kind \in ValueKinds \ {"pair"} => ArgJob(d) = Job(d.kind, ev.args[d.arg], 0)
  BY DEF ArgJob, ValueKinds
<1>3. d.kind = "pair" => ArgJob(d) = Job("pair", ev.args[d.arg], ev.args[d.aux])
  BY DEF ArgJob
<1>4. d.kind = "buf_in" => ArgJob(d) = Job("buffer", ev.args[d.arg], ev.args[d.aux])
  BY DEF ArgJob, Count
<1>5. d.kind = "buf_out" =>
        ArgJob(d) = IF is_error THEN Job("ptr", ev.args[d.arg], 0)
                    ELSE Job("buffer", ev.args[d.arg], Count(d.aux, TRUE))
  BY DEF ArgJob
<1>6. ~is_error => Count(d.aux, TRUE) = Least(returned, ev.args[d.aux])
  BY DEF Count
<1> QED BY <1>1, <1>2, <1>3, <1>4, <1>5, <1>6

\* The members of a job.
LEMMA JobIs ==
  \A k, v, n : /\ Job(k, v, n).k = k /\ Job(k, v, n).v = v /\ Job(k, v, n).n = n
               /\ Job(k, v, n).i = 0 /\ Job(k, v, n).show = TRUE
  BY DEF Job

\* A job that has not begun is steady, and shows what the argument is to show.
LEMMA ArgShows ==
  ASSUME ev \in Event, MemInv, NEW d \in ArgDesc, d.kind \in FollowedKinds \cup ValueKinds
  PROVE  Steady(ArgJob(d)) /\ Shows(ArgJob(d)) = ArgRendering(d)
<1> SUFFICES ASSUME NEW v, v = ev.args[d.arg], NEW x, x = ev.args[d.aux], NEW j, j = ArgJob(d)
             PROVE  Steady(j) /\ Shows(j) = ArgRendering(d)
  OBVIOUS
<1>1. v \in Nat /\ (d.kind \in PairedKinds => x \in Nat)
  BY SMTT(30) DEF ArgDesc, Event
<1>2. returned \in Nat /\ max_array \in Nat /\ max_buffer \in Nat /\ is_error \in BOOLEAN
  BY RegisterTypes, OptionTypes DEF is_error
<1>3. CASE d.kind \in ValueKinds
  <2>1. j.k = d.kind /\ j.v = v /\ j.n = IF d.kind = "pair" THEN x ELSE 0
    BY <1>3, ArgJobIs, JobIs
  <2>2. d.kind \notin FollowedKinds \cup PointerKinds
    BY <1>3 DEF ValueKinds, FollowedKinds, PointerKinds
  <2>3. ArgRendering(d) = ValueText(d.kind, v, IF d.kind = "pair" THEN x ELSE 0)
    BY <2>2 DEF ArgRendering, FollowedKinds
  <2>4. Steady(j)
    BY <1>3, <2>1, <2>2 DEF Steady, PointerKinds
  <2> QED BY <1>3, <2>1, <2>3, <2>4, ShowsIs
<1>4. CASE d.kind = "str"
  <2>1. j.k = "str" /\ j.v = v
    BY <1>4, ArgJobIs, JobIs
  <2>2. ArgRendering(d) = StringRendering(v)
    BY <1>4 DEF ArgRendering
  <2> QED BY <1>1, <2>1, <2>2, ShowsIs DEF Steady, PointerKinds
<1>5. CASE d.kind = "strv"
  <2>1. j.k = "strv" /\ j.v = v /\ j.i = 0
    BY <1>5, ArgJobIs, JobIs
  <2>2. ArgRendering(d) = StrvRendering(v)
    BY <1>5 DEF ArgRendering
  <2>3. Len(StrvSome(v)) \in Nat
    BY <1>1, StrvPtrsAre
  <2>4. Steady(j)
    BY <1>1, <2>1, <2>3 DEF Steady, PointerKinds
  <2> QED BY <1>1, <2>1, <2>2, <2>4, ShowsIs, StrvWhole
<1>6. CASE d.kind = "buf_in"
  <2>1. j.k = "buffer" /\ j.v = v /\ j.n = x
    BY <1>6, ArgJobIs, JobIs
  <2>2. ArgRendering(d) = BufferRendering(v, x)
    BY <1>6 DEF ArgRendering
  <2> QED BY <1>1, <2>1, <2>2, ShowsIs DEF Steady, PointerKinds
<1>7. CASE d.kind = "buf_out" /\ ~is_error
  <2>1. j.k = "buffer" /\ j.v = v /\ j.n = Least(returned, x)
    BY <1>7, ArgJobIs, JobIs
  <2>2. ArgRendering(d) = BufferRendering(v, Least(returned, x))
    BY <1>7 DEF ArgRendering
  <2> QED BY <1>1, <2>1, <2>2, ShowsIs DEF Steady, PointerKinds
<1>8. CASE d.kind = "buf_out" /\ is_error
  <2>1. j.k = "ptr" /\ j.v = v /\ "ptr" \in ValueKinds /\ "ptr" \notin PointerKinds
    BY <1>8, ArgJobIs, JobIs DEF ValueKinds, PointerKinds
  <2>2. ArgRendering(d) = Ptr(v)
    BY <1>8 DEF ArgRendering
  <2>3. ValueText("ptr", v, j.n) = Ptr(v)
    BY DEF ValueText
  <2>4. Steady(j)
    BY <2>1 DEF Steady, PointerKinds
  <2> QED BY <2>1, <2>2, <2>3, <2>4, ShowsIs
<1>9. CASE d.kind \in {"iov_in", "iov_out"}
  <2> SUFFICES ASSUME NEW n, n = Least(x, max_array),
                      NEW lim, lim = IF d.kind = "iov_in" THEN max_buffer ELSE returned,
                      NEW show, show = IF d.kind = "iov_in" THEN TRUE ELSE ~is_error
               PROVE  Steady(j) /\ Shows(j) = ArgRendering(d)
    OBVIOUS
  <2>1. j.k = "iov" /\ j.v = v /\ j.n = n /\ j.i = 0 /\ j.lim = lim /\ j.show = show
    <3>1. CASE d.kind = "iov_in"
      <4>1. j = [Job("iov", v, n) EXCEPT !.lim = max_buffer]
        BY <3>1 DEF ArgJob
      <4>2. lim = max_buffer /\ show = TRUE
        BY <3>1
      <4> QED BY <4>1, <4>2 DEF Job
    <3>2. CASE d.kind = "iov_out"
      <4>1. j = [Job("iov", v, n) EXCEPT !.lim = returned, !.show = ~is_error]
        BY <3>2 DEF ArgJob
      <4>2. lim = returned /\ show = ~is_error
        BY <3>2
      <4> QED BY <4>1, <4>2 DEF Job
    <3> QED BY <1>9, <3>1, <3>2
  <2>2. n \in Nat /\ lim \in Nat /\ show \in BOOLEAN
    BY <1>1, <1>2, <1>9 DEF PairedKinds, Least
  <2>3. ArgRendering(d) = IovRendering(v, n, lim, show)
    <3>1. CASE d.kind = "iov_in"
      <4>1. ArgRendering(d) = IovRendering(v, Least(x, max_array), max_buffer, TRUE)
        BY <3>1 DEF ArgRendering
      <4>2. lim = max_buffer /\ show = TRUE
        BY <3>1
      <4> QED BY <4>1, <4>2
    <3>2. CASE d.kind = "iov_out"
      <4>1. ArgRendering(d) = IovRendering(v, Least(x, max_array), returned, ~is_error)
        BY <3>2 DEF ArgRendering
      <4>2. lim = returned /\ show = ~is_error
        BY <3>2
      <4> QED BY <4>1, <4>2
    <3> QED BY <1>9, <3>1, <3>2
  <2>4. Shows(j) = IovLeft(v, n, 0, lim, show)
    BY <2>1, ShowsIs
  <2>5. IovLeft(v, n, 0, lim, show) = IovRendering(v, n, lim, show)
    <3>1. v \in Nat /\ n \in Nat /\ lim \in Nat
      BY <1>1, <2>2
    <3>2. ASSUME NEW b \in BOOLEAN
          PROVE  IovLeft(v, n, 0, lim, b) = IovRendering(v, n, lim, b)
      BY <3>1, IovWhole
    <3> QED BY <2>2, <3>2, Zenon
  <2>6. IovCount(v, n) \in 0 .. n
    BY <1>1, <2>2, IovIs, Zenon
  <2>7. Steady(j)
    BY <1>1, <2>1, <2>2, <2>6 DEF Steady, PointerKinds
  <2> QED BY <2>3, <2>4, <2>5, <2>7
<1> QED BY <1>3, <1>4, <1>5, <1>6, <1>7, <1>8, <1>9 DEF FollowedKinds

\* The jobs of the event show the whole line.
LEMMA JobsRender ==
  ASSUME ev \in Event, MemInv, ev.syscall_id >= 0, NEW stack, NEW E, E = EventJobs(stack),
         \A i \in DOMAIN Args : Args[i].kind \in FollowedKinds \cup ValueKinds
  PROVE  Rendered(<<>>, E)
<1> SUFFICES ASSUME NEW N, N = Len(Args) PROVE Rendered(<<>>, E)
  OBVIOUS
<1> DEFINE L == Len(E)
           f == [x \in 1 .. L |-> Shows(E[x])]
           call == <<Tok("call", ev.syscall_id)>>
           args == FlattenSeq([i \in 1 .. N |-> ArgRendering(Args[i])])
<1>1. /\ E \in Seq(GoodJob) /\ N \in Nat /\ L \in {N + 3, N + 4}
      /\ E[1] = Job("head", ev.syscall_id, 0) /\ E[N + 2] = Job("result", ev.ret, 0)
      /\ \A i \in 1 .. N : E[i + 1] = ArgJob(Args[i])
      /\ \A i \in N + 3 .. L : E[i].k \in {"puts", "stack"}
  BY EventJobsExactly
<1> HIDE DEF L
<1>2. \A i \in 1 .. N : Steady(E[i + 1]) /\ Shows(E[i + 1]) = ArgRendering(Args[i])
  <2>1. Args \in Seq(ArgDesc) /\ DOMAIN Args = 1 .. N
    BY ArgsType
  <2>2. \A i \in 1 .. N : Args[i] \in ArgDesc /\ Args[i].kind \in FollowedKinds \cup ValueKinds
    BY <2>1
  <2> QED BY <1>1, <2>2, ArgShows
<1>3. Steady(E[1]) /\ Shows(E[1]) = call
  <2>1. E[1].k = "head" /\ E[1].v = ev.syscall_id
    BY <1>1, JobIs
  <2> QED BY <2>1, ShowsIs DEF Steady, PointerKinds
<1>4. Steady(E[N + 2]) /\ Shows(E[N + 2]) = ResultText
  <2>1. E[N + 2].k = "result"
    BY <1>1, JobIs
  <2> QED BY <2>1, ShowsIs DEF Steady, PointerKinds
<1>5. \A i \in N + 3 .. L : Steady(E[i]) /\ Shows(E[i]) = <<>>
  BY <1>1, ShowsIs DEF Steady, PointerKinds
<1>6. \A x \in 1 .. L : Steady(E[x])
  <2> SUFFICES ASSUME NEW x \in 1 .. L PROVE Steady(E[x])
    OBVIOUS
  <2>1. x = 1 \/ x = N + 2 \/ x \in N + 3 .. L \/ (x - 1 \in 1 .. N /\ (x - 1) + 1 = x)
    BY <1>1
  <2> QED BY <1>2, <1>3, <1>4, <1>5, <2>1
<1>7. \A x \in 1 .. L : f[x] = Shows(E[x]) /\ f[x] \in Text
  <2>1. \A x \in 1 .. L : E[x] \in GoodJob
    BY <1>1 DEF L
  <2> QED BY <1>6, <2>1, ShowsType
<1>8. L \in Nat /\ 0 \in 0 .. L /\ 1 \in 0 .. N + 1 /\ N + 1 \in 0 .. L /\ N + 2 \in 0 .. L
      /\ N + 3 \in 0 .. L /\ 0 < L /\ N + 1 < L /\ N + 2 < L /\ 1 \in 0 .. L
      /\ 1 \in 1 .. L /\ N + 2 \in 1 .. L /\ N + 3 \in 1 .. L
      /\ (N + 1) + 1 = N + 2 /\ (N + 2) + 1 = N + 3
      /\ N + 3 \in N + 3 .. L
  BY <1>1
<1> HIDE DEF f
<1>9. ASSUME NEW i \in 0 .. L
      PROVE  /\ FlatFrom(f, L, i) \in Text
             /\ i = L => FlatFrom(f, L, i) = <<>>
             /\ i < L => FlatFrom(f, L, i) = f[i + 1] \o FlatFrom(f, L, i + 1)
  <2>1. \A x \in i + 1 .. L : f[x] \in Text
    <3>1. \A x \in i + 1 .. L : x \in 1 .. L
      BY <1>8
    <3> QED BY <1>7, <3>1
  <2> QED BY <1>8, <2>1, FlatNext
<1>10. FlatFrom(f, L, N + 2) = <<>>
  <2>1. FlatFrom(f, L, N + 3) = <<>>
    <3>1. CASE L = N + 3
      BY <1>8, <1>9, <3>1
    <3>2. CASE L = N + 4
      <4>1. N + 3 < L /\ (N + 3) + 1 = L /\ L \in 0 .. L /\ L \in N + 3 .. L /\ L \in 1 .. L
        BY <1>1, <3>2
      <4>2. FlatFrom(f, L, N + 3) = f[L] \o FlatFrom(f, L, L)
        BY <1>8, <1>9, <4>1
      <4>3. FlatFrom(f, L, L) = <<>> /\ f[L] = <<>>
        BY <1>5, <1>7, <1>9, <4>1
      <4>4. <<>> \in Text
        BY DEF Text
      <4>5. f[L] \o FlatFrom(f, L, L) = <<>>
        BY <4>3, <4>4, TextEmpty
      <4> QED BY <4>2, <4>5
    <3> QED BY <1>1, <3>1, <3>2
  <2>2. FlatFrom(f, L, N + 2) = f[N + 3] \o FlatFrom(f, L, N + 3)
    BY <1>8, <1>9
  <2>3. f[N + 3] = <<>>
    BY <1>5, <1>7, <1>8
  <2>4. <<>> \in Text
    BY DEF Text
  <2>5. f[N + 3] \o FlatFrom(f, L, N + 3) = <<>>
    BY <2>1, <2>3, <2>4, TextEmpty
  <2> QED BY <2>2, <2>5
<1>11. FlatFrom(f, L, N + 1) = ResultText /\ ResultText \in Text
  <2>1. f[N + 2] = ResultText /\ f[N + 2] \in Text
    BY <1>4, <1>7, <1>8
  <2>2. FlatFrom(f, L, N + 1) = f[N + 2] \o FlatFrom(f, L, N + 2)
    BY <1>8, <1>9
  <2> QED BY <1>10, <2>1, <2>2, TextEmpty
<1>12. FlatFrom(f, N + 1, 1) = args
  <2>1. (N + 1) - 1 = N /\ \A i \in 1 .. N : i + 1 \in 1 .. L /\ 1 + i = i + 1
    BY <1>1
  <2>2. \A i \in 1 .. N : f[1 + i] = ArgRendering(Args[i])
    BY <1>2, <1>7, <2>1
  <2>3. [i \in 1 .. (N + 1) - 1 |-> f[1 + i]] = [i \in 1 .. N |-> ArgRendering(Args[i])]
    BY <2>1, <2>2
  <2> QED BY <2>3 DEF FlatFrom
<1> HIDE DEF args, call
<1>13. args \in Text
  <2>1. \A x \in 1 + 1 .. N + 1 : x \in 1 .. L
    BY <1>1
  <2>2. \A x \in 1 + 1 .. N + 1 : f[x] \in Text
    BY <1>7, <2>1
  <2>3. N + 1 \in Nat
    BY <1>1
  <2>4. FlatFrom(f, N + 1, 1) \in Text
    BY <1>8, <2>2, <2>3, FlatNext
  <2> QED BY <1>12, <2>4
<1>14. FlatFrom(f, L, 1) = args \o ResultText
  <2>1. FlatFrom(f, L, 1) = FlatFrom(f, N + 1, 1) \o FlatFrom(f, L, N + 1)
    BY <1>7, <1>8, FlatSplit
  <2> QED BY <1>11, <1>12, <2>1
<1>15. ShowsAll(E) = call \o (args \o ResultText) /\ call \in Text
  <2>1. ShowsAll(E) = FlatFrom(f, L, 0)
    <3>1. L - 0 = L /\ \A x \in 1 .. L : 0 + x = x
      BY <1>8
    <3>2. [x \in 1 .. L - 0 |-> f[0 + x]] = [x \in 1 .. Len(E) |-> Shows(E[x])]
      BY <1>7, <3>1 DEF L
    <3> QED BY <3>2 DEF ShowsAll, FlatFrom
  <2>2. FlatFrom(f, L, 0) = f[0 + 1] \o FlatFrom(f, L, 0 + 1)
    BY <1>8, <1>9
  <2>3. f[1] = call /\ f[1] \in Text
    BY <1>3, <1>7, <1>8
  <2>4. 0 + 1 = 1
    OBVIOUS
  <2>5. FlatFrom(f, L, 0) = f[1] \o FlatFrom(f, L, 1)
    BY <2>2, <2>4, Zenon
  <2> QED BY <1>14, <2>1, <2>3, <2>5, Zenon
<1>16. <<>> \o ShowsAll(E) = (call \o args) \o ResultText
  <2>1. (call \o args) \o ResultText = call \o (args \o ResultText)
    <3>1. Associates(call, args, ResultText)
      BY <1>11, <1>13, <1>15, TextAssociates
    <3> QED BY <3>1 DEF Associates
  <2>2. call \o (args \o ResultText) \in Text
    <3> DEFINE ar == args \o ResultText
    <3>1. ar \in Text
      BY <1>11, <1>13, TextConcat
    <3> HIDE DEF ar
    <3>2. call \o ar \in Text
      BY <1>15, <3>1, TextConcat
    <3> QED BY <3>2 DEF ar
  <2>3. ShowsAll(E) \in Text
    BY <1>15, <2>2
  <2> QED BY <1>15, <2>1, <2>3, TextEmpty
<1> QED BY <1>6, <1>16 DEF Rendered, Whole, call, args, L

\* The line to be printed is the rendering of the memory.
LEMMA InitRenderInv == HInit => RenderInv
<1> SUFFICES ASSUME NEW st \in Starts, DInit(st), todo = EventJobs(st.print_stack), HInit,
                    ev.syscall_id >= 0,
                    \A i \in DOMAIN Args : Args[i].kind \in FollowedKinds \cup ValueKinds
             PROVE  SpaceInv /\ Rendered(text, todo)
  BY DEF HInit, RenderInv
<1>1. TypeInv
  BY InitTypeInv
<1>2. SpaceInv
  BY SpaceAssumption DEF DInit, SpaceInv, Span
<1>3. Rendered(<<>>, todo)
  BY <1>1, JobsRender DEF TypeInv
<1> QED BY <1>2, <1>3 DEF DInit, OutInit

\* If the process leaves its memory alone while the event is printed, the line is the
\* rendering of that memory: strings read in chunks, lists read element by element, up to
\* what cannot be read (print_cstring, print_buffer, print_strv, print_iov).
THEOREM LineIsRendering == HSafety => []StableRendering
<1>1. TypeInv /\ RenderInv => StableRendering
  <2> SUFFICES ASSUME TypeInv, RenderInv, todo = <<>>, changes = 0, ev.syscall_id >= 0,
                      \A i \in DOMAIN Args : Args[i].kind \in FollowedKinds \cup ValueKinds
               PROVE  text = Whole
    BY DEF StableRendering, Whole
  <2>1. text \o ShowsAll(todo) = Whole /\ \A x \in 1 .. Len(todo) : Steady(todo[x])
    BY DEF RenderInv, Rendered
  <2>2. ShowsAll(todo) = <<>>
    BY <2>1, ShowsFirst DEF TypeInv
  <2>3. text \in Text
    BY DEF TypeInv, OutInv, Text
  <2> QED BY <2>1, <2>2, <2>3, TextEmpty
<1>2. HSafety => []RenderInv
  BY InitRenderInv, NextRenderInv, TypesAlways, PTL DEF HSafety
<1> QED BY <1>1, <1>2, TypesAlways, PTL

-----------------------------------------------------------------------------
(***************************************************************************)
(* Numbers that a width does not tell apart.                               *)
(***************************************************************************)

\* Numbers a multiple of w apart.
LEMMA Apart ==
  ASSUME NEW x \in Int, NEW v \in Int, NEW w \in Nat \ {0}, NEW q \in Int, x - v = w * q
  PROVE  (x - v) % w = 0
<1> DEFINE r == 0
<1>1. r \in 0 .. w - 1
  OBVIOUS
<1> HIDE DEF r
<1>2. (w * q + r) % w = r
  BY <1>1, RemainderIs
<1>3. w * q + r = x - v
  BY DEF r
<1> QED BY <1>2, <1>3 DEF r

\* A number, its remainder and the signed number of its remainder.
LEMMA SameRegister ==
  ASSUME NEW v \in Int, NEW w \in Nat \ {0}
  PROVE  /\ (v - v) % w = 0 /\ ((v % w) - v) % w = 0 /\ (Signed(v, w) - v) % w = 0
         /\ \E q \in Int : (v % w) - v = w * q
         /\ \E q \in Int : Signed(v, w) - v = w * q
<1> DEFINE d == v \div w
           m == v % w
           e == -d
           f == -d - 1
<1>1. d \in Int /\ m \in 0 .. w - 1 /\ v = w * d + m
  OBVIOUS
<1>2. Signed(v, w) \in {m, m - w}
  BY DEF Signed
<1> HIDE DEF d, m
<1>3. e \in Int /\ f \in Int /\ w * e = -(w * d) /\ w * f = -(w * d) - w
  BY <1>1
<1> HIDE DEF e, f
<1>4. w * d \in Int /\ w * e \in Int
  BY <1>1, <1>3
<1>5. m - v = w * e /\ (m - w) - v = w * f
  BY <1>1, <1>3, <1>4
<1>6. m \in Int /\ m - w \in Int
  BY <1>1
<1>7. (m - v) % w = 0 /\ ((m - w) - v) % w = 0
  BY <1>3, <1>5, <1>6, Apart
<1>8. (v - v) % w = 0
  BY ModType
<1> QED BY <1>2, <1>3, <1>5, <1>7, <1>8 DEF m

-----------------------------------------------------------------------------
(***************************************************************************)
(* The pieces of a line.                                                   *)
(***************************************************************************)

\* A token more is added to the pieces.
LEMMA TokenAdded ==
  ASSUME NEW ps \in Seq(Text), NEW x \in Token
  PROVE  AddToken(ps, x) \in Seq(Text)
<1>1. <<x>> \in Text
  BY DEF Text
<1>2. CASE ps = <<>> \/ x.t \notin Continues
  BY <1>1, <1>2 DEF AddToken
<1>3. CASE ~(ps = <<>> \/ x.t \notin Continues)
  <2> DEFINE n == Len(ps)
  <2>1. n \in 1 .. Len(ps) /\ ps[n] \in Text
    BY <1>3
  <2>2. Append(ps[n], x) \in Text
    BY <2>1 DEF Text
  <2>3. [ps EXCEPT ![n] = Append(ps[n], x)] \in Seq(Text)
    BY <2>1, <2>2
  <2> QED BY <1>3, <2>3 DEF AddToken
<1> QED BY <1>2, <1>3

CutStep(s) == [i \in 1 .. Len(s) |-> [ps \in Seq(Text) |-> AddToken(ps, s[i])]]

\* Pieces adds the tokens one by one.
LEMMA PiecesIs ==
  ASSUME NEW s \in Text
  PROVE  \E f : IsIteration(f, Seq(Text), <<>>, Len(s), CutStep(s)) /\ Pieces(s) = f[Len(s)]
<1> DEFINE N == Len(s)
           A == Seq(Text)
           step == CutStep(s)
           F(f) == [i \in 0 .. N |-> IF i = 0 THEN <<>> ELSE AddToken(f[i - 1], s[i])]
           g == CHOOSE h : h = F(h)
<1>1. N \in Nat /\ \A i \in 1 .. N : s[i] \in Token
  BY DEF Text
<1>2. <<>> \in A
  OBVIOUS
<1>3. \A i \in 1 .. N : \A ps \in A : AddToken(ps, s[i]) \in A
  BY <1>1, TokenAdded
<1>4. step = [i \in 1 .. N |-> [ps \in A |-> AddToken(ps, s[i])]]
  BY DEF CutStep
<1> HIDE DEF A, step
<1>5. step \in [1 .. N -> [A -> A]]
  BY <1>3, <1>4
<1>6. \A i \in 1 .. N : \A ps \in A : step[i][ps] = AddToken(ps, s[i])
  BY <1>4
<1>7. PICK f : IsIteration(f, A, <<>>, N, step)
  BY <1>1, <1>2, <1>5, IterationExists
<1>8. ASSUME NEW i \in 1 .. N PROVE f[i] = AddToken(f[i - 1], s[i])
  <2>1. f[i - 1] \in A /\ f[i] = step[i][f[i - 1]]
    BY <1>1, <1>7 DEF IsIteration
  <2> QED BY <1>6, <2>1
<1>9. f = F(f)
  BY <1>1, <1>7, <1>8 DEF IsIteration
<1>10. g = F(g)
  BY <1>9, Zenon
<1>11. Pieces(s) = g[N]
  BY DEF Pieces
<1> HIDE DEF g
<1>12. g = [i \in 0 .. N |-> g[i]] /\ g[0] = <<>> /\ \A i \in 1 .. N : g[i] = AddToken(g[i - 1], s[i])
  BY <1>1, <1>10
<1>13. \A i \in 1 .. N : g[i - 1] \in A => g[i] = step[i][g[i - 1]]
  BY <1>6, <1>12
<1>14. IsIteration(g, A, <<>>, N, step)
  BY <1>1, <1>2, <1>5, <1>12, <1>13, IterationIs
<1> QED BY <1>11, <1>14 DEF A, step

\* The pieces of a text with one token more.
LEMMA PiecesAppend ==
  /\ Pieces(<<>>) = <<>>
  /\ \A s \in Text : Pieces(s) \in Seq(Text)
  /\ \A s \in Text, x \in Token : Pieces(Append(s, x)) = AddToken(Pieces(s), x)
<1>1. Pieces(<<>>) = <<>>
  <2>1. <<>> \in Text /\ Len(<<>>) = 0
    BY DEF Text
  <2>2. PICK f : IsIteration(f, Seq(Text), <<>>, Len(<<>>), CutStep(<<>>)) /\ Pieces(<<>>) = f[Len(<<>>)]
    BY <2>1, PiecesIs
  <2> QED BY <2>1, <2>2 DEF IsIteration
<1>2. ASSUME NEW s \in Text PROVE Pieces(s) \in Seq(Text)
  <2>1. PICK f : IsIteration(f, Seq(Text), <<>>, Len(s), CutStep(s)) /\ Pieces(s) = f[Len(s)]
    BY PiecesIs
  <2>2. Len(s) \in 0 .. Len(s)
    BY DEF Text
  <2> QED BY <2>1, <2>2 DEF IsIteration
<1>3. ASSUME NEW s \in Text, NEW x \in Token PROVE Pieces(Append(s, x)) = AddToken(Pieces(s), x)
  <2> DEFINE t == Append(s, x)
             A == Seq(Text)
             N == Len(s)
             M == Len(t)
             a == CutStep(s)
             b == CutStep(t)
  <2>1. t \in Text /\ M = N + 1 /\ N \in Nat /\ M \in Nat /\ t[M] = x /\ \A i \in 1 .. N : t[i] = s[i]
    BY DEF Text
  <2>2. PICK f : IsIteration(f, A, <<>>, N, a) /\ Pieces(s) = f[N]
    BY PiecesIs
  <2>3. PICK g : IsIteration(g, A, <<>>, M, b) /\ Pieces(t) = g[M]
    BY <2>1, PiecesIs
  <2>4. N \in 0 .. N /\ N \in 0 .. M /\ N <= M /\ M \in 1 .. M /\ M - 1 = N /\ \A i \in 1 .. N : i \in 1 .. M
    BY <2>1
  <2>5. \A i \in 1 .. N : a[i] = b[i]
    BY <2>1, <2>4 DEF CutStep
  <2>6. \A ps \in A : b[M][ps] = AddToken(ps, x)
    BY <2>1, <2>4 DEF CutStep
  <2> HIDE DEF A, a, b, N, M, t
  <2>7. \A i \in 0 .. N : f[i] = g[i]
    <3> DEFINE S == {i \in 0 .. N : f[i] = g[i]}
    <3>1. 0 \in S
      BY <2>1, <2>2, <2>3 DEF IsIteration
    <3>2. ASSUME NEW i \in 0 .. N - 1, i \in S PROVE i + 1 \in S
      <4>1. i + 1 \in 1 .. N /\ i + 1 \in 1 .. M /\ (i + 1) - 1 = i /\ i + 1 \in 0 .. N
        BY <2>1
      <4>2. f[i + 1] = a[i + 1][f[i]] /\ g[i + 1] = b[i + 1][g[i]]
        BY <2>2, <2>3, <4>1 DEF IsIteration
      <4> QED BY <2>5, <3>2, <4>1, <4>2
    <3> HIDE DEF S
    <3>3. \A i \in 0 .. N : i \in S
      BY <2>1, <3>1, <3>2, SetInduction
    <3> QED BY <3>3 DEF S
  <2>8. g[N] \in A /\ g[M] = b[M][g[N]]
    BY <2>3, <2>4 DEF IsIteration
  <2> QED BY <2>2, <2>3, <2>4, <2>6, <2>7, <2>8 DEF t
<1> QED BY <1>1, <1>2, <1>3
\* What is printed of an argument begins a piece and continues it.
IsPiece(p) ==
  /\ p \in Text /\ p # <<>> /\ p[1].t \notin Continues
  /\ \A i \in 2 .. Len(p) : p[i].t \in Continues

\* A text up to its i-th token, and the next one.
LEMMA PrefixNext ==
  ASSUME NEW s \in Text, NEW p \in Text, NEW i \in 0 .. Len(p) - 1
  PROVE  /\ s \o SubSeq(p, 1, i) \in Text /\ SubSeq(p, 1, i) \in Text
         /\ SubSeq(p, 1, i + 1) = Append(SubSeq(p, 1, i), p[i + 1])
         /\ s \o SubSeq(p, 1, i + 1) = Append(s \o SubSeq(p, 1, i), p[i + 1])
<1> DEFINE a == SubSeq(p, 1, i)
           b == SubSeq(p, 1, i + 1)
           x == p[i + 1]
<1>1. Len(p) \in Nat /\ i \in 0 .. Len(p) /\ i + 1 \in 0 .. Len(p) /\ i + 1 \in 1 .. Len(p)
  BY DEF Text
<1>2. a \in Text /\ Len(a) = i /\ \A n \in 1 .. i : a[n] = p[n]
  BY <1>1, PrefixIs DEF Text
<1>3. b \in Text /\ Len(b) = i + 1 /\ \A n \in 1 .. i + 1 : b[n] = p[n]
  BY <1>1, PrefixIs DEF Text
<1>4. x \in Token
  BY <1>1 DEF Text
<1> HIDE DEF a, b, x
<1>5. /\ Append(a, x) \in Text /\ Len(Append(a, x)) = i + 1 /\ Append(a, x)[i + 1] = x
      /\ \A n \in 1 .. i : Append(a, x)[n] = a[n]
  BY <1>1, <1>2, <1>4 DEF Text
<1>6. \A n \in 1 .. i + 1 : n \in 1 .. i \/ n = i + 1
  BY <1>1
<1>7. \A n \in 1 .. i + 1 : b[n] = Append(a, x)[n]
  BY <1>2, <1>3, <1>5, <1>6 DEF x
<1>8. b = Append(a, x)
  BY <1>3, <1>5, <1>7, SeqEqual DEF Text
<1>9. s \o a \in Text
  BY <1>2, TextConcat
<1>10. s \o Append(a, x) = Append(s \o a, x)
  <2>1. Append(a, x) = a \o <<x>> /\ Append(s \o a, x) = (s \o a) \o <<x>> /\ <<x>> \in Text
    BY <1>2, <1>4, <1>9, AppendIsConcat DEF Text
  <2>2. (s \o a) \o <<x>> = s \o (a \o <<x>>)
    <3>1. Associates(s, a, <<x>>)
      BY <1>2, <2>1, TextAssociates
    <3> QED BY <3>1 DEF Associates
  <2> QED BY <2>1, <2>2, Zenon
<1> QED BY <1>2, <1>8, <1>9, <1>10 DEF a, b, x

\* A token that continues the last piece.
LEMMA LastContinues ==
  ASSUME NEW ps \in Seq(Text), NEW q \in Text, NEW x \in Token, x.t \in Continues
  PROVE  AddToken(Append(ps, q), x) = Append(ps, Append(q, x))
<1> DEFINE a == Append(ps, q)
           n == Len(ps) + 1
           r == Append(q, x)
<1>1. r \in Text
  BY DEF Text
<1>2. a \in Seq(Text) /\ Len(a) = n /\ a[n] = q /\ a # <<>> /\ Len(ps) \in Nat
      /\ \A i \in 1 .. Len(ps) : a[i] = ps[i]
  OBVIOUS
<1>3. AddToken(a, x) = [a EXCEPT ![Len(a)] = Append(@, x)]
  BY <1>2 DEF AddToken
<1> HIDE DEF a, r
<1>4. AddToken(a, x) = [a EXCEPT ![n] = r]
  BY <1>2, <1>3 DEF r
<1> DEFINE b == [a EXCEPT ![n] = r]
           c == Append(ps, r)
<1>5. b \in Seq(Text) /\ Len(b) = n /\ b[n] = r /\ \A i \in 1 .. Len(ps) : b[i] = ps[i]
  BY <1>1, <1>2
<1>6. c \in Seq(Text) /\ Len(c) = n /\ c[n] = r /\ \A i \in 1 .. Len(ps) : c[i] = ps[i]
  BY <1>1
<1> HIDE DEF b, c
<1>7. \A i \in 1 .. n : i \in 1 .. Len(ps) \/ i = n
  BY <1>2
<1>8. \A i \in 1 .. n : b[i] = c[i]
  BY <1>5, <1>6, <1>7
<1>9. b = c
  BY <1>5, <1>6, <1>8, SeqEqual
<1> QED BY <1>4, <1>9 DEF a, b, c, r

\* What is printed as a piece is the last piece of the line.
LEMMA PieceAdded ==
  ASSUME NEW s \in Text, NEW p, IsPiece(p)
  PROVE  Pieces(s \o p) = Append(Pieces(s), p) /\ Pieces(s) \in Seq(Text) /\ s \o p \in Text
<1> DEFINE ps == Pieces(s)
           pre(i) == SubSeq(p, 1, i)
           N == Len(p) - 1
           S == {i \in 0 .. N : Pieces(s \o pre(i + 1)) = Append(ps, pre(i + 1))}
<1>1. p \in Text /\ N \in Nat /\ Len(p) = N + 1 /\ \A i \in 1 .. N + 1 : p[i] \in Token
  BY DEF IsPiece, Text
<1>2. ps \in Seq(Text)
  BY PiecesAppend
<1>3. ASSUME NEW i \in 0 .. N
      PROVE  /\ s \o pre(i) \in Text /\ pre(i) \in Text /\ p[i + 1] \in Token
             /\ pre(i + 1) = Append(pre(i), p[i + 1])
             /\ s \o pre(i + 1) = Append(s \o pre(i), p[i + 1])
             /\ Pieces(s \o pre(i + 1)) = AddToken(Pieces(s \o pre(i)), p[i + 1])
  <2>1. i \in 0 .. Len(p) - 1 /\ i + 1 \in 1 .. N + 1
    BY <1>1
  <2>2. /\ s \o pre(i) \in Text /\ pre(i) \in Text
        /\ pre(i + 1) = Append(pre(i), p[i + 1])
        /\ s \o pre(i + 1) = Append(s \o pre(i), p[i + 1])
    BY <1>1, <2>1, PrefixNext
  <2>3. p[i + 1] \in Token
    BY <1>1, <2>1
  <2> HIDE DEF pre
  <2> QED BY <2>2, <2>3, PiecesAppend
<1>4. 0 \in S
  <2>1. pre(0) = <<>> /\ s \o pre(0) = s
    <3>1. pre(0) = <<>>
      BY <1>1 DEF Text
    <3> QED BY <3>1, TextEmpty
  <2>2. 0 \in 0 .. N /\ 0 + 1 = 1
    BY <1>1
  <2> HIDE DEF pre, ps
  <2>3. pre(0 + 1) = Append(<<>>, p[1]) /\ Pieces(s \o pre(0 + 1)) = AddToken(ps, p[1]) /\ p[1] \in Token
    BY <1>3, <2>1, <2>2 DEF ps
  <2>4. Append(<<>>, p[1]) = <<p[1]>>
    OBVIOUS
  <2>5. AddToken(ps, p[1]) = Append(ps, <<p[1]>>)
    BY DEF AddToken, IsPiece
  <2> QED BY <2>2, <2>3, <2>4, <2>5
<1>5. ASSUME NEW i \in 0 .. N - 1, i \in S PROVE i + 1 \in S
  <2>1. i + 1 \in 0 .. N /\ (i + 1) + 1 \in 2 .. Len(p)
    BY <1>1
  <2> DEFINE k == i + 1
             x == p[k + 1]
             q == pre(k)
  <2>2. q \in Text /\ x \in Token /\ pre(k + 1) = Append(q, x)
        /\ Pieces(s \o pre(k + 1)) = AddToken(Pieces(s \o q), x)
    BY <1>3, <2>1
  <2>3. x.t \in Continues
    BY <2>1 DEF IsPiece
  <2>4. Pieces(s \o q) = Append(ps, q)
    BY <1>5
  <2> HIDE DEF x, q, ps
  <2>5. AddToken(Append(ps, q), x) = Append(ps, Append(q, x))
    BY <1>2, <2>2, <2>3, LastContinues
  <2>6. Pieces(s \o pre(k + 1)) = Append(ps, pre(k + 1))
    <3> HIDE DEF pre, k
    <3> QED BY <2>2, <2>4, <2>5
  <2> QED BY <2>1, <2>6
<1> HIDE DEF S
<1>6. \A i \in 0 .. N : i \in S
  BY <1>1, <1>4, <1>5, SetInduction
<1>7. N \in 0 .. N
  BY <1>1
<1>8. Pieces(s \o pre(N + 1)) = Append(ps, pre(N + 1))
  BY <1>6, <1>7, Zenon DEF S
<1>9. pre(N + 1) = p
  BY <1>1 DEF Text
<1>10. s \o p \in Text
  BY <1>1, TextConcat
<1> QED BY <1>2, <1>8, <1>9, <1>10

\* Which tokens begin a piece and which continue one.
LEMMA TagFacts ==
  /\ \A t \in {"NULL", "ptr", "quote", "call", "word", "int", "name", "flag", "access", "dir",
               "errno", "addr", "ret"} : t \in Tags /\ t \notin Continues
  /\ \A t \in {"|flag", "|word", "|type", "|nr", "|size", "end", "end...", "unreadable"} :
       t \in Tags /\ t \in Continues
  BY DEF Tags, Continues

\* Tokens that continue a piece.
Goes(c) == c \in Text /\ \A i \in 1 .. Len(c) : c[i].t \in Continues

LEMMA PieceGrows ==
  ASSUME NEW p, IsPiece(p), NEW c, Goes(c)
  PROVE  IsPiece(p \o c)
<1> DEFINE q == p \o c
<1>1. p \in Text /\ c \in Text /\ Len(p) \in Nat /\ Len(c) \in Nat /\ Len(p) > 0
      /\ p[1].t \notin Continues /\ \A i \in 2 .. Len(p) : p[i].t \in Continues
  BY DEF IsPiece, Goes, Text
<1>2. q \in Text /\ Len(q) = Len(p) + Len(c)
      /\ \A i \in 1 .. Len(q) : q[i] = IF i <= Len(p) THEN p[i] ELSE c[i - Len(p)]
  BY <1>1, ConcatIs DEF Text
<1> HIDE DEF q
<1>3. q # <<>> /\ q[1] = p[1]
  BY <1>1, <1>2
<1>4. ASSUME NEW i \in 2 .. Len(q) PROVE q[i].t \in Continues
  <2>1. CASE i <= Len(p)
    BY <1>1, <1>2, <2>1
  <2>2. CASE i > Len(p)
    <3>1. i - Len(p) \in 1 .. Len(c) /\ i \in 1 .. Len(q) /\ ~(i <= Len(p))
      BY <1>1, <1>2, <2>2
    <3> QED BY <1>2, <3>1 DEF Goes
  <2> QED BY <1>1, <1>2, <2>1, <2>2
<1>5. IsPiece(q)
  BY <1>1, <1>2, <1>3, <1>4 DEF IsPiece
<1> QED BY <1>5 DEF q

\* One token.
LEMMA OnePiece ==
  ASSUME NEW t \in Tags, NEW v \in Int
  PROVE  /\ <<Tok(t, v)>> \in Text
         /\ t \notin Continues => IsPiece(<<Tok(t, v)>>)
         /\ t \in Continues => Goes(<<Tok(t, v)>>)
<1>1. Tok(t, v) \in Token /\ Tok(t, v).t = t
  BY DEF Tok, Token
<1> DEFINE x == Tok(t, v)
           p == <<x>>
<1> HIDE DEF x
<1>2. p \in Text /\ Len(p) = 1 /\ p[1] = x /\ p # <<>>
  BY <1>1 DEF Text, x
<1> HIDE DEF p
<1>3. t \notin Continues => IsPiece(p)
  BY <1>1, <1>2 DEF IsPiece, x
<1>4. t \in Continues => Goes(p)
  BY <1>1, <1>2 DEF Goes, x
<1> QED BY <1>2, <1>3, <1>4 DEF p, x

\* Addresses, with the mark of what cannot be read or without.
LEMMA PtrPieces ==
  ASSUME ev \in Event, NEW v \in Int
  PROVE  IsPiece(Ptr(v)) /\ IsPiece(Ptr(v) \o Mark("unreadable"))
<1>1. ptr_value(v) \in Int
  BY RegisterTypes
<1>2. {"NULL", "ptr", "unreadable"} \subseteq Tags /\ "NULL" \notin Continues
      /\ "ptr" \notin Continues /\ "unreadable" \in Continues
  BY DEF Tags, Continues
<1>3. IsPiece(Ptr(v))
  BY <1>1, <1>2, OnePiece DEF Ptr
<1>4. Goes(Mark("unreadable"))
  BY <1>2, OnePiece DEF Mark
<1> QED BY <1>3, <1>4, PieceGrows

\* Data in quotes.
LEMMA QuotedPiece ==
  ASSUME NEW s \in Seq(Nat), NEW more \in BOOLEAN
  PROVE  IsPiece(Quoted(s, more))
<1> DEFINE b == [i \in 1 .. Len(s) |-> Tok("byte", s[i])]
           m == Mark("quote")
           e == Mark(IF more THEN "end..." ELSE "end")
<1>1. {"quote", "end", "end..."} \subseteq Tags /\ "quote" \notin Continues
      /\ {"end", "end...", "byte"} \subseteq Continues
  BY DEF Tags, Continues
<1>2. IsPiece(m) /\ Goes(e)
  BY <1>1, OnePiece DEF Mark
<1>3. Goes(b)
  <2>1. \A i \in 1 .. Len(s) : Tok("byte", s[i]) \in Token /\ Tok("byte", s[i]).t = "byte"
    BY DEF Tok, Token
  <2>2. b \in Text /\ Len(b) = Len(s) /\ \A i \in 1 .. Len(s) : b[i] = Tok("byte", s[i])
    BY <2>1 DEF Text
  <2> QED BY <1>1, <2>1, <2>2 DEF Goes
<1>4. Quoted(s, more) = (m \o b) \o e
  BY DEF Quoted
<1> HIDE DEF b, m, e
<1>5. IsPiece(m \o b)
  BY <1>2, <1>3, PieceGrows
<1> QED BY <1>2, <1>4, <1>5, PieceGrows

\* What print_cstring prints.
LEMMA StringPiece ==
  ASSUME ev \in Event, NEW v \in Int, NEW s \in Seq(Nat), NEW terminated \in BOOLEAN
  PROVE  IsPiece(StringText(v, s, terminated))
<1>1. (~terminated) \in BOOLEAN
  OBVIOUS
<1>2. IsPiece(Quoted(s, ~terminated))
  BY <1>1, QuotedPiece
<1> QED BY <1>2, PtrPieces DEF StringText

-----------------------------------------------------------------------------
(***************************************************************************)
(* What a reader takes from a piece.                                       *)
(***************************************************************************)

Total(s)    == Sums(s)[Len(s)]
Values(p) == [i \in 1 .. Len(p) |-> p[i].v]

\* Sums from either end.
LEMMA SumLast ==
  ASSUME NEW s \in Seq(Int), NEW x \in Int
  PROVE  Total(s) \in Int /\ Total(Append(s, x)) = Total(s) + x /\ Total(<<>>) = 0
<1>1. Len(Append(s, x)) = Len(s) + 1 /\ Len(s) \in 0 .. Len(s) /\ <<>> \in Seq(Int) /\ Len(<<>>) = 0
  OBVIOUS
<1>2. Sums(s)[Len(s)] \in Int /\ Sums(<<>>)[0] = 0
  BY <1>1, SumsIs
<1>3. Sums(Append(s, x))[Len(s) + 1] = Sums(s)[Len(s)] + x
  BY SumsAppend
<1> QED BY <1>1, <1>2, <1>3 DEF Total

LEMMA SumFirst ==
  ASSUME NEW s \in Seq(Int), NEW x \in Int
  PROVE  Total(<<x>> \o s) = x + Total(s)
<1> DEFINE t == <<x>> \o s
           N == Len(s)
           S == {n \in 0 .. N : Sums(t)[n + 1] = x + Sums(s)[n]}
<1>1. t \in Seq(Int) /\ Len(t) = N + 1 /\ N \in Nat /\ t[1] = x /\ \A i \in 1 .. N : t[i + 1] = s[i]
  OBVIOUS
<1>2. \A i \in 1 .. N : s[i] \in Int
  OBVIOUS
<1> HIDE DEF t
<1>3. /\ Sums(s)[0] = 0 /\ \A i \in 1 .. N : Sums(s)[i] = Sums(s)[i - 1] + s[i]
      /\ \A i \in 0 .. N : Sums(s)[i] \in Int
  BY SumsIs
<1>4. /\ Sums(t)[0] = 0 /\ \A i \in 1 .. N + 1 : Sums(t)[i] = Sums(t)[i - 1] + t[i]
      /\ \A i \in 0 .. N + 1 : Sums(t)[i] \in Int
  BY <1>1, SumsIs
<1> HIDE DEF N
<1>5. 0 \in S
  <2>1. 1 \in 1 .. N + 1 /\ 1 - 1 = 0 /\ 0 + 1 = 1 /\ 0 \in 0 .. N
    BY <1>1
  <2>2. Sums(t)[1] = 0 + x
    BY <1>1, <1>4, <2>1
  <2> QED BY <1>3, <2>1, <2>2
<1>6. ASSUME NEW n \in 0 .. N - 1, n \in S PROVE n + 1 \in S
  <2>1. n + 1 \in 1 .. N /\ (n + 1) + 1 \in 1 .. N + 1 /\ (n + 1) - 1 = n /\ ((n + 1) + 1) - 1 = n + 1
        /\ n + 1 \in 0 .. N /\ n \in 0 .. N
    BY <1>1
  <2>2. Sums(t)[(n + 1) + 1] = Sums(t)[n + 1] + s[n + 1] /\ Sums(s)[n + 1] = Sums(s)[n] + s[n + 1]
    BY <1>1, <1>3, <1>4, <2>1
  <2>3. Sums(t)[n + 1] = x + Sums(s)[n] /\ Sums(s)[n] \in Int /\ s[n + 1] \in Int
    BY <1>2, <1>3, <1>6, <2>1
  <2>4. Sums(t)[(n + 1) + 1] = x + Sums(s)[n + 1]
    BY <2>2, <2>3
  <2> QED BY <2>1, <2>4
<1> HIDE DEF S
<1>7. \A n \in 0 .. N : n \in S
  BY <1>1, <1>5, <1>6, SetInduction
<1>8. N \in 0 .. N
  BY <1>1
<1>9. Sums(t)[N + 1] = x + Sums(s)[N]
  BY <1>7, <1>8, Zenon DEF S
<1> QED BY <1>1, <1>9 DEF Total, t, N

\* A number on its own.
LEMMA OneRead ==
  ASSUME NEW t, NEW v \in Int, NEW k, k # "ioc"
  PROVE  ValueRead(k, <<Tok(t, v)>>) = v
<1> DEFINE x == Tok(t, v)
           p == <<x>>
           e == <<>>
<1>1. x.v = v
  BY DEF Tok
<1> HIDE DEF x
<1>2. Values(p) = <<v>>
  BY <1>1 DEF Values
<1>3. e \in Seq(Int) /\ Append(e, v) = <<v>>
  OBVIOUS
<1>4. Total(e) = 0 /\ Total(Append(e, v)) = Total(e) + v
  BY <1>3, SumLast
<1>5. Total(<<v>>) = v
  BY <1>3, <1>4
<1>6. ValueRead(k, p) = Total(Values(p))
  BY DEF ValueRead, Total, Values
<1> QED BY <1>2, <1>5, <1>6 DEF p, x

Sharing(v) == {acc \in [bits : Seq(BitSet), rest : Nat] : Total(acc.bits) + acc.rest = v}

\* Bits are sequences of numbers.
LEMMA BitsInt == Seq(BitSet) \subseteq Seq(Int)
<1> SUFFICES ASSUME NEW s \in Seq(BitSet) PROVE s \in Seq(Int)
  OBVIOUS
<1>1. \A i \in 1 .. Len(s) : s[i] \in Int
  BY DEF BitSet
<1> QED BY <1>1

\* What the loop over a table of bits finds and leaves is the number.
LEMMA NamedSum ==
  ASSUME NEW v \in Nat, NEW table \in Seq(BitSet)
  PROVE  Named(v, table) \in Sharing(v)
<1>1. [bits |-> <<>>, rest |-> v] \in Sharing(v)
  <2> DEFINE e == <<>>
  <2>1. e \in Seq(Int) /\ e \in Seq(BitSet) /\ 0 \in Int
    OBVIOUS
  <2>2. Total(<<>>) = 0
    BY <2>1, SumLast
  <2> QED BY <2>1, <2>2 DEF Sharing
<1>2. ASSUME NEW acc \in Sharing(v), NEW b \in BitSet PROVE TakeBit(acc, b) \in Sharing(v)
  <2> DEFINE s == acc.bits
             r == acc.rest
             d == r \div b
  <2>1. s \in Seq(BitSet) /\ r \in Nat /\ Total(s) + r = v /\ b \in Nat /\ b > 0 /\ s \in Seq(Int)
    BY BitsInt DEF Sharing, BitSet
  <2>2. TakeBit(acc, b) = IF d % 2 = 1 THEN [bits |-> Append(s, b), rest |-> r - b] ELSE acc
    BY DEF TakeBit
  <2>3. ASSUME d % 2 = 1 PROVE r >= b
    <3>1. SUFFICES ASSUME r < b PROVE d = 0
      BY <2>1, <2>3
    <3> QED BY <2>1, <3>1, SMTT(30)
  <2>4. Append(s, b) \in Seq(BitSet) /\ b \in Int
    BY <2>1
  <2>5. Total(Append(s, b)) = Total(s) + b /\ Total(s) \in Int
    BY <2>1, <2>4, SumLast
  <2> HIDE DEF s, r, d
  <2>6. CASE d % 2 = 1
    <3>1. r - b \in Nat /\ Total(Append(s, b)) + (r - b) = v
      BY <2>1, <2>3, <2>5, <2>6
    <3> DEFINE x == [bits |-> Append(s, b), rest |-> r - b]
    <3>2. x \in Sharing(v)
      BY <2>4, <3>1 DEF Sharing
    <3> HIDE DEF x
    <3>3. TakeBit(acc, b) = x
      BY <2>2, <2>6 DEF x
    <3> QED BY <3>2, <3>3
  <2> QED BY <2>2, <2>6
<1> DEFINE A == Sharing(v)
<1>3. [bits |-> <<>>, rest |-> v] \in A /\ \A acc \in A : \A b \in BitSet : TakeBit(acc, b) \in A
  BY <1>1, <1>2
<1> HIDE DEF A
<1>4. Named(v, table) \in A
  BY <1>3, NamedKeeps
<1> QED BY <1>4 DEF A

\* The parts of a set of flags: what begins it, the bits joined with bars, the rest.
Joined(t, v, bits, rest) ==
  (<<Tok(t, v)>> \o Bars(bits)) \o (IF rest > 0 THEN <<Tok("|word", rest)>> ELSE <<>>)

LEMMA BarsRead ==
  ASSUME NEW t \in Tags, t \notin Continues, NEW v \in Int, NEW bits \in Seq(BitSet),
         NEW rest \in Nat, NEW k, k # "ioc"
  PROVE  /\ IsPiece(Joined(t, v, bits, rest))
         /\ ValueRead(k, Joined(t, v, bits, rest)) = (v + Total(bits)) + rest
<1> DEFINE p == Joined(t, v, bits, rest)
           h == <<Tok(t, v)>>
           b == Bars(bits)
           q == h \o b
           r == <<Tok("|word", rest)>>
           w == <<v>> \o bits
<1>1. IsPiece(h) /\ Len(h) = 1 /\ h[1].v = v
  BY OnePiece DEF Tok
<1>2. Goes(b) /\ Len(b) = Len(bits) /\ \A i \in 1 .. Len(bits) : b[i].v = bits[i]
  <2>1. \A i \in 1 .. Len(bits) :
          Tok("|flag", bits[i]) \in Token /\ Tok("|flag", bits[i]).t = "|flag"
          /\ Tok("|flag", bits[i]).v = bits[i]
    <3>1. "|flag" \in Tags
      BY TagFacts
    <3>2. \A i \in 1 .. Len(bits) : bits[i] \in Int
      BY DEF BitSet
    <3> QED BY <3>1, <3>2 DEF Tok, Token
  <2>2. b \in Text /\ Len(b) = Len(bits) /\ \A i \in 1 .. Len(bits) : b[i] = Tok("|flag", bits[i])
    BY <2>1 DEF Text, Bars
  <2>3. "|flag" \in Continues
    BY DEF Continues
  <2> QED BY <2>1, <2>2, <2>3 DEF Goes
<1>3. Goes(r) /\ r[1].v = rest /\ Len(r) = 1
  <2>1. "|word" \in Tags /\ "|word" \in Continues /\ rest \in Int
    BY TagFacts
  <2> QED BY <2>1, OnePiece DEF Tok
<1>4. bits \in Seq(Int) /\ Len(bits) \in Nat
  BY BitsInt
<1>5. w \in Seq(Int) /\ Len(w) = Len(bits) + 1 /\ w[1] = v /\ \A i \in 1 .. Len(bits) : w[i + 1] = bits[i]
  BY <1>4
<1>6. Total(w) = v + Total(bits) /\ Total(bits) \in Int
  BY <1>4, SumFirst, SumLast
<1> HIDE DEF h, b, r, w, p
<1>7. IsPiece(q)
  BY <1>1, <1>2, PieceGrows
<1>8. Len(q) = Len(bits) + 1 /\ q \in Text /\ \A i \in 1 .. Len(q) : q[i].v = w[i]
  <2>1. h \in Text /\ b \in Text
    BY <1>1, <1>2 DEF IsPiece, Goes
  <2>2. q \in Text /\ Len(q) = Len(h) + Len(b)
        /\ \A i \in 1 .. Len(q) : q[i] = IF i <= Len(h) THEN h[i] ELSE b[i - Len(h)]
    BY <2>1, ConcatIs DEF Text
  <2> HIDE DEF q
  <2>3. ASSUME NEW i \in 1 .. Len(q) PROVE q[i].v = w[i]
    <3>1. CASE i = 1
      BY <1>1, <1>5, <2>2, <3>1
    <3>2. CASE i # 1
      <4>1. i - 1 \in 1 .. Len(bits) /\ ~(i <= Len(h)) /\ (i - 1) + 1 = i
        BY <1>1, <1>2, <1>4, <2>2, <3>2
      <4>2. q[i] = b[i - 1]
        BY <1>1, <2>2, <4>1
      <4> QED BY <1>2, <1>5, <4>1, <4>2
    <3> QED BY <3>1, <3>2
  <2> QED BY <1>1, <1>2, <1>4, <2>2, <2>3
<1>9. Values(q) = w
  <2> DEFINE x == Values(q)
  <2>1. x \in Seq(Int) /\ Len(x) = Len(w) /\ \A i \in 1 .. Len(x) : x[i] = w[i]
    BY <1>5, <1>8 DEF Values
  <2> HIDE DEF x
  <2>2. x = w
    BY <1>5, <2>1, SeqEqual
  <2> QED BY <2>2 DEF x
<1>10. \A y : ValueRead(k, y) = Sums(Values(y))[Len(y)]
  BY DEF ValueRead, Values
<1> HIDE DEF q
<1>11. CASE rest = 0
  <2>1. p = q \o <<>>
    BY <1>11 DEF q, h, b, p, Joined
  <2>2. p = q
    BY <1>8, <2>1, TextEmpty
  <2>3. ValueRead(k, q) = Total(w)
    BY <1>5, <1>8, <1>9, <1>10 DEF Total
  <2>4. Total(w) = (v + Total(bits)) + rest
    BY <1>6, <1>11
  <2> QED BY <1>7, <2>2, <2>3, <2>4 DEF p
<1>12. CASE rest # 0
  <2>1. p = q \o r
    BY <1>12 DEF q, h, b, r, p, Joined
  <2>2. IsPiece(p)
    BY <1>3, <1>7, <2>1, PieceGrows
  <2>3. Len(p) = Len(q) + 1 /\ Values(p) = Append(w, rest)
    <3>1. r \in Text
      BY <1>3 DEF Goes
    <3>2. p \in Text /\ Len(p) = Len(q) + Len(r)
          /\ \A i \in 1 .. Len(p) : p[i] = IF i <= Len(q) THEN q[i] ELSE r[i - Len(q)]
      BY <1>8, <2>1, <3>1, ConcatIs DEF Text
    <3> DEFINE x == Values(p)
               y == Append(w, rest)
               n == Len(q)
    <3>3. n \in Nat /\ n = Len(w)
      BY <1>4, <1>5, <1>8
    <3>4. y \in Seq(Int) /\ Len(y) = n + 1 /\ y[n + 1] = rest /\ \A i \in 1 .. n : y[i] = w[i]
      BY <1>5, <3>3
    <3>5. x \in Seq(Int) /\ Len(x) = n + 1 /\ \A i \in 1 .. n + 1 : x[i] = p[i].v
      <4>1. \A i \in 1 .. Len(p) : p[i].v \in Int
        <5>1. \A i \in 1 .. Len(p) : p[i] \in Token
          BY <3>2 DEF Text
        <5> QED BY <5>1 DEF Token
      <4> QED BY <1>3, <3>2, <3>3, <4>1 DEF Values
    <3>6. ASSUME NEW i \in 1 .. n + 1 PROVE x[i] = y[i]
      <4>1. CASE i = n + 1
        <5>1. p[i] = r[1]
          BY <1>3, <3>2, <3>3, <4>1
        <5> QED BY <1>3, <3>4, <3>5, <4>1, <5>1
      <4>2. CASE i # n + 1
        <5>1. i \in 1 .. n /\ i <= n
          BY <3>3, <4>2
        <5>2. p[i] = q[i]
          BY <1>3, <3>2, <3>3, <5>1
        <5> QED BY <1>8, <3>4, <3>5, <5>1, <5>2
      <4> QED BY <4>1, <4>2
    <3> HIDE DEF x, y
    <3>7. x = y
      BY <3>4, <3>5, <3>6, SeqEqual
    <3> QED BY <1>3, <3>2, <3>7 DEF x, y
  <2>4. Total(Append(w, rest)) = Total(w) + rest
    BY <1>5, SumLast
  <2>5. ValueRead(k, p) = Total(Append(w, rest))
    <3>1. Len(Append(w, rest)) = Len(p)
      BY <1>5, <1>8, <2>3
    <3> QED BY <1>10, <2>3, <3>1 DEF Total
  <2> QED BY <1>6, <2>2, <2>4, <2>5 DEF p
<1> QED BY <1>11, <1>12

\* print_flags shows the number.
LEMMA FlagsRead ==
  ASSUME NEW v \in Nat, NEW table \in Seq(BitSet), NEW k, k # "ioc"
  PROVE  IsPiece(Flags(v, table)) /\ ValueRead(k, Flags(v, table)) = v
<1> DEFINE n == Named(v, table)
<1>1. n.bits \in Seq(BitSet) /\ n.rest \in Nat /\ Total(n.bits) + n.rest = v
  BY NamedSum DEF Sharing
<1>2. {"word", "flag"} \subseteq Tags /\ "word" \notin Continues /\ "flag" \notin Continues
  BY DEF Tags, Continues
<1>3. \A x \in Nat : IsPiece(<<Tok("word", x)>>) /\ ValueRead(k, <<Tok("word", x)>>) = x
  BY <1>2, OnePiece, OneRead
<1> HIDE DEF n
<1>4. CASE ~symbolic
  BY <1>3, <1>4 DEF Flags
<1>5. CASE symbolic /\ n.bits = <<>>
  <2> DEFINE e == <<>>
  <2>1. Total(<<>>) = 0
    <3>1. e \in Seq(Int) /\ 0 \in Int
      OBVIOUS
    <3> QED BY <3>1, SumLast
  <2>2. n.rest = v
    BY <1>1, <1>5, <2>1
  <2> QED BY <1>3, <1>5, <2>2 DEF Flags, n
<1>6. CASE symbolic /\ n.bits # <<>>
  <2> DEFINE a == n.bits[1]
             c == Tail(n.bits)
             r == n.rest
             p == Flags(v, table)
  <2>1. a \in Int /\ c \in Seq(BitSet) /\ n.bits = <<a>> \o c
    <3>1. n.bits[1] \in BitSet
      BY <1>1, <1>6
    <3> QED BY <1>1, <1>6, <3>1 DEF BitSet
  <2>2. p = Joined("flag", a, c, r)
    BY <1>6 DEF Flags, n, Joined
  <2>3. r \in Nat /\ Total(n.bits) + r = v
    BY <1>1
  <2>4. Total(n.bits) = a + Total(c)
    <3>1. c \in Seq(Int)
      BY <2>1, BitsInt
    <3> HIDE DEF a, c
    <3> QED BY <2>1, <3>1, SumFirst
  <2> HIDE DEF a, c, r, p
  <2>5. IsPiece(p) /\ ValueRead(k, p) = (a + Total(c)) + r
    BY <1>2, <2>1, <2>2, <2>3, BarsRead
  <2> QED BY <2>3, <2>4, <2>5 DEF p
<1> QED BY <1>4, <1>5, <1>6, OptionsAssumption

\* And so does print_open_flags.
LEMMA OpenFlagsRead ==
  ASSUME NEW v \in Nat, NEW k, k # "ioc"
  PROVE  IsPiece(OpenFlags(v)) /\ ValueRead(k, OpenFlags(v)) = v
<1> DEFINE a == v % 4
           u == v - a
           n == Named(u, open_flags)
           t == IF a = 3 THEN "word" ELSE "access"
           r == n.rest
           b == n.bits
           p == OpenFlags(v)
<1>1. a \in Int /\ u \in Nat /\ u + a = v
  OBVIOUS
<1>2. open_flags \in Seq(BitSet)
  BY FlagsAssumption DEF BitSet
<1>3. p = IF ~symbolic THEN <<Tok("word", v)>> ELSE Joined(t, a, b, r)
  BY DEF OpenFlags, Joined
<1> HIDE DEF a, u, p
<1>4. b \in Seq(BitSet) /\ r \in Nat /\ Total(b) + r = u
  BY <1>1, <1>2, NamedSum DEF Sharing
<1>5. t \in Tags /\ t \notin Continues /\ "word" \in Tags /\ "word" \notin Continues
  BY DEF Tags, Continues
<1> HIDE DEF t, r, b
<1>6. CASE ~symbolic
  <2>1. v \in Int
    OBVIOUS
  <2> QED BY <1>3, <1>5, <1>6, <2>1, OnePiece, OneRead DEF p
<1>7. CASE symbolic
  <2>1. IsPiece(p) /\ ValueRead(k, p) = (a + Total(b)) + r
    BY <1>1, <1>3, <1>4, <1>5, <1>7, BarsRead
  <2>2. Total(b) \in Int
    BY <1>4, BitsInt, SumLast
  <2>3. (a + Total(b)) + r = v
    BY <1>1, <1>4, <2>2
  <2> QED BY <2>1, <2>3 DEF p
<1> QED BY <1>6, <1>7, OptionsAssumption

\* One field of a request: what is left of it is a multiple of what is left of the field
\* above it.
LEMMA FieldLeft ==
  ASSUME NEW x \in Int, NEW y \in Int, NEW c \in Int, NEW r \in Int, NEW z \in Int, x - y = z
  PROVE  (c * x + r) - (y * c + r) = c * z
<1>1. c * x \in Int /\ y * c \in Int
  OBVIOUS
<1>2. c * z = c * x - y * c
  OBVIOUS
<1> QED BY <1>1, <1>2

\* A quotient and its remainder.
LEMMA DivMod ==
  ASSUME NEW x \in Int, NEW w \in Nat \ {0}
  PROVE  (x \div w) \in Int /\ (x % w) \in Int /\ x = w * (x \div w) + (x % w)
  OBVIOUS

\* v is made of the fields n, t, s and r, and of Q, what is above them.
Composed(v, a, b, c, D, n, t, s, r, Q) ==
  v = a * (b * (c * (D * Q + r) + s) + t) + n
Recomposed(v, a, b, c, D, n, t, s, r, Q) ==
  ((((r * c + s) * b + t) * a + n) - v) = (((a * b) * c) * D) * (-Q)

\* The fields of a request make the request again, but for what is above its 32 bits.
LEMMA FieldsMake ==
  ASSUME NEW v \in Int, NEW a \in Int, NEW b \in Int, NEW c \in Int, NEW D \in Int,
         NEW n \in Int, NEW t \in Int, NEW s \in Int, NEW r \in Int, NEW Q \in Int,
         Composed(v, a, b, c, D, n, t, s, r, Q)
  PROVE  Recomposed(v, a, b, c, D, n, t, s, r, Q)
<1> DEFINE R == D * Q + r
           S == c * R + s
           T == b * S + t
           X == r * c + s
           Y == X * b + t
           e == D * Q
           f == c * e
           g == b * f
           h == a * g
           q == -Q
           W == ((a * b) * c) * D
<1>1. R \in Int /\ e \in Int /\ R - r = e
  OBVIOUS
<1>2. v = a * T + n
  BY DEF Composed
<1> HIDE DEF R, e
<1>3. S \in Int /\ X \in Int /\ f \in Int
  BY <1>1
<1>4. S - X = f
  BY <1>1, FieldLeft
<1> HIDE DEF S, X, f
<1>5. T \in Int /\ Y \in Int /\ g \in Int
  BY <1>3
<1>6. T - Y = g
  BY <1>3, <1>4, FieldLeft
<1> HIDE DEF T, Y, g
<1>7. (a * T + n) - (Y * a + n) = h /\ h \in Int
  BY <1>5, <1>6, FieldLeft
<1>8. h = a * (b * (c * (D * Q)))
  BY DEF h, g, f, e
<1> HIDE DEF h
<1>9. h = W * Q
  BY <1>8
<1>10. W \in Int /\ q \in Int
  OBVIOUS
<1> HIDE DEF W
<1>11. W * q = -h
  BY <1>9, <1>10
<1>12. Y * a + n \in Int
  BY <1>5
<1>13. (Y * a + n) - v = -h
  BY <1>2, <1>7, <1>12
<1>14. (Y * a + n) - v = W * q
  BY <1>11, <1>13
<1> QED BY <1>14 DEF Y, X, W, q, Recomposed

\* print_ioctl shows the request.
LEMMA IocRead ==
  ASSUME NEW v \in Int
  PROVE  /\ IsPiece(Ioc(v)) /\ ValueRead("ioc", Ioc(v)) \in Int
         /\ \E q \in Int : ValueRead("ioc", Ioc(v)) - v = Word32 * q
<1> DEFINE a == IOC.nr
           b == IOC.type
           c == IOC.size
           m == a * b * c
           D == Word32 \div m
           T == v \div a
           S == T \div b
           R == S \div c
           p == Ioc(v)
<1>1. a \in Nat \ {0} /\ b \in Nat \ {0} /\ c \in Nat \ {0} /\ Word32 \in Nat \ {0} /\ Word32 % m = 0
  BY SpansAssumption
<1>2. p = <<Tok("dir", R % D), Tok("|type", T % b), Tok("|nr", v % a), Tok("|size", S % c)>>
  BY DEF Ioc
<1>3. \A x : ValueRead("ioc", x) = ((x[1].v * c + x[4].v) * b + x[2].v) * a + x[3].v
  BY DEF ValueRead
<1> HIDE DEF a, b, c, p
<1>4. m \in Nat \ {0}
  BY <1>1
<1>5. Word32 = m * D /\ D \in Nat \ {0}
  <2> HIDE DEF m
  <2>1. D \in Int /\ Word32 = m * D + (Word32 % m)
    BY <1>1, <1>4
  <2>2. m * D \in Int
    BY <1>4, <2>1
  <2>3. Word32 = m * D
    BY <1>1, <2>1, <2>2
  <2> HIDE DEF D
  <2>4. ASSUME D <= 0 PROVE FALSE
    <3>1. m * D <= 0
      BY <1>4, <2>1, <2>4
    <3> QED BY <1>1, <2>3, <3>1
  <2> QED BY <2>1, <2>3, <2>4
<1> HIDE DEF D
<1> DEFINE r == R % D
           t == T % b
           n == v % a
           s == S % c
           Q == R \div D
<1>6. T \in Int /\ n \in Int /\ v = a * T + n
  BY <1>1, DivMod
<1> HIDE DEF T, n
<1>7. S \in Int /\ t \in Int /\ T = b * S + t
  BY <1>1, <1>6, DivMod
<1> HIDE DEF S, t
<1>8. R \in Int /\ s \in Int /\ S = c * R + s
  BY <1>1, <1>7, DivMod
<1> HIDE DEF R, s
<1>9. Q \in Int /\ r \in Int /\ R = D * Q + r
  BY <1>5, <1>8, DivMod
<1> HIDE DEF Q, r
<1>10. \E q \in Int : ((((r * c + s) * b + t) * a + n) - v) = (((a * b) * c) * D) * q
  <2>1. Composed(v, a, b, c, D, n, t, s, r, Q)
    BY <1>6, <1>7, <1>8, <1>9 DEF Composed
  <2>2. a \in Int /\ b \in Int /\ c \in Int /\ D \in Int /\ n \in Int /\ t \in Int /\ s \in Int
        /\ r \in Int /\ Q \in Int
    BY <1>1, <1>5, <1>6, <1>7, <1>8, <1>9
  <2>3. ((((r * c + s) * b + t) * a + n) - v) = (((a * b) * c) * D) * (-Q)
    <3>1. Recomposed(v, a, b, c, D, n, t, s, r, Q)
      BY <2>1, <2>2, FieldsMake
    <3> QED BY <3>1 DEF Recomposed
  <2>4. -Q \in Int
    BY <2>2
  <2> QED BY <2>3, <2>4, Zenon
<1>11. p = <<Tok("dir", r), Tok("|type", t), Tok("|nr", n), Tok("|size", s)>>
  BY <1>2 DEF r, t, n, s
<1>12. Len(p) = 4 /\ p[1].v = r /\ p[2].v = t /\ p[3].v = n /\ p[4].v = s
       /\ p[1].t = "dir" /\ p[2].t = "|type" /\ p[3].t = "|nr" /\ p[4].t = "|size"
  BY <1>11 DEF Tok
<1>13. p \in Text /\ p # <<>>
  <2>1. Tok("dir", r) \in Token /\ Tok("|type", t) \in Token /\ Tok("|nr", n) \in Token
        /\ Tok("|size", s) \in Token
    BY <1>6, <1>7, <1>8, <1>9, TagFacts DEF Tok, Token
  <2> QED BY <1>11, <2>1 DEF Text
<1>14. IsPiece(p)
  <2>1. \A i \in 2 .. 4 : i = 2 \/ i = 3 \/ i = 4
    OBVIOUS
  <2>2. \A i \in 2 .. Len(p) : p[i].t \in Continues
    BY <1>12, <2>1, TagFacts
  <2> QED BY <1>12, <1>13, <2>2, TagFacts DEF IsPiece
<1>15. ValueRead("ioc", p) = ((r * c + s) * b + t) * a + n
  BY <1>3, <1>12
<1>16. ((r * c + s) * b + t) * a + n \in Int
  <2>1. r * c + s \in Int
    BY <1>1, <1>8, <1>9
  <2>2. (r * c + s) * b + t \in Int
    BY <1>1, <1>7, <2>1
  <2> QED BY <1>1, <1>6, <2>2
<1>17. ((a * b) * c) * D = Word32
  BY <1>5 DEF m
<1> QED BY <1>10, <1>14, <1>15, <1>16, <1>17 DEF p

\* How many values a register has.
Register == IF ev.abi = 32 THEN Word32 ELSE Word64

\* The parts of a register that are printed have its value for the kernel.
LEMMA RegisterRead ==
  ASSUME ev \in Event, NEW v \in Nat
  PROVE  /\ Word32 \in Nat \ {0} /\ Register \in Nat \ {0} /\ ModeSpan \in Nat \ {0}
         /\ Word64 \in Nat \ {0}
         /\ ptr_value(v) \in Nat /\ (ptr_value(v) - v) % Register = 0
         /\ \E q \in Int : ptr_value(v) - v = Word32 * q
         /\ Signed(v, Word32) \in Int /\ (Signed(v, Word32) - v) % Word32 = 0
         /\ Signed(v, Register) \in Int /\ (Signed(v, Register) - v) % Register = 0
         /\ (v % Word32) \in Int /\ ((v % Word32) - v) % Word32 = 0 /\ (v - v) % Word32 = 0
         /\ (v % ModeSpan) \in Int /\ ((v % ModeSpan) - v) % ModeSpan = 0
         /\ (v - v) % Word64 = 0
<1>1. Word32 \in Nat \ {0} /\ ModeSpan \in Nat \ {0} /\ Word64 \in Nat \ {0} /\ ptr_value(v) \in Nat
  BY RegisterTypes, SpansAssumption
<1>2. Register \in Nat \ {0}
  BY <1>1 DEF Register
<1>3. v \in Int
  OBVIOUS
<1>4. \A w \in Nat \ {0} :
        /\ (v % w) \in Int /\ Signed(v, w) \in Int
        /\ (v - v) % w = 0 /\ ((v % w) - v) % w = 0 /\ (Signed(v, w) - v) % w = 0
        /\ \E q \in Int : (v % w) - v = w * q
  BY <1>3, SameRegister, SignedType, ModType
<1>5. (ptr_value(v) - v) % Register = 0 /\ \E q \in Int : ptr_value(v) - v = Word32 * q
  <2>1. CASE ev.abi = 32
    <3>1. ptr_value(v) = v % Word32 /\ Register = Word32
      BY <2>1 DEF ptr_value, Register
    <3> QED BY <1>1, <1>4, <3>1
  <2>2. CASE ev.abi # 32
    <3>1. ptr_value(v) = v
      BY <2>2 DEF ptr_value
    <3>2. 0 \in Int /\ v - v = Word32 * 0
      BY <1>1
    <3>3. \E q \in Int : v - v = Word32 * q
      BY <3>2, Zenon
    <3> QED BY <1>2, <1>4, <3>1, <3>3
  <2> QED BY <2>1, <2>2
<1> QED BY <1>1, <1>2, <1>4, <1>5

\* A number on its own is a piece, and is read as that number.
NumberTags == {"word", "int", "name", "NULL", "ptr", "errno", "addr", "ret"}

LEMMA NumberRead ==
  ASSUME NEW x \in Int, NEW k, k # "ioc", NEW p, \E t \in NumberTags : p = <<Tok(t, x)>>
  PROVE  IsPiece(p) /\ ValueRead(k, p) = x
<1>1. PICK t \in NumberTags : p = <<Tok(t, x)>>
  OBVIOUS
<1>2. t \in Tags /\ t \notin Continues
  BY TagFacts DEF NumberTags
<1> QED BY <1>1, <1>2, OnePiece, OneRead

\* How many values the kernel tells apart.
LEMMA Widths ==
  ASSUME NEW k \in ValueKinds
  PROVE  Width(k) = IF k \in {"int", "dirfd", "sig", "fcntl_cmd", "ioc"} THEN Word32
                    ELSE IF k = "mode" THEN ModeSpan
                    ELSE IF k \in {"word", "ptr", "long", "bpf_cmd"} THEN Register
                    ELSE Word64
  BY DEF Width, Register

\* The value of an argument in the registers v and n.
Value(k, v, n) == IF k = "pair" THEN v + n * Word32 ELSE v

\* What is printed of a value is a piece, and is read as the value the kernel takes.
LEMMA ValueIsRead ==
  ASSUME ev \in Event, NEW k \in ValueKinds, k # "socket_call", NEW v \in Nat, NEW n \in Nat,
         k = "pair" => v < Word32 /\ n < Word32, NEW p, p = ValueText(k, v, n)
  PROVE  IsPiece(p) /\ (ValueRead(k, p) - Value(k, v, n)) % Width(k) = 0
<1>1. CASE k \in {"word", "bpf_cmd"}
  <2> DEFINE x == ptr_value(v)
  <2>1. \E t \in NumberTags : p = <<Tok(t, x)>>
    BY <1>1 DEF ValueText, Number, NumberTags
  <2>2. x \in Int /\ (x - v) % Register = 0
    BY RegisterRead
  <2> HIDE DEF x
  <2>3. IsPiece(p) /\ ValueRead(k, p) = x
    BY <1>1, <2>1, <2>2, NumberRead
  <2> QED BY <1>1, <2>2, <2>3, Widths DEF Value
<1>2. CASE k \in {"int", "dirfd", "fcntl_cmd"}
  <2> DEFINE x == Signed(v, Word32)
  <2>1. \E t \in NumberTags : p = <<Tok(t, x)>>
    BY <1>2 DEF ValueText, Number, fcntl_cmd, NumberTags
  <2>2. x \in Int /\ (x - v) % Word32 = 0
    BY RegisterRead
  <2> HIDE DEF x
  <2>3. IsPiece(p) /\ ValueRead(k, p) = x
    BY <1>2, <2>1, <2>2, NumberRead
  <2> QED BY <1>2, <2>2, <2>3, Widths DEF Value
<1>3. CASE k = "long"
  <2> DEFINE x == Signed(v, Register)
  <2>1. \E t \in NumberTags : p = <<Tok(t, x)>>
    BY <1>3 DEF ValueText, Register, NumberTags
  <2>2. x \in Int /\ (x - v) % Register = 0
    BY RegisterRead
  <2> HIDE DEF x
  <2>3. IsPiece(p) /\ ValueRead(k, p) = x
    BY <1>3, <2>1, <2>2, NumberRead
  <2> QED BY <1>3, <2>2, <2>3, Widths DEF Value
<1>4. CASE k = "mode"
  <2> DEFINE x == v % ModeSpan
  <2>1. \E t \in NumberTags : p = <<Tok(t, x)>>
    BY <1>4 DEF ValueText, NumberTags
  <2>2. x \in Int /\ (x - v) % ModeSpan = 0
    BY RegisterRead
  <2> HIDE DEF x
  <2>3. IsPiece(p) /\ ValueRead(k, p) = x
    BY <1>4, <2>1, <2>2, NumberRead
  <2> QED BY <1>4, <2>2, <2>3, Widths DEF Value
<1>5. CASE k \in {"open", "prot", "map"}
  <2>1. {prot_flags, map_flags} \subseteq Seq(BitSet)
    BY FlagsAssumption DEF BitSet
  <2>2. p \in {OpenFlags(v), Flags(v, prot_flags), Flags(v, map_flags)} /\ k # "ioc"
    BY <1>5 DEF ValueText
  <2>3. IsPiece(p) /\ ValueRead(k, p) = v
    BY <2>1, <2>2, OpenFlagsRead, FlagsRead
  <2>4. (v - v) % Word64 = 0
    BY RegisterRead
  <2> QED BY <1>5, <2>3, <2>4, Widths DEF Value
<1>6. CASE k = "sig"
  <2>1. \E x \in {v, v % Word32} : \E t \in NumberTags : p = <<Tok(t, x)>>
    BY <1>6 DEF ValueText, print_signal, NumberTags
  <2>2. PICK x \in {v, v % Word32} : \E t \in NumberTags : p = <<Tok(t, x)>>
    BY <2>1
  <2>3. x \in Int /\ (x - v) % Word32 = 0
    BY <2>2, RegisterRead
  <2>4. IsPiece(p) /\ ValueRead(k, p) = x
    BY <1>6, <2>2, <2>3, NumberRead
  <2> QED BY <1>6, <2>3, <2>4, Widths DEF Value
<1>7. CASE k = "ioc"
  <2> DEFINE x == ptr_value(v)
             y == ValueRead(k, p)
  <2>1. p = Ioc(x)
    BY <1>7 DEF ValueText
  <2>2. x \in Int /\ Word32 \in Nat \ {0}
    BY RegisterRead
  <2>3. PICK q \in Int : x - v = Word32 * q
    BY RegisterRead
  <2> HIDE DEF x
  <2>4. IsPiece(p) /\ y \in Int /\ \E i \in Int : y - x = Word32 * i
    BY <1>7, <2>1, <2>2, IocRead
  <2>5. PICK i \in Int : y - x = Word32 * i
    BY <2>4
  <2> HIDE DEF y
  <2> DEFINE h == q + i
  <2>6. y - v = Word32 * q + Word32 * i
    BY <2>2, <2>3, <2>4, <2>5
  <2>7. h \in Int /\ y - v = Word32 * h
    BY <2>2, <2>6
  <2> HIDE DEF h
  <2>8. (y - v) % Word32 = 0
    <3>1. v \in Int /\ y \in Int
      BY <2>4
    <3> QED BY <2>2, <2>7, <3>1, Apart
  <2> QED BY <1>7, <2>4, <2>8, Widths DEF Value, y
<1>8. CASE k = "pair"
  <2> DEFINE x == v + n * Word32
  <2>1. Word32 \in Nat \ {0} /\ Word64 \in Nat \ {0}
    BY RegisterRead
  <2>2. v % Word32 = v /\ n % Word32 = n
    BY <1>8, <2>1
  <2>3. \E t \in NumberTags : p = <<Tok(t, x)>>
    BY <1>8, <2>2 DEF ValueText, arm_eabi_u64, NumberTags
  <2>4. x \in Int
    BY <2>1
  <2> HIDE DEF x
  <2>5. IsPiece(p) /\ ValueRead(k, p) = x
    BY <1>8, <2>3, <2>4, NumberRead
  <2>6. (x - x) % Word64 = 0
    BY <2>1, <2>4, SameRegister
  <2>7. Value(k, v, n) = x /\ Width(k) = Word64
    BY <1>8, Widths DEF Value, x
  <2> QED BY <2>5, <2>6, <2>7
<1>9. CASE k = "ptr"
  <2> DEFINE x == ptr_value(v)
  <2>1. x \in Int /\ (x - v) % Register = 0
    BY RegisterRead
  <2>2. p = Ptr(v)
    BY <1>9 DEF ValueText
  <2>3. \E t \in NumberTags : p = <<Tok(t, x)>>
    BY <2>2 DEF Ptr, NumberTags
  <2> HIDE DEF x
  <2>4. IsPiece(p) /\ ValueRead(k, p) = x
    BY <1>9, <2>1, <2>3, NumberRead
  <2> QED BY <1>9, <2>1, <2>4, Widths DEF Value
<1> QED BY <1>1, <1>2, <1>3, <1>4, <1>5, <1>6, <1>7, <1>8, <1>9 DEF ValueKinds

\* The result is read as the value of its register.
LEMMA ResultIsRead ==
  ASSUME ev \in Event
  PROVE  IsPiece(ResultText) /\ (ValueRead("ret", ResultText) - ev.ret) % Width("long") = 0
<1> DEFINE p == ResultText
           x == retval
           y == retval % Word64
           W == Register
           r == ev.ret
<1>1. Width("long") = W /\ r \in Int
  BY DEF Width, Register, Event
<1>2. /\ Word32 \in Nat \ {0} /\ Word64 \in Nat \ {0} /\ W \in Nat \ {0} /\ x \in Int
      /\ Word64 = Word32 * Word32
  BY RegisterTypes, SpansAssumption DEF Register, Word64
<1>3. x = Signed(r, W)
  BY DEF retval, Register
<1>4. PICK i \in Int : x - r = W * i
  BY <1>1, <1>2, <1>3, SameRegister
<1>5. PICK j \in Int : y - x = Word64 * j
  BY <1>2, SameRegister
<1>6. y \in Int
  BY <1>2, ModType
<1>7. \/ \E t \in NumberTags : p = <<Tok(t, x)>>
      \/ \E t \in NumberTags : p = <<Tok(t, y)>>
  BY DEF ResultText, NumberTags
<1>8. PICK m \in Int : Word64 = W * m
  <2>1. CASE W = Word32
    BY <1>2, <2>1
  <2>2. CASE W = Word64
    <3>1. Word64 = W * 1
      BY <1>2, <2>2
    <3> QED BY <3>1
  <2> QED BY <2>1, <2>2 DEF Register
<1> HIDE DEF p, x, y, W, r
<1>9. (x - r) % W = 0
  BY <1>1, <1>2, <1>4, Apart
<1>10. (y - r) % W = 0
  <2> DEFINE h == m * j + i
  <2>1. y - r = (W * m) * j + W * i
    BY <1>1, <1>2, <1>4, <1>5, <1>6, <1>8
  <2>2. h \in Int /\ y - r = W * h
    BY <1>2, <2>1
  <2> HIDE DEF h
  <2> QED BY <1>1, <1>2, <1>6, <2>2, Apart
<1>11. CASE \E t \in NumberTags : p = <<Tok(t, x)>>
  <2>1. IsPiece(p) /\ ValueRead("ret", p) = x
    BY <1>2, <1>11, NumberRead
  <2> QED BY <1>1, <1>9, <2>1 DEF p, r
<1>12. CASE \E t \in NumberTags : p = <<Tok(t, y)>>
  <2>1. IsPiece(p) /\ ValueRead("ret", p) = y
    BY <1>6, <1>12, NumberRead
  <2> QED BY <1>1, <1>10, <2>1 DEF p, r
<1> QED BY <1>7, <1>11, <1>12

-----------------------------------------------------------------------------
(***************************************************************************)
(* The registers of the arguments.                                         *)
(***************************************************************************)

\* The register after an argument of kind k that may begin at r.
After(k, r) == IF k = "pair" THEN r + (IF r % 2 = 0 THEN 3 ELSE 2) ELSE r + 1

\* f[i] is the first register after argument i.
IsFree(f, ks) ==
  f[0] = 1 /\ \A i \in 1 .. Len(ks) : f[i - 1] \in Nat /\ f[i] = After(ks[i], f[i - 1])

PassedWith(f, ks) ==
  [i \in 1 .. Len(ks) |->
     IF ks[i] = "pair" THEN ev.args[f[i] - 2] + ev.args[f[i] - 1] * Word32
     ELSE ev.args[f[i] - 1]]

\* The registers are given out one argument after the other.
LEMMA FreeIs ==
  ASSUME NEW ks, Len(ks) \in Nat
  PROVE  \E f : IsFree(f, ks) /\ Passed(ks) = PassedWith(f, ks)
<1> DEFINE N == Len(ks)
           step == [i \in 1 .. N |-> [r \in Nat |-> After(ks[i], r)]]
           F(f) == [i \in 0 .. N |-> IF i = 0 THEN 1
                                     ELSE IF ks[i] = "pair"
                                     THEN f[i - 1] + (IF f[i - 1] % 2 = 0 THEN 3 ELSE 2)
                                     ELSE f[i - 1] + 1]
           g == CHOOSE h : h = F(h)
<1>1. N \in Nat
  OBVIOUS
<1>2. \A i \in 1 .. N : \A r \in Nat : After(ks[i], r) \in Nat
  BY DEF After
<1>3. step \in [1 .. N -> [Nat -> Nat]] /\ 1 \in Nat
  BY <1>2
<1>4. \A i \in 1 .. N : \A r \in Nat : step[i][r] = After(ks[i], r)
  OBVIOUS
<1> HIDE DEF step, N
<1>5. PICK f : IsIteration(f, Nat, 1, N, step)
  BY <1>1, <1>3, IterationExists
<1>6. ASSUME NEW i \in 1 .. N PROVE f[i - 1] \in Nat /\ f[i] = After(ks[i], f[i - 1])
  <2>1. f[i - 1] \in Nat /\ f[i] = step[i][f[i - 1]]
    BY <1>1, <1>5 DEF IsIteration
  <2> QED BY <1>4, <2>1
<1>7. f = F(f)
  BY <1>1, <1>5, <1>6 DEF IsIteration, After
<1>8. g = F(g)
  BY <1>7, Zenon
<1>9. Passed(ks) = PassedWith(g, ks)
  BY DEF Passed, PassedWith, N
<1> HIDE DEF g
<1>10. g = [i \in 0 .. N |-> g[i]] /\ g[0] = 1 /\ \A i \in 1 .. N : g[i] = After(ks[i], g[i - 1])
  BY <1>1, <1>8, SMTT(30) DEF After
<1>11. \A i \in 1 .. N : g[i - 1] \in Nat => g[i] = step[i][g[i - 1]]
  BY <1>4, <1>10
<1>12. IsIteration(g, Nat, 1, N, step)
  BY <1>1, <1>3, <1>10, <1>11, IterationIs
<1>13. IsFree(g, ks)
  <2>1. \A i \in 1 .. N : g[i - 1] \in Nat
    BY <1>1, <1>12 DEF IsIteration
  <2> QED BY <1>10, <2>1 DEF IsFree, N
<1> QED BY <1>9, <1>13

\* Without pairs every argument has one register.
LEMMA PlainPassed ==
  ASSUME NEW ks, Len(ks) \in Nat, \A i \in 1 .. Len(ks) : ks[i] # "pair"
  PROVE  \A i \in 1 .. Len(ks) : Passed(ks)[i] = ev.args[i]
<1> DEFINE N == Len(ks)
<1>1. PICK f : IsFree(f, ks) /\ Passed(ks) = PassedWith(f, ks)
  BY FreeIs
<1> DEFINE S == {i \in 0 .. N : f[i] = i + 1}
<1>2. 0 \in S
  BY <1>1 DEF IsFree
<1>3. ASSUME NEW i \in 0 .. N - 1, i \in S PROVE i + 1 \in S
  <2>1. i + 1 \in 1 .. N /\ (i + 1) - 1 = i /\ i + 1 \in 0 .. N
    OBVIOUS
  <2>2. f[i + 1] = f[i] + 1
    BY <1>1, <2>1 DEF IsFree, After
  <2> QED BY <1>3, <2>1, <2>2
<1> HIDE DEF S
<1>4. \A i \in 0 .. N : i \in S
  BY <1>2, <1>3, SetInduction
<1>5. ASSUME NEW i \in 1 .. N PROVE Passed(ks)[i] = ev.args[i]
  <2>1. f[i] = i + 1 /\ (i + 1) - 1 = i
    BY <1>4 DEF S
  <2> QED BY <1>1, <2>1 DEF PassedWith
<1> QED BY <1>5

\* The tables give each argument its own register.
OwnRegisters(ds) == \A i \in 1 .. Len(ds) : ds[i].arg = i /\ ds[i].kind # "pair"

LEMMA PlainArgs ==
  ASSUME ev \in Event, ~(ev.abi = 32 /\ call_name \in DOMAIN Aligned64)
  PROVE  OwnRegisters(Args)
<1>1. CASE call_name \in DOMAIN Special
  <2>1. OwnRegisters(Special["ioctl"]) /\ OwnRegisters(Special["bpf"])
        /\ OwnRegisters(Special["openat2"]) /\ OwnRegisters(Special["clone3"])
    BY DEF OwnRegisters, Special, Arg, ArgAux
  <2>2. DOMAIN Special = {"ioctl", "bpf", "openat2", "clone3"}
    BY DEF Special
  <2>3. Args = Special[call_name]
    BY <1>1 DEF Args
  <2> QED BY <1>1, <2>1, <2>2, <2>3
<1>2. CASE call_name \notin DOMAIN Special /\ call_name \in {"fcntl", "fcntl64"}
  <2>1. Args = FcntlArgs
    BY <1>2 DEF Args
  <2>2. FcntlArgs \in {<<Arg("int", 1), Arg("fcntl_cmd", 2)>> \o <<>>,
                       <<Arg("int", 1), Arg("fcntl_cmd", 2)>> \o <<Arg("ptr", 3)>>,
                       <<Arg("int", 1), Arg("fcntl_cmd", 2)>> \o <<Arg("word", 3)>>}
    BY DEF FcntlArgs
  <2>3. /\ OwnRegisters(<<Arg("int", 1), Arg("fcntl_cmd", 2)>> \o <<>>)
        /\ OwnRegisters(<<Arg("int", 1), Arg("fcntl_cmd", 2)>> \o <<Arg("ptr", 3)>>)
        /\ OwnRegisters(<<Arg("int", 1), Arg("fcntl_cmd", 2)>> \o <<Arg("word", 3)>>)
    BY DEF OwnRegisters, Arg
  <2> QED BY <2>1, <2>2, <2>3, Zenon
<1>3. CASE call_name \notin DOMAIN Special \cup {"fcntl", "fcntl64"}
           /\ ev.abi = 32 /\ call_name = "socketcall"
  <2>1. Args = <<Arg("socket_call", 1), Arg("socket_words", 2)>>
    BY <1>3 DEF Args
  <2>2. OwnRegisters(<<Arg("socket_call", 1), Arg("socket_words", 2)>>)
    BY DEF OwnRegisters, Arg
  <2> QED BY <2>1, <2>2
<1>4. CASE call_name \notin DOMAIN Special \cup {"fcntl", "fcntl64"}
           /\ ~(ev.abi = 32 /\ call_name = "socketcall") /\ call_name \in DOMAIN calls
  <2> DEFINE ds == calls[call_name]
  <2>1. Args = TableArgs(ds)
    BY <1>4 DEF Args
  <2>2. ds \in Seq(ArgDesc) /\ OwnRegisters(ds)
    BY <1>4, TablesAssumption DEF OwnRegisters
  <2>3. TableArgs(ds) \in {ds, Front(ds)} /\ (TableArgs(ds) # ds => ds # <<>>)
    BY DEF TableArgs
  <2> HIDE DEF ds
  <2>4. ds # <<>> => OwnRegisters(Front(ds))
    <3> SUFFICES ASSUME ds # <<>> PROVE OwnRegisters(Front(ds))
      OBVIOUS
    <3>1. Len(Front(ds)) = Len(ds) - 1 /\ \A i \in 1 .. Len(ds) - 1 : Front(ds)[i] = ds[i]
      <4>1. Len(ds) - 1 \in 0 .. Len(ds)
        BY <2>2
      <4> QED BY <2>2, <4>1, PrefixIs DEF Front
    <3>2. \A i \in 1 .. Len(ds) - 1 : i \in 1 .. Len(ds)
      BY <2>2
    <3> QED BY <2>2, <3>1, <3>2 DEF OwnRegisters
  <2> QED BY <2>1, <2>2, <2>3, <2>4
<1>5. CASE call_name \notin DOMAIN Special \cup {"fcntl", "fcntl64"}
           /\ ~(ev.abi = 32 /\ call_name = "socketcall") /\ call_name \notin DOMAIN calls
  <2> DEFINE n == syscall_table_lookup(ev.syscall_id).nargs
  <2>1. Args = [i \in 1 .. n |-> Arg("word", i)]
    BY <1>5 DEF Args
  <2> HIDE DEF n
  <2>2. Args \in Seq(ArgDesc)
    BY ArgsType
  <2>3. \A i \in 1 .. Len(Args) : i \in 1 .. n
    <3>1. DOMAIN Args = 1 .. n
      BY <2>1
    <3>2. DOMAIN Args = 1 .. Len(Args)
      BY <2>2
    <3> QED BY <3>1, <3>2
  <2>4. \A i \in 1 .. Len(Args) : Args[i] = Arg("word", i)
    BY <2>1, <2>3
  <2>5. \A i : Arg("word", i).arg = i /\ Arg("word", i).kind # "pair"
    BY DEF Arg
  <2> QED BY <2>4, <2>5 DEF OwnRegisters
<1> QED BY <1>1, <1>2, <1>3, <1>4, <1>5


\* The registers of the kinds ks, when the only pair is the last or the second one.
LEMMA PairedPassed ==
  ASSUME NEW ks, Len(ks) \in Nat
  PROVE  /\ Len(ks) = 4 /\ ks[1] # "pair" /\ ks[2] # "pair" /\ ks[3] # "pair" /\ ks[4] = "pair" =>
              /\ Passed(ks)[1] = ev.args[1] /\ Passed(ks)[2] = ev.args[2]
              /\ Passed(ks)[3] = ev.args[3] /\ Passed(ks)[4] = ev.args[5] + ev.args[6] * Word32
         /\ Len(ks) = 3 /\ ks[1] # "pair" /\ ks[2] = "pair" /\ ks[3] # "pair" =>
              /\ Passed(ks)[1] = ev.args[1] /\ Passed(ks)[2] = ev.args[3] + ev.args[4] * Word32
              /\ Passed(ks)[3] = ev.args[5]
         /\ Len(ks) = 2 /\ ks[1] # "pair" /\ ks[2] = "pair" =>
              /\ Passed(ks)[1] = ev.args[1] /\ Passed(ks)[2] = ev.args[3] + ev.args[4] * Word32
<1>1. PICK f : IsFree(f, ks) /\ Passed(ks) = PassedWith(f, ks)
  BY FreeIs
<1>2. f[0] = 1 /\ \A i \in 1 .. Len(ks) : f[i] = After(ks[i], f[i - 1])
  BY <1>1 DEF IsFree
<1>3. \A i \in 1 .. Len(ks) : Passed(ks)[i] = IF ks[i] = "pair" THEN ev.args[f[i] - 2] + ev.args[f[i] - 1] * Word32
                                              ELSE ev.args[f[i] - 1]
  BY <1>1 DEF PassedWith
<1>4. /\ Len(ks) >= 1 => f[1] = After(ks[1], f[0])
      /\ Len(ks) >= 2 => f[2] = After(ks[2], f[1])
      /\ Len(ks) >= 3 => f[3] = After(ks[3], f[2])
      /\ Len(ks) >= 4 => f[4] = After(ks[4], f[3])
  <2>1. 1 - 1 = 0 /\ 2 - 1 = 1 /\ 3 - 1 = 2 /\ 4 - 1 = 3
    OBVIOUS
  <2>2. /\ Len(ks) >= 1 => 1 \in 1 .. Len(ks)
        /\ Len(ks) >= 2 => 2 \in 1 .. Len(ks)
        /\ Len(ks) >= 3 => 3 \in 1 .. Len(ks)
        /\ Len(ks) >= 4 => 4 \in 1 .. Len(ks)
    OBVIOUS
  <2> QED BY <1>2, <2>1, <2>2
<1>5. /\ \A k : k # "pair" => After(k, 1) = 2 /\ After(k, 2) = 3 /\ After(k, 3) = 4 /\ After(k, 5) = 6
      /\ After("pair", 4) = 7 /\ After("pair", 2) = 5
  BY DEF After
<1>6. 7 - 2 = 5 /\ 7 - 1 = 6 /\ 5 - 2 = 3 /\ 5 - 1 = 4 /\ 2 - 1 = 1 /\ 3 - 1 = 2 /\ 4 - 1 = 3 /\ 6 - 1 = 5
  OBVIOUS
<1>7. CASE Len(ks) = 4 /\ ks[1] # "pair" /\ ks[2] # "pair" /\ ks[3] # "pair" /\ ks[4] = "pair"
  <2>1. f[1] = 2 /\ f[2] = 3 /\ f[3] = 4 /\ f[4] = 7
    BY <1>2, <1>4, <1>5, <1>7
  <2>2. 1 \in 1 .. Len(ks) /\ 2 \in 1 .. Len(ks) /\ 3 \in 1 .. Len(ks) /\ 4 \in 1 .. Len(ks)
    BY <1>7
  <2> QED BY <1>3, <1>6, <1>7, <2>1, <2>2
<1>8. CASE Len(ks) = 3 /\ ks[1] # "pair" /\ ks[2] = "pair" /\ ks[3] # "pair"
  <2>1. f[1] = 2 /\ f[2] = 5 /\ f[3] = 6
    BY <1>2, <1>4, <1>5, <1>8
  <2>2. 1 \in 1 .. Len(ks) /\ 2 \in 1 .. Len(ks) /\ 3 \in 1 .. Len(ks)
    BY <1>8
  <2> QED BY <1>3, <1>6, <1>8, <2>1, <2>2
<1>9. CASE Len(ks) = 2 /\ ks[1] # "pair" /\ ks[2] = "pair"
  <2>1. f[1] = 2 /\ f[2] = 5
    BY <1>2, <1>4, <1>5, <1>9
  <2>2. 1 \in 1 .. Len(ks) /\ 2 \in 1 .. Len(ks)
    BY <1>9
  <2> QED BY <1>3, <1>6, <1>9, <2>1, <2>2
<1> QED BY <1>7, <1>8, <1>9

\* The kinds of the arguments, and the value of argument i.
Kinds == [i \in 1 .. Len(Args) |-> Args[i].kind]
ArgValue(i) == Value(Args[i].kind, ev.args[Args[i].arg], ev.args[Args[i].aux])

\* The decoder takes every argument from the registers the call had it in.
LEMMA PassedIs ==
  ASSUME ev \in Event
  PROVE  /\ Args \in Seq(ArgDesc) /\ Len(Kinds) = Len(Args)
         /\ \A i \in 1 .. Len(Args) :
              /\ Kinds[i] = Args[i].kind
              /\ Passed(Kinds)[i] = ArgValue(i)
              /\ Args[i].kind = "pair" => ev.abi = 32
<1>1. Args \in Seq(ArgDesc)
  BY ArgsType
<1>2. Len(Args) \in Nat
  BY <1>1
<1>3. Len(Kinds) = Len(Args) /\ \A i \in 1 .. Len(Args) : Kinds[i] = Args[i].kind
  BY <1>2 DEF Kinds
<1>4. CASE ~(ev.abi = 32 /\ call_name \in DOMAIN Aligned64)
  <2>1. \A i \in 1 .. Len(Args) : Args[i].arg = i /\ Args[i].kind # "pair"
    BY <1>4, PlainArgs DEF OwnRegisters
  <2>2. \A i \in 1 .. Len(Kinds) : Kinds[i] # "pair"
    BY <1>3, <2>1
  <2>3. \A i \in 1 .. Len(Kinds) : Passed(Kinds)[i] = ev.args[i]
    BY <1>2, <1>3, <2>2, PlainPassed
  <2>4. \A i \in 1 .. Len(Args) : ArgValue(i) = ev.args[i]
    BY <2>1 DEF ArgValue, Value
  <2> QED BY <1>1, <1>3, <2>1, <2>3, <2>4
<1>5. CASE ev.abi = 32 /\ call_name \in DOMAIN Aligned64
  <2>1. Args = Aligned64[call_name]
    BY <1>5 DEF Args
  <2>2. call_name \in {"pread64", "pwrite64", "readahead", "truncate64", "ftruncate64"}
    BY <1>5 DEF Aligned64
  <2>3. ASSUME NEW k1, NEW k2, k1 # "pair", k2 # "pair",
               Args = <<Arg(k1, 1), ArgAux(k2, 2, 3), Arg("word", 3), ArgAux("pair", 5, 6)>>
        PROVE  \A i \in 1 .. Len(Args) : Passed(Kinds)[i] = ArgValue(i)
    <3>1. /\ Len(Args) = 4 /\ Args[1].kind = k1 /\ Args[2].kind = k2
          /\ Args[3].kind = "word" /\ Args[4].kind = "pair"
          /\ Args[1].arg = 1 /\ Args[2].arg = 2 /\ Args[3].arg = 3
          /\ Args[4].arg = 5 /\ Args[4].aux = 6
      BY <2>3 DEF Arg, ArgAux
    <3>2. /\ Kinds[1] # "pair" /\ Kinds[2] # "pair" /\ Kinds[3] # "pair" /\ Kinds[4] = "pair"
      BY <1>3, <2>3, <3>1
    <3>3. /\ Passed(Kinds)[1] = ev.args[1] /\ Passed(Kinds)[2] = ev.args[2]
          /\ Passed(Kinds)[3] = ev.args[3] /\ Passed(Kinds)[4] = ev.args[5] + ev.args[6] * Word32
      BY <1>2, <1>3, <3>1, <3>2, PairedPassed
    <3>4. /\ ArgValue(1) = ev.args[1] /\ ArgValue(2) = ev.args[2]
          /\ ArgValue(3) = ev.args[3] /\ ArgValue(4) = ev.args[5] + ev.args[6] * Word32
      BY <2>3, <3>1 DEF ArgValue, Value
    <3>5. \A i \in 1 .. Len(Args) : i = 1 \/ i = 2 \/ i = 3 \/ i = 4
      BY <3>1
    <3> QED BY <3>3, <3>4, <3>5
  <2>4. CASE call_name = "readahead"
    <3>1. /\ Len(Args) = 3 /\ Args[1].kind = "int" /\ Args[2].kind = "pair" /\ Args[3].kind = "word"
          /\ Args[1].arg = 1 /\ Args[2].arg = 3 /\ Args[2].aux = 4 /\ Args[3].arg = 5
      BY <2>1, <2>4 DEF Aligned64, Arg, ArgAux
    <3>2. Kinds[1] # "pair" /\ Kinds[2] = "pair" /\ Kinds[3] # "pair"
      BY <1>3, <3>1
    <3>3. /\ Passed(Kinds)[1] = ev.args[1] /\ Passed(Kinds)[2] = ev.args[3] + ev.args[4] * Word32
          /\ Passed(Kinds)[3] = ev.args[5]
      BY <1>2, <1>3, <3>1, <3>2, PairedPassed
    <3>4. /\ ArgValue(1) = ev.args[1] /\ ArgValue(2) = ev.args[3] + ev.args[4] * Word32
          /\ ArgValue(3) = ev.args[5]
      BY <3>1 DEF ArgValue, Value
    <3>5. \A i \in 1 .. Len(Args) : i = 1 \/ i = 2 \/ i = 3
      BY <3>1
    <3> QED BY <1>1, <1>3, <1>5, <3>3, <3>4, <3>5
  <2>5. CASE call_name \in {"truncate64", "ftruncate64"}
    <3>1. /\ Len(Args) = 2 /\ Args[1].kind # "pair" /\ Args[2].kind = "pair"
          /\ Args[1].arg = 1 /\ Args[2].arg = 3 /\ Args[2].aux = 4
      BY <2>1, <2>5 DEF Aligned64, Arg, ArgAux
    <3>2. Kinds[1] # "pair" /\ Kinds[2] = "pair"
      BY <1>3, <3>1
    <3>3. Passed(Kinds)[1] = ev.args[1] /\ Passed(Kinds)[2] = ev.args[3] + ev.args[4] * Word32
      BY <1>2, <1>3, <3>1, <3>2, PairedPassed
    <3>4. ArgValue(1) = ev.args[1] /\ ArgValue(2) = ev.args[3] + ev.args[4] * Word32
      BY <3>1 DEF ArgValue, Value
    <3>5. \A i \in 1 .. Len(Args) : i = 1 \/ i = 2
      BY <3>1
    <3> QED BY <1>1, <1>3, <1>5, <3>3, <3>4, <3>5
  <2>6. CASE call_name = "pread64"
    <3>1. Args = <<Arg("int", 1), ArgAux("buf_out", 2, 3), Arg("word", 3), ArgAux("pair", 5, 6)>>
      BY <2>1, <2>6 DEF Aligned64
    <3> QED BY <1>1, <1>3, <1>5, <2>3, <3>1
  <2>7. CASE call_name = "pwrite64"
    <3>1. Args = <<Arg("int", 1), ArgAux("buf_in", 2, 3), Arg("word", 3), ArgAux("pair", 5, 6)>>
      BY <2>1, <2>7 DEF Aligned64
    <3> QED BY <1>1, <1>3, <1>5, <2>3, <3>1
  <2> QED BY <2>2, <2>4, <2>5, <2>6, <2>7
<1> QED BY <1>4, <1>5


-----------------------------------------------------------------------------
(***************************************************************************)
(* The line, piece by piece.                                               *)
(***************************************************************************)

\* Piece q is read as what the call had: piece 1 is its name, the last one its result.
Fits(q, p) ==
  /\ q = Len(Args) + 2 => (ValueRead("ret", p) - ev.ret) % Width("long") = 0
  /\ q - 1 \in 1 .. Len(Args) /\ Args[q - 1].kind \in ValueKinds =>
       (ValueRead(Args[q - 1].kind, p) - Passed(Kinds)[q - 1]) % Width(Args[q - 1].kind) = 0

\* Job j is the one that prints piece q, or comes after the last one.
Stands(j, q) ==
  /\ q = 1 => j.k = "head"
  /\ q = Len(Args) + 2 => j.k = "result"
  /\ q > Len(Args) + 2 => j.k \in {"puts", "stack"}
  /\ q - 1 \in 1 .. Len(Args) =>
       IF Args[q - 1].kind \in ValueKinds THEN j = ArgJob(Args[q - 1])
       ELSE j.k \in {"str", "chars", "buffer", "ptr"}

\* The pieces ps are on the line and t is left to do.
ReadBack(ps, t) ==
  /\ Len(ps) <= Len(Args) + 2 /\ Len(ps) + Len(t) >= Len(Args) + 2
  /\ \A q \in 1 .. Len(ps) : Fits(q, ps[q])
  /\ \A i \in 1 .. Len(t) : Stands(t[i], Len(ps) + i)

\* A call whose arguments are all numbers, strings and buffers: no list, no structure.
Simple == ev.syscall_id >= 0 /\ \A i \in 1 .. Len(Args) : Args[i].kind \in ShownKinds

RegInv == ev.abi = 32 => \A i \in 1 .. 6 : ev.args[i] < Word32
ReadInv == RegInv /\ (Simple => ReadBack(Pieces(text), todo))

\* Which job stands where.
LEMMA PlaceIs ==
  ASSUME NEW j, NEW q \in Nat \ {0}, Stands(j, q), Len(Args) \in Nat
  PROVE  /\ j.k = "head" => q = 1
         /\ j.k = "result" => q = Len(Args) + 2
         /\ j.k \in ValueKinds => q - 1 \in 1 .. Len(Args)
         /\ j.k \in {"str", "chars", "buffer"} =>
              q - 1 \in 1 .. Len(Args) /\ Args[q - 1].kind \notin ValueKinds
         /\ j.k \in {"puts", "stack"} => q > Len(Args) + 2
         /\ j.k \in ValueKinds \cup {"head", "result", "str", "chars", "buffer", "puts", "stack"}
<1> DEFINE d == Args[q - 1]
<1>1. d.kind \in ValueKinds => ArgJob(d).k = d.kind
  BY ArgJobIs, JobIs
<1>2. q = 1 \/ q = Len(Args) + 2 \/ q > Len(Args) + 2 \/ q - 1 \in 1 .. Len(Args)
  OBVIOUS
<1>3. CASE q = 1
  BY <1>3 DEF Stands, ValueKinds
<1>4. CASE q = Len(Args) + 2
  BY <1>4 DEF Stands, ValueKinds
<1>5. CASE q > Len(Args) + 2
  BY <1>5 DEF Stands, ValueKinds
<1>6. CASE q - 1 \in 1 .. Len(Args)
  <2>1. IF d.kind \in ValueKinds THEN j = ArgJob(d) ELSE j.k \in {"str", "chars", "buffer", "ptr"}
    BY <1>6 DEF Stands
  <2> HIDE DEF d
  <2>2. /\ j.k \in ValueKinds \cup {"str", "chars", "buffer"}
        /\ j.k \in {"str", "chars", "buffer"} => d.kind \notin ValueKinds
    BY <1>1, <2>1 DEF ValueKinds
  <2>3. \A k \in ValueKinds \cup {"str", "chars", "buffer"} :
          k \notin {"head", "result", "puts", "stack"}
    BY DEF ValueKinds
  <2> QED BY <1>6, <2>2, <2>3 DEF d
<1> QED BY <1>2, <1>3, <1>4, <1>5, <1>6

\* A piece more.
LEMMA EmitReads ==
  ASSUME NEW ps \in Seq(Text), NEW t \in Seq(GoodJob), t # <<>>, ReadBack(ps, t),
         NEW p \in Text, Len(ps) + 1 <= Len(Args) + 2, Fits(Len(ps) + 1, p), Len(Args) \in Nat
  PROVE  ReadBack(Append(ps, p), Tail(t))
<1> DEFINE d == Len(ps)
           qs == Append(ps, p)
           u == Tail(t)
<1>1. d \in Nat /\ Len(t) \in Nat /\ Len(t) > 0
  OBVIOUS
<1>2. Len(qs) = d + 1 /\ qs[d + 1] = p /\ \A q \in 1 .. d : qs[q] = ps[q]
  OBVIOUS
<1>3. Len(u) = Len(t) - 1 /\ \A i \in 1 .. Len(t) - 1 : u[i] = t[i + 1]
  OBVIOUS
<1> HIDE DEF qs, u
<1>4. \A q \in 1 .. d + 1 : Fits(q, qs[q])
  <2>1. \A q \in 1 .. d + 1 : q \in 1 .. d \/ q = d + 1
    BY <1>1
  <2> QED BY <1>2, <2>1 DEF ReadBack
<1>5. ASSUME NEW i \in 1 .. Len(u) PROVE Stands(u[i], Len(qs) + i)
  <2>1. i + 1 \in 1 .. Len(t) /\ i \in 1 .. Len(t) - 1 /\ d + (i + 1) = Len(qs) + i
    BY <1>1, <1>2, <1>3
  <2>2. Stands(t[i + 1], d + (i + 1))
    BY <2>1 DEF ReadBack
  <2> QED BY <1>3, <2>1, <2>2
<1>6. Len(qs) <= Len(Args) + 2 /\ Len(qs) + Len(u) >= Len(Args) + 2
  BY <1>1, <1>2, <1>3 DEF ReadBack
<1> QED BY <1>2, <1>4, <1>5, <1>6 DEF ReadBack, qs, u

\* What comes after the last piece.
LEMMA DropReads ==
  ASSUME NEW ps \in Seq(Text), NEW t \in Seq(GoodJob), t # <<>>, ReadBack(ps, t),
         Len(ps) + 1 > Len(Args) + 2, Len(Args) \in Nat
  PROVE  ReadBack(ps, Tail(t))
<1> DEFINE d == Len(ps)
           u == Tail(t)
<1>1. d \in Nat /\ Len(t) \in Nat /\ Len(t) > 0
  OBVIOUS
<1>2. Len(u) = Len(t) - 1 /\ \A i \in 1 .. Len(t) - 1 : u[i] = t[i + 1]
  OBVIOUS
<1>3. d = Len(Args) + 2
  BY <1>1 DEF ReadBack
<1> HIDE DEF u
<1>4. ASSUME NEW i \in 1 .. Len(u) PROVE Stands(u[i], d + i)
  <2>1. i + 1 \in 1 .. Len(t) /\ i \in 1 .. Len(t) - 1 /\ i \in Nat \ {0}
    BY <1>1, <1>2
  <2>2. Stands(t[i + 1], d + (i + 1))
    BY <2>1 DEF ReadBack
  <2>3. u[i].k \in {"puts", "stack"}
    <3>1. d + (i + 1) > Len(Args) + 2
      BY <1>3, <2>1
    <3>2. t[i + 1].k \in {"puts", "stack"}
      BY <2>2, <3>1 DEF Stands
    <3> QED BY <1>2, <2>1, <3>2
  <2>4. d + i > Len(Args) + 2
    BY <1>3, <2>1
  <2>5. d + i # 1 /\ d + i # Len(Args) + 2 /\ (d + i) - 1 \notin 1 .. Len(Args)
    BY <1>3, <2>1
  <2> QED BY <2>3, <2>4, <2>5 DEF Stands
<1>5. d <= Len(Args) + 2 /\ d + Len(u) >= Len(Args) + 2
  BY <1>1, <1>2, <1>3
<1> QED BY <1>4, <1>5 DEF ReadBack, u

\* Another job for the same piece.
LEMMA ReplaceReads ==
  ASSUME NEW ps \in Seq(Text), NEW t \in Seq(GoodJob), t # <<>>, ReadBack(ps, t),
         NEW x \in GoodJob, Stands(x, Len(ps) + 1), Len(Args) \in Nat
  PROVE  ReadBack(ps, <<x>> \o Tail(t))
<1> DEFINE d == Len(ps)
           u == <<x>> \o Tail(t)
<1>1. d \in Nat /\ Len(t) \in Nat /\ Len(t) > 0
  OBVIOUS
<1>2. Tail(t) \in Seq(GoodJob) /\ Len(Tail(t)) = Len(t) - 1
      /\ \A i \in 1 .. Len(t) - 1 : Tail(t)[i] = t[i + 1]
  OBVIOUS
<1>3. <<x>> \in Seq(GoodJob) /\ Len(<<x>>) = 1 /\ <<x>>[1] = x
  OBVIOUS
<1>4. /\ Len(u) = Len(<<x>>) + Len(Tail(t))
      /\ \A i \in 1 .. Len(u) : u[i] = IF i <= Len(<<x>>) THEN <<x>>[i] ELSE Tail(t)[i - Len(<<x>>)]
  BY <1>2, <1>3, ConcatIs
<1> HIDE DEF u
<1>5. Len(u) = Len(t) /\ u[1] = x /\ \A i \in 2 .. Len(t) : u[i] = t[i]
  <2>1. Len(u) = Len(t) /\ 1 \in 1 .. Len(u) /\ 1 <= 1
    BY <1>1, <1>2, <1>3, <1>4
  <2>2. u[1] = x
    BY <1>3, <1>4, <2>1
  <2>3. ASSUME NEW i \in 2 .. Len(t) PROVE u[i] = t[i]
    <3>1. i \in 1 .. Len(u) /\ ~(i <= 1) /\ i - 1 \in 1 .. Len(t) - 1 /\ (i - 1) + 1 = i
      BY <1>1, <2>1
    <3> QED BY <1>2, <1>3, <1>4, <3>1
  <2> QED BY <2>1, <2>2, <2>3
<1>6. \A i \in 1 .. Len(u) : Stands(u[i], d + i)
  <2>1. \A i \in 1 .. Len(u) : i \in 1 .. Len(t) /\ (i = 1 \/ i \in 2 .. Len(t))
    BY <1>1, <1>5
  <2> QED BY <1>5, <2>1 DEF ReadBack
<1> QED BY <1>5, <1>6 DEF ReadBack, u


\* Everything about the line but its text is the event's.
LEMMA SameLine ==
  ASSUME ev' = ev
  PROVE  /\ Args' = Args /\ Simple' = Simple /\ RegInv' = RegInv
         /\ \A q, p : Fits(q, p)' = Fits(q, p)
         /\ \A j, q : Stands(j, q)' = Stands(j, q)
<1>1. Args' = Args
  BY SameEvent
<1>2. Kinds' = Kinds
  BY <1>1 DEF Kinds
<1>4. Passed(Kinds)' = Passed(Kinds)
  BY <1>2 DEF Passed
<1>5. \A k : Width(k)' = Width(k)
  BY DEF Width
<1>6. Width("long")' = Width("long")
  BY <1>5
<1>7. \A q, p : Fits(q, p)' = Fits(q, p)
  <2> SUFFICES ASSUME NEW q, NEW p PROVE Fits(q, p)' = Fits(q, p)
    OBVIOUS
  <2>1. Width(Args[q - 1].kind)' = Width(Args[q - 1].kind)
    BY <1>1 DEF Width
  <2>3. ValueRead(Args[q - 1].kind, p)' = ValueRead(Args[q - 1].kind, p)
    BY <1>1 DEF ValueRead
  <2> QED BY <1>1, <1>4, <1>6, <2>1, <2>3 DEF Fits
<1>8. \A j, q : Stands(j, q)' = Stands(j, q)
  <2>1. retval' = retval
    BY DEF retval
  <2>2. is_error' = is_error /\ returned' = returned
    BY <2>1 DEF is_error, returned
  <2>3. \A q : ArgJob(Args[q - 1])' = ArgJob(Args[q - 1])
    BY <1>1, <2>2 DEF ArgJob, Count, ptr_value
  <2> QED BY <1>1, <2>3 DEF Stands
<1>9. Simple' = Simple /\ RegInv' = RegInv
  BY <1>1 DEF Simple, RegInv
<1> QED BY <1>1, <1>7, <1>8, <1>9

\* The line after a step.
LEMMA ReadStep ==
  ASSUME ev' = ev, NEW ps, Pieces(text') = ps, NEW t, todo' = t, ReadBack(ps, t)
  PROVE  ReadBack(Pieces(text), todo)'
<1>1. Pieces(text)' = ps
  OBVIOUS
<1>2. Args' = Args
  BY SameLine
<1>3. \A q \in 1 .. Len(ps) : Fits(q, ps[q])'
  BY SameLine DEF ReadBack
<1>4. \A i \in 1 .. Len(t) : Stands(t[i], Len(ps) + i)'
  BY SameLine DEF ReadBack
<1> QED BY <1>1, <1>2, <1>3, <1>4 DEF ReadBack

\* A line that is being printed.
Reading == TypeInv /\ RegInv /\ Simple /\ ReadBack(Pieces(text), todo)

LEMMA ReadingFacts ==
  ASSUME Reading
  PROVE  /\ ev \in Event /\ MemInv /\ todo \in Seq(GoodJob) /\ text \in Text
         /\ Pieces(text) \in Seq(Text) /\ Len(Pieces(text)) \in Nat
         /\ Args \in Seq(ArgDesc) /\ Len(Args) \in Nat
         /\ ReadBack(Pieces(text), todo)
<1>1. ev \in Event /\ MemInv /\ todo \in Seq(GoodJob) /\ text \in Text
  BY DEF Reading, TypeInv, OutInv, Text
<1>2. Pieces(text) \in Seq(Text)
  BY <1>1, PiecesAppend
<1>3. Args \in Seq(ArgDesc)
  BY <1>1, PassedIs
<1> QED BY <1>1, <1>2, <1>3 DEF Reading

\* The job at work, and the piece it is about.
LEMMA ReadingJob ==
  ASSUME Reading, todo # <<>>, NEW q, q = Len(Pieces(text)) + 1
  PROVE  /\ q \in Nat \ {0} /\ job \in GoodJob /\ Stands(job, q) /\ job.v \in Int /\ job.n \in Nat
         /\ job.k = "head" => q = 1
         /\ job.k = "result" => q = Len(Args) + 2
         /\ job.k \in ValueKinds => q - 1 \in 1 .. Len(Args)
         /\ job.k \in {"str", "chars", "buffer"} =>
              q - 1 \in 1 .. Len(Args) /\ Args[q - 1].kind \notin ValueKinds
         /\ job.k \in {"puts", "stack"} => q > Len(Args) + 2
         /\ job.k \in ValueKinds \cup {"head", "result", "str", "chars", "buffer", "puts", "stack"}
<1>1. q \in Nat \ {0} /\ Len(Args) \in Nat
  BY ReadingFacts
<1>2. job \in GoodJob /\ job.v \in Int /\ job.n \in Nat /\ job = todo[1] /\ 1 \in 1 .. Len(todo)
  BY ReadingFacts, FirstJob DEF job
<1>3. Stands(job, q)
  BY <1>2, ReadingFacts DEF ReadBack
<1> HIDE DEF job
<1> QED BY <1>1, <1>2, <1>3, PlaceIs

\* A step that prints a piece.
LEMMA PieceStep ==
  ASSUME Reading, todo # <<>>, ev' = ev, NEW p, IsPiece(p), Emit(p),
         NEW q, q = Len(Pieces(text)) + 1, q <= Len(Args) + 2, Fits(q, p)
  PROVE  ReadBack(Pieces(text), todo)'
<1> DEFINE ps == Pieces(text)
<1>1. text' = text \o p /\ todo' = Tail(todo)
  BY DEF Emit, out_printf
<1>2. Pieces(text') = Append(ps, p)
  BY <1>1, ReadingFacts, PieceAdded
<1>3. p \in Text
  BY DEF IsPiece
<1>4. /\ ps \in Seq(Text) /\ todo \in Seq(GoodJob) /\ ReadBack(ps, todo) /\ Len(Args) \in Nat
      /\ Len(ps) + 1 <= Len(Args) + 2 /\ Fits(Len(ps) + 1, p)
  BY ReadingFacts
<1> HIDE DEF ps
<1>5. ReadBack(Append(ps, p), Tail(todo))
  BY <1>3, <1>4, EmitReads
<1> QED BY <1>1, <1>2, <1>5, ReadStep

\* A step that prints a piece that is no number.
LEMMA DataStep ==
  ASSUME Reading, todo # <<>>, ev' = ev, NEW p, IsPiece(p), Emit(p),
         job.k \in {"str", "chars", "buffer"}
  PROVE  ReadBack(Pieces(text), todo)'
<1> DEFINE q == Len(Pieces(text)) + 1
<1>1. q - 1 \in 1 .. Len(Args) /\ Args[q - 1].kind \notin ValueKinds /\ q \in Nat
  BY ReadingJob
<1>2. Len(Args) \in Nat
  BY ReadingFacts
<1> HIDE DEF q
<1>3. q <= Len(Args) + 2 /\ q # Len(Args) + 2
  BY <1>1, <1>2
<1>4. Fits(q, p)
  BY <1>1, <1>3 DEF Fits
<1> QED BY <1>3, <1>4, PieceStep DEF q

\* A step that goes on with the same piece.
LEMMA SamePieceStep ==
  ASSUME Reading, todo # <<>>, ev' = ev, NEW x \in GoodJob, EmitThen(<<>>, <<x>>),
         job.k \in {"str", "chars"}, x.k = "chars"
  PROVE  ReadBack(Pieces(text), todo)'
<1> DEFINE ps == Pieces(text)
           q == Len(ps) + 1
<1>1. /\ ps \in Seq(Text) /\ todo \in Seq(GoodJob) /\ ReadBack(ps, todo) /\ Len(Args) \in Nat
      /\ text \in Text
  BY ReadingFacts
<1>2. text' = text \o <<>> /\ todo' = <<x>> \o Tail(todo)
  BY DEF EmitThen, out_printf
<1>3. Pieces(text') = ps
  BY <1>1, <1>2, TextEmpty
<1>4. q - 1 \in 1 .. Len(Args) /\ Args[q - 1].kind \notin ValueKinds /\ q \in Nat
  BY ReadingJob
<1>5. Stands(x, q)
  <2> HIDE DEF q
  <2>1. q # 1 /\ q # Len(Args) + 2 /\ ~(q > Len(Args) + 2)
    BY <1>1, <1>4
  <2> QED BY <1>4, <2>1 DEF Stands
<1> HIDE DEF ps
<1>6. ReadBack(ps, <<x>> \o Tail(todo))
  BY <1>1, <1>5, ReplaceReads
<1> QED BY <1>2, <1>3, <1>6, ReadStep


\* Numbers, names and the result.
LEMMA ValueReads ==
  ASSUME Reading, print_value
  PROVE  ReadBack(Pieces(text), todo)'
<1> DEFINE q == Len(Pieces(text)) + 1
<1>1. todo # <<>> /\ ev' = ev
  BY DEF print_value, NoRead
<1>2. Len(Args) \in Nat /\ ev \in Event /\ Args \in Seq(ArgDesc)
  BY ReadingFacts
<1>3. q \in Nat \ {0} /\ Stands(job, q) /\ job.v \in Int
  BY <1>1, ReadingJob
<1>4. /\ job.k = "head" => q = 1
      /\ job.k = "result" => q = Len(Args) + 2
      /\ job.k \in ValueKinds => q - 1 \in 1 .. Len(Args)
  BY <1>1, ReadingJob
<1>5. CASE job.k = "head" /\ Emit(<<Tok("call", job.v)>>)
  <2>1. IsPiece(<<Tok("call", job.v)>>)
    BY <1>3, OnePiece, TagFacts DEF Tags, Continues
  <2>2. q <= Len(Args) + 2 /\ q # Len(Args) + 2 /\ q - 1 \notin 1 .. Len(Args)
    BY <1>2, <1>4, <1>5
  <2>3. Fits(q, <<Tok("call", job.v)>>)
    BY <2>2 DEF Fits
  <2> QED BY <1>1, <1>5, <2>1, <2>2, <2>3, PieceStep
<1>6. CASE job.k = "result" /\ Emit(ResultText)
  <2>1. IsPiece(ResultText) /\ (ValueRead("ret", ResultText) - ev.ret) % Width("long") = 0
    BY <1>2, ResultIsRead
  <2>2. q <= Len(Args) + 2 /\ q - 1 \notin 1 .. Len(Args)
    BY <1>2, <1>4, <1>6
  <2>3. Fits(q, ResultText)
    BY <2>1, <2>2 DEF Fits
  <2> QED BY <1>1, <1>6, <2>1, <2>2, <2>3, PieceStep
<1>7. CASE job.k \in ValueKinds /\ Emit(ValueText(job.k, job.v, job.n))
  <2> DEFINE d == Args[q - 1]
             p == ValueText(job.k, job.v, job.n)
  <2>1. q - 1 \in 1 .. Len(Args)
    BY <1>4, <1>7
  <2>2. q <= Len(Args) + 2 /\ q # Len(Args) + 2
    BY <1>2, <2>1
  <2>3. d \in ArgDesc /\ d.kind \in ShownKinds
    BY <1>2, <2>1 DEF Reading, Simple
  <2>4. CASE d.kind \in ValueKinds
    <3> DEFINE v == ev.args[d.arg]
               n == IF d.kind = "pair" THEN ev.args[d.aux] ELSE 0
    <3>1. job = ArgJob(d)
      BY <1>3, <2>1, <2>4 DEF Stands
    <3>2. job.k = d.kind /\ job.v = v /\ job.n = n
      BY <2>4, <3>1, ArgJobIs, JobIs
    <3>3. d.kind # "socket_call"
      BY <2>3 DEF ShownKinds, ValueKinds
    <3>4. d.arg \in 1 .. 6 /\ (d.kind = "pair" => d.aux \in 1 .. 6)
      BY <2>3 DEF ArgDesc, PairedKinds
    <3>5. v \in Nat /\ n \in Nat /\ (d.kind = "pair" => n = ev.args[d.aux])
      BY <1>2, <3>4 DEF Event
    <3>6. Passed(Kinds)[q - 1] = ArgValue(q - 1) /\ (d.kind = "pair" => ev.abi = 32)
      BY <1>2, <2>1, PassedIs
    <3>7. d.kind = "pair" => v < Word32 /\ n < Word32
      BY <3>4, <3>5, <3>6 DEF Reading, RegInv
    <3>8. ArgValue(q - 1) = Value(d.kind, v, n)
      BY DEF ArgValue, Value
    <3>9. p = ValueText(d.kind, v, n)
      BY <3>2
    <3> HIDE DEF v, n, p, d
    <3>10. IsPiece(p) /\ (ValueRead(d.kind, p) - Value(d.kind, v, n)) % Width(d.kind) = 0
      BY <1>2, <2>4, <3>3, <3>5, <3>7, <3>9, ValueIsRead
    <3>11. Fits(q, p)
      BY <2>2, <3>6, <3>8, <3>10 DEF Fits, d
    <3>12. Emit(p)
      BY <1>7 DEF p
    <3> QED BY <1>1, <2>2, <3>10, <3>11, <3>12, PieceStep
  <2>5. CASE d.kind \notin ValueKinds
    <3>1. job.k = "ptr"
      <4>1. job.k \in {"str", "chars", "buffer", "ptr"}
        BY <1>3, <2>1, <2>5 DEF Stands
      <4> QED BY <1>7, <4>1 DEF ValueKinds
    <3>2. p = Ptr(job.v)
      BY <3>1 DEF ValueText
    <3>3. IsPiece(p)
      BY <1>2, <1>3, <3>2, PtrPieces
    <3>4. Fits(q, p)
      BY <2>2, <2>5 DEF Fits
    <3> HIDE DEF p
    <3>5. Emit(p)
      BY <1>7 DEF p
    <3> QED BY <1>1, <2>2, <3>3, <3>4, <3>5, PieceStep
  <2> QED BY <2>4, <2>5
<1>8. \/ job.k = "head" /\ Emit(<<Tok("call", job.v)>>)
      \/ job.k = "result" /\ Emit(ResultText)
      \/ job.k \in ValueKinds /\ Emit(ValueText(job.k, job.v, job.n))
  BY DEF print_value, Doing, job
<1> QED BY <1>5, <1>6, <1>7, <1>8

\* print_cstring and its loop.
LEMMA StringReads ==
  ASSUME Reading, print_cstring \/ string_read
  PROVE  ReadBack(Pieces(text), todo)'
<1>1. todo # <<>> /\ ev' = ev /\ job.k \in {"str", "chars"}
  BY DEF print_cstring, string_read, NoRead, Doing, job
<1>2. ev \in Event /\ MemInv /\ todo \in Seq(GoodJob)
  BY ReadingFacts
<1>3. job \in GoodJob /\ job.v \in Int /\ job.got \in Seq(Nat)
      /\ (job.k = "chars" => Len(job.got) < MaxStr)
  BY <1>1, <1>2, FirstJob
<1>4. CASE print_cstring
  <2>1. CASE Emit(Ptr(job.v))
    <3>1. IsPiece(Ptr(job.v))
      BY <1>2, <1>3, PtrPieces
    <3> QED BY <1>1, <2>1, <3>1, DataStep
  <2>2. CASE EmitThen(<<>>, <<Job("chars", job.v, 0)>>)
    <3> DEFINE x == Job("chars", job.v, 0)
    <3>1. x \in GoodJob /\ x.k = "chars"
      <4>1. "chars" \in AllKinds
        BY DEF AllKinds, JobKinds
      <4> QED BY <1>3, <4>1, JobType, JobIs
    <3>2. EmitThen(<<>>, <<x>>)
      BY <2>2
    <3> HIDE DEF x
    <3> QED BY <1>1, <3>1, <3>2, SamePieceStep
  <2> QED BY <1>4, <2>1, <2>2 DEF print_cstring
<1>5. CASE string_read
  <2> DEFINE got == read_mem(ChunkAddr(job), Chunk(Len(job.got)))
             nul == FirstNul(got)
             all == job.got \o got
             cut == job.got \o SubSeq(got, 1, nul - 1)
  <2>1. job.k = "chars"
    BY <1>5 DEF string_read, Doing, job
  <2>2. got \in Seq(Nat)
    <3>1. Len(job.got) \in Nat /\ Len(job.got) < MaxStr
      BY <1>3, <2>1
    <3>2. Chunk(Len(job.got)) \in Nat /\ ChunkAddr(job) \in Int
      BY <1>3, <3>1, OptionTypes DEF Chunk, Least, ChunkAddr
    <3> QED BY <1>2, <3>2, ReadType
  <2>3. \/ nul > 0 /\ Emit(StringText(job.v, cut, TRUE))
        \/ Emit(StringText(job.v, all, FALSE))
        \/ Len(all) < MaxStr /\ EmitThen(<<>>, <<[job EXCEPT !.got = all]>>)
    BY <1>5 DEF string_read
  <2>4. all \in Seq(Nat)
    BY <1>3, <2>2, ConcatIs
  <2>5. CASE nul > 0 /\ Emit(StringText(job.v, cut, TRUE))
    <3>1. cut \in Seq(Nat)
      <4>1. nul \in 0 .. Len(got)
        BY <2>2, NulIs
      <4>2. nul - 1 \in 0 .. Len(got)
        BY <2>2, <2>5, <4>1
      <4>3. SubSeq(got, 1, nul - 1) \in Seq(Nat)
        BY <2>2, <4>2, PrefixIs
      <4> QED BY <1>3, <4>3, ConcatIs
    <3> HIDE DEF cut
    <3>2. IsPiece(StringText(job.v, cut, TRUE))
      BY <1>2, <1>3, <3>1, StringPiece
    <3> QED BY <1>1, <2>5, <3>2, DataStep
  <2>6. CASE Emit(StringText(job.v, all, FALSE))
    <3> HIDE DEF all
    <3>1. IsPiece(StringText(job.v, all, FALSE))
      BY <1>2, <1>3, <2>4, StringPiece
    <3> QED BY <1>1, <2>6, <3>1, DataStep
  <2>7. CASE Len(all) < MaxStr /\ EmitThen(<<>>, <<[job EXCEPT !.got = all]>>)
    <3> DEFINE x == [job EXCEPT !.got = all]
    <3> HIDE DEF all
    <3>1. x \in GoodJob /\ x.k = "chars"
      BY <1>3, <2>1, <2>4, <2>7 DEF GoodJob
    <3>2. EmitThen(<<>>, <<x>>)
      BY <2>7
    <3> HIDE DEF x
    <3> QED BY <1>1, <3>1, <3>2, SamePieceStep
  <2> QED BY <2>3, <2>5, <2>6, <2>7
<1> QED BY <1>4, <1>5

\* print_buffer, and a failure of malloc.
LEMMA BufferReads ==
  ASSUME Reading, print_buffer \/ malloc_fails
  PROVE  ReadBack(Pieces(text), todo)'
<1> DEFINE want == Least(job.n, max_buffer)
           got  == read_mem(job.v, want)
<1>1. todo # <<>> /\ ev' = ev /\ job.k \in {"str", "buffer"}
  BY DEF print_buffer, malloc_fails, Doing, job
<1>2. ev \in Event /\ MemInv /\ job.v \in Int /\ job.n \in Nat
  BY <1>1, ReadingFacts, ReadingJob
<1>3. got \in Seq(Nat)
  <2>1. want \in Nat
    BY <1>2, OptionTypes DEF Least
  <2> QED BY <1>2, <2>1, ReadType
<1>4. \/ Emit(Ptr(job.v))
      \/ Emit(Quoted(<<>>, FALSE))
      \/ Emit(IF got = <<>> THEN Ptr(job.v) \o Mark("unreadable")
              ELSE Quoted(got, job.n > Len(got)))
  BY DEF print_buffer, malloc_fails
<1> HIDE DEF want, got
<1>5. IsPiece(Ptr(job.v)) /\ IsPiece(Ptr(job.v) \o Mark("unreadable"))
  BY <1>2, PtrPieces
<1>6. IsPiece(Quoted(<<>>, FALSE)) /\ IsPiece(Quoted(got, job.n > Len(got)))
  <2>1. <<>> \in Seq(Nat) /\ FALSE \in BOOLEAN /\ (job.n > Len(got)) \in BOOLEAN
    OBVIOUS
  <2> QED BY <1>3, <2>1, QuotedPiece
<1>7. PICK p : IsPiece(p) /\ Emit(p)
  BY <1>4, <1>5, <1>6
<1> QED BY <1>1, <1>7, DataStep

\* Every step goes on with the line.
LEMMA NextReadInv == TypeInv /\ ReadInv /\ [HNext]_hvars => ReadInv'
<1> SUFFICES ASSUME TypeInv, ReadInv, [HNext]_hvars
             PROVE  ReadInv'
  OBVIOUS
<1>1. ev' = ev
  BY EventKept
<1>2. RegInv' /\ Simple' = Simple
  BY <1>1, SameLine DEF ReadInv
<1>3. ASSUME Simple PROVE ReadBack(Pieces(text), todo)'
  <2>1. Reading
    BY <1>3 DEF Reading, ReadInv
  <2>2. CASE print_value
    BY <2>1, <2>2, ValueReads
  <2>3. CASE print_cstring \/ string_read
    BY <2>1, <2>3, StringReads
  <2>4. CASE print_buffer \/ malloc_fails
    BY <2>1, <2>4, BufferReads
  <2>5. CASE print_strv \/ print_iov \/ print_timespec \/ print_struct \/ print_socket_words
             \/ print_sockaddr
    <3>1. todo # <<>> /\ job.k \in {"strv", "iov", "timespec", "how", "clone_args",
                                    "socket_words", "sockaddr"}
      BY <2>5 DEF print_strv, print_iov, print_timespec, print_struct, print_socket_words,
         print_sockaddr, Doing, job
    <3>2. job.k \in ValueKinds \cup {"head", "result", "str", "chars", "buffer", "puts", "stack"}
      BY <2>1, <3>1, ReadingJob
    <3> QED BY <3>1, <3>2 DEF ValueKinds
  <2>6. CASE puts \/ show_stack_trace
    <3> DEFINE ps == Pieces(text)
    <3>1. todo # <<>> /\ job.k \in {"puts", "stack"} /\ todo' = Tail(todo) /\ text' = text
      BY <2>6 DEF puts, show_stack_trace, Doing, outVars, job
    <3>2. Len(ps) + 1 > Len(Args) + 2
      BY <2>1, <3>1, ReadingJob
    <3>3. ps \in Seq(Text) /\ todo \in Seq(GoodJob) /\ ReadBack(ps, todo) /\ Len(Args) \in Nat
      BY <2>1, ReadingFacts
    <3>4. Pieces(text') = ps
      BY <3>1
    <3> HIDE DEF ps
    <3>5. ReadBack(ps, Tail(todo))
      BY <3>1, <3>2, <3>3, DropReads
    <3> QED BY <1>1, <3>1, <3>4, <3>5, ReadStep
  <2>7. CASE Process \/ UNCHANGED hvars
    <3>1. text' = text /\ todo' = todo
      BY <2>7 DEF Process, process_write, process_unmap, process_exit, pid_reuse, Change, hvars,
         dvars, outVars
    <3>2. Pieces(text') = Pieces(text)
      BY <3>1
    <3> QED BY <1>1, <2>1, <3>1, <3>2, ReadStep DEF Reading
  <2> QED BY <2>2, <2>3, <2>4, <2>5, <2>6, <2>7 DEF HNext, HandleEvent, Decode
<1> QED BY <1>2, <1>3 DEF ReadInv


\* The jobs of an event stand where they belong.
LEMMA InitReadInv == HInit => ReadInv
<1> SUFFICES ASSUME NEW st \in Starts, DInit(st), todo = EventJobs(st.print_stack), HInit
             PROVE  ReadInv
  BY DEF HInit
<1>1. ev \in Event /\ todo \in Seq(GoodJob)
  BY InitTypeInv DEF TypeInv
<1>2. RegInv
  BY SpaceAssumption DEF DInit, RegInv
<1>3. ASSUME Simple PROVE ReadBack(Pieces(text), todo)
  <2> DEFINE N == Len(Args)
  <2>1. Pieces(text) = <<>> /\ Len(<<>>) = 0
    BY PiecesAppend DEF DInit, OutInit
  <2>2. /\ N \in Nat /\ Len(todo) \in {N + 3, N + 4}
        /\ todo[1] = Job("head", ev.syscall_id, 0) /\ todo[N + 2] = Job("result", ev.ret, 0)
        /\ \A i \in 1 .. N : todo[i + 1] = ArgJob(Args[i])
        /\ \A i \in N + 3 .. Len(todo) : todo[i].k \in {"puts", "stack"}
    BY <1>1, <1>3, EventJobsExactly DEF Simple
  <2>3. Args \in Seq(ArgDesc)
    BY <1>1, PassedIs
  <2>4. ASSUME NEW i \in 1 .. Len(todo) PROVE Stands(todo[i], i)
    <3>1. i \in Nat /\ (i = 1 \/ i = N + 2 \/ i \in N + 3 .. Len(todo) \/ i - 1 \in 1 .. N)
      BY <2>2
    <3>2. CASE i = 1
      <4>1. i # N + 2 /\ ~(i > N + 2) /\ i - 1 \notin 1 .. N
        BY <2>2, <3>2
      <4> QED BY <2>2, <3>2, <4>1, JobIs DEF Stands
    <3>3. CASE i = N + 2
      <4>1. i # 1 /\ ~(i > N + 2) /\ i - 1 \notin 1 .. N
        BY <2>2, <3>3
      <4> QED BY <2>2, <3>3, <4>1, JobIs DEF Stands
    <3>4. CASE i \in N + 3 .. Len(todo)
      <4>1. i # 1 /\ i # N + 2 /\ i - 1 \notin 1 .. N
        BY <2>2, <3>1, <3>4
      <4> QED BY <2>2, <3>4, <4>1 DEF Stands
    <3>5. CASE i - 1 \in 1 .. N
      <4>1. i # 1 /\ i # N + 2 /\ ~(i > N + 2) /\ (i - 1) + 1 = i
        BY <2>2, <3>1, <3>5
      <4>2. todo[i] = ArgJob(Args[i - 1])
        BY <2>2, <3>5, <4>1
      <4> DEFINE d == Args[i - 1]
      <4>3. d.kind \in ShownKinds
        BY <1>3, <3>5 DEF Simple
      <4>4. d.kind \notin ValueKinds => ArgJob(d).k \in {"str", "chars", "buffer", "ptr"}
        <5> HIDE DEF d
        <5>1. d.kind \notin ValueKinds => d.kind \in {"str", "buf_in", "buf_out"}
          BY <4>3 DEF ShownKinds
        <5> QED BY <5>1, ArgJobIs, JobIs
      <4> QED BY <3>5, <4>1, <4>2, <4>4 DEF Stands
    <3> QED BY <3>1, <3>2, <3>3, <3>4, <3>5
  <2>5. \A i \in 1 .. Len(todo) : 0 + i = i
    OBVIOUS
  <2>6. ReadBack(<<>>, todo)
    <3>1. Len(<<>>) <= N + 2 /\ Len(<<>>) + Len(todo) >= N + 2
      BY <2>1, <2>2
    <3>2. \A q \in 1 .. Len(<<>>) : Fits(q, <<>>[q])
      BY <2>1
    <3>3. \A i \in 1 .. Len(todo) : Stands(todo[i], Len(<<>>) + i)
      BY <2>1, <2>4, <2>5
    <3> QED BY <3>1, <3>2, <3>3 DEF ReadBack
  <2> QED BY <2>1, <2>6
<1> QED BY <1>2, <1>3 DEF ReadInv

\* Whatever the process does to its memory meanwhile, a line without lists and structures
\* can be read back: it has as many arguments as the call, every number, set of flags,
\* request and 64-bit offset on it has the value the kernel took from the registers, and so
\* has the result (print_arg, print_flags, print_open_flags, print_ioctl, print_fcntl,
\* print_arm_eabi_aligned64, print_result).
THEOREM LineIsReadable == HSafety => []LineReadable
<1>1. TypeInv /\ ReadInv => LineReadable
  <2> SUFFICES ASSUME TypeInv, ReadInv, todo = <<>>, ev.syscall_id >= 0,
                      \A i \in DOMAIN Kinds : Kinds[i] \in ShownKinds
               PROVE  /\ Len(Pieces(text)) = Len(Args) + 2
                      /\ \A i \in DOMAIN Kinds :
                           Kinds[i] \in ValueKinds =>
                             (ValueRead(Kinds[i], Pieces(text)[i + 1]) - Passed(Kinds)[i])
                               % Width(Kinds[i]) = 0
                      /\ (ValueRead("ret", Pieces(text)[Len(Pieces(text))]) - ev.ret)
                           % Width("long") = 0
    BY DEF LineReadable, Kinds
  <2> DEFINE ps == Pieces(text)
             N == Len(Args)
  <2>1. N \in Nat /\ \A i \in 1 .. N : Kinds[i] = Args[i].kind
    BY PassedIs DEF TypeInv
  <2>2. DOMAIN Kinds = 1 .. N
    BY DEF Kinds
  <2>3. Simple
    BY <2>1, <2>2 DEF Simple
  <2>4. Reading
    BY <2>3 DEF Reading, ReadInv
  <2>5. Len(ps) \in Nat /\ ReadBack(ps, todo)
    BY <2>4, ReadingFacts
  <2> HIDE DEF ps
  <2>6. Len(ps) = N + 2 /\ \A q \in 1 .. Len(ps) : Fits(q, ps[q])
    BY <2>1, <2>5 DEF ReadBack
  <2>7. (ValueRead("ret", ps[Len(ps)]) - ev.ret) % Width("long") = 0
    <3>1. N + 2 \in 1 .. Len(ps)
      BY <2>1, <2>6
    <3> QED BY <2>6, <3>1 DEF Fits
  <2>8. ASSUME NEW i \in 1 .. N, Kinds[i] \in ValueKinds
        PROVE  (ValueRead(Kinds[i], ps[i + 1]) - Passed(Kinds)[i]) % Width(Kinds[i]) = 0
    <3>1. i + 1 \in 1 .. Len(ps) /\ (i + 1) - 1 = i
      BY <2>1, <2>6
    <3>2. Fits(i + 1, ps[i + 1])
      BY <2>6, <3>1
    <3> QED BY <2>1, <2>8, <3>1, <3>2 DEF Fits
  <2> QED BY <2>2, <2>6, <2>7, <2>8 DEF ps
<1>2. HSafety => []ReadInv
  BY InitReadInv, NextReadInv, TypesAlways, PTL DEF HSafety
<1> QED BY <1>1, <1>2, TypesAlways, PTL

=============================================================================
