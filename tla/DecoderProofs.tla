---------------------------- MODULE DecoderProofs ----------------------------
(***************************************************************************)
(* What HandleEvent shows of an event, for every event, memory, table and  *)
(* size of the line: the buffer is never overrun and holds the beginning   *)
(* of the text, no more data is shown than the call has moved, and every   *)
(* address of the stack has its line.                                      *)
(***************************************************************************)
EXTENDS HandleEvent, NatLemmas, FiniteSetTheorems, SequenceTheorems

-----------------------------------------------------------------------------
(***************************************************************************)
(* The output cursor.                                                      *)
(***************************************************************************)

\* What is printed: tokens.  Only the data of strings and buffers are bytes.
Tags  == {"NULL", "ptr", "quote", "end", "end...", "unreadable", "call", "word", "int", "name",
          "flag", "|flag", "|word", "access", "dir", "|type", "|nr", "|size", "errno", "addr",
          "ret", "...", "... unreadable", "@"}
Token == [t : Tags \cup {"byte"}, v : Int]
Plain == [t : Tags, v : Int]

OutInv == text \in Seq(Token) /\ buf \in Seq(Token) /\ SnprintfSemantics

\* A concatenation, element by element.
LEMMA ConcatIs ==
  ASSUME NEW S, NEW a \in Seq(S), NEW b \in Seq(S)
  PROVE  /\ a \o b \in Seq(S) /\ Len(a \o b) = Len(a) + Len(b)
         /\ \A i \in 1 .. Len(a \o b) :
              (a \o b)[i] = IF i <= Len(a) THEN a[i] ELSE b[i - Len(a)]
  OBVIOUS

\* The beginning of a sequence.
LEMMA PrefixIs ==
  ASSUME NEW S, NEW a \in Seq(S), NEW n \in 0 .. Len(a)
  PROVE  /\ SubSeq(a, 1, n) \in Seq(S) /\ Len(SubSeq(a, 1, n)) = n
         /\ \A i \in 1 .. n : SubSeq(a, 1, n)[i] = a[i]
  OBVIOUS

\* One piece more is still like one snprintf of the whole.
LEMMA PrintfKeeps ==
  ASSUME OutInv, NEW s \in Seq(Token), out_printf(s)
  PROVE  OutInv'
<1> USE CapAssumption
<1>1. text \in Seq(Token) /\ buf \in Seq(Token) /\ len = Len(text) /\ len \in Nat
  BY DEF OutInv, SnprintfSemantics
<1>2. text' \in Seq(Token) /\ len' = Len(text') /\ Len(text') = len + Len(s)
      /\ \A i \in 1 .. Len(text') : text'[i] = IF i <= len THEN text[i] ELSE s[i - len]
  BY <1>1 DEF out_printf
<1>3. CASE avail = 0
  <2>1. buf' = buf /\ len >= cap
    BY <1>1, <1>3 DEF out_printf, avail
  <2>2. Len(buf) = (IF cap = 0 THEN 0 ELSE cap - 1) /\ len' >= cap
    BY <1>1, <1>2, <2>1 DEF OutInv, SnprintfSemantics
  <2>3. \A i \in 1 .. Len(buf) : buf[i] = text[i] /\ text'[i] = text[i]
    BY <1>1, <1>2, <2>1, <2>2 DEF OutInv, SnprintfSemantics
  <2> QED BY <1>1, <1>2, <2>1, <2>2, <2>3 DEF OutInv, SnprintfSemantics
<1>4. CASE avail # 0
  <2>1. avail = cap - len /\ len < cap /\ Len(buf) = len
    BY <1>1, <1>4 DEF avail, OutInv, SnprintfSemantics
  <2> DEFINE p == IF Len(s) < avail THEN s ELSE SubSeq(s, 1, avail - 1)
  <2>2. p \in Seq(Token) /\ Len(p) = (IF Len(s) < avail THEN Len(s) ELSE avail - 1)
        /\ \A i \in 1 .. Len(p) : p[i] = s[i]
    BY <1>1, <2>1
  <2>3. buf' = buf \o p
    BY <1>4 DEF out_printf
  <2> HIDE DEF p
  <2>4. buf' \in Seq(Token) /\ Len(buf') = len + Len(p)
        /\ \A i \in 1 .. Len(buf') : buf'[i] = IF i <= len THEN buf[i] ELSE p[i - len]
    <3>1. p \in Seq(Token) /\ buf \in Seq(Token) /\ len = Len(buf)
      BY <1>1, <2>1, <2>2
    <3> HIDE <2>2
    <3> QED BY <2>3, <3>1, ConcatIs
  <2>5. Len(buf') = IF len' < cap THEN len' ELSE IF cap = 0 THEN 0 ELSE cap - 1
    BY <1>1, <1>2, <2>1, <2>2, <2>4
  <2>6. ASSUME NEW i \in 1 .. Len(buf') PROVE buf'[i] = text'[i]
    <3>1. i \in 1 .. Len(text')
      BY <1>1, <1>2, <2>1, <2>2, <2>4
    <3>2. buf'[i] = (IF i <= len THEN buf[i] ELSE p[i - len])
          /\ text'[i] = (IF i <= len THEN text[i] ELSE s[i - len])
      BY <1>2, <2>4, <3>1
    <3>3. i <= len => buf[i] = text[i]
      BY <1>1, <2>1 DEF OutInv, SnprintfSemantics
    <3>4. ~(i <= len) => p[i - len] = s[i - len]
      <4>1. SUFFICES ASSUME ~(i <= len) PROVE i - len \in 1 .. Len(p)
        BY <2>2
      <4> QED BY <1>1, <2>2, <2>4, <4>1
    <3> QED BY <3>2, <3>3, <3>4
  <2> QED BY <1>1, <1>2, <2>4, <2>5, <2>6 DEF OutInv, SnprintfSemantics
<1> QED BY <1>3, <1>4

-----------------------------------------------------------------------------
(***************************************************************************)
(* Numbers and reads.                                                      *)
(***************************************************************************)

\* A remainder.
LEMMA ModType ==
  ASSUME NEW v \in Int, NEW w \in Nat \ {0}
  PROVE  v % w \in 0 .. w - 1 /\ v % w \in Nat /\ v % w \in Int
  OBVIOUS

\* A signed register is a number.
LEMMA SignedType ==
  ASSUME NEW v \in Int, NEW w \in Nat \ {0}
  PROVE  Signed(v, w) \in Int
  BY ModType DEF Signed

\* The registers of an event as numbers.
LEMMA RegisterTypes ==
  ASSUME ev \in Event
  PROVE  /\ Word64 \in Nat \ {0}
         /\ \A v \in Int : ptr_value(v) \in Int /\ read_addr(v) \in Nat
         /\ \A v \in Nat : ptr_value(v) \in Nat
         /\ retval \in Int /\ returned \in Nat
         /\ (is_error => returned = 0)
<1> USE SpansAssumption
<1>1. Word32 \in Nat \ {0} /\ TagSpan \in Nat \ {0}
  OBVIOUS
<1>2. Word64 \in Nat \ {0}
  BY <1>1 DEF Word64
<1>3. ev.ret \in Int /\ ev.abi \in {32, 64}
  BY DEF Event
<1>4. ASSUME NEW v \in Int PROVE ptr_value(v) \in Int /\ read_addr(v) \in Nat
  BY <1>1, <1>3, ModType DEF ptr_value, read_addr
<1>5. ASSUME NEW v \in Nat PROVE ptr_value(v) \in Nat
  BY <1>1, <1>3, ModType DEF ptr_value
<1>6. retval \in Int
  BY <1>1, <1>2, <1>3, SignedType DEF retval
<1>7. returned \in Nat
  BY <1>6 DEF returned
<1>8. is_error => returned = 0
  BY <1>6 DEF returned, is_error
<1> QED BY <1>2, <1>4, <1>5, <1>6, <1>7, <1>8

MemInv ==
  /\ mem \in [Addrs -> Nat]
  /\ mapped \subseteq Pages
  /\ owner \in {"caller", "gone", "other"}
  /\ changes \in 0 .. MaxChanges

\* An address on a page is an address.
LEMMA PageAddr ==
  ASSUME NEW a \in Nat, (a \div PageSize) \in Pages
  PROVE  a \in Addrs
<1> USE MemoryAssumption
<1> DEFINE N == Cardinality(Pages)
           q == a \div PageSize
           r == a % PageSize
<1>1. N \in Nat
  BY FS_CardinalityType
<1>2. q \in 0 .. N - 1
  BY <1>1
<1>3. a = PageSize * q + r /\ r \in 0 .. PageSize - 1 /\ q \in Int
  OBVIOUS
<1> HIDE DEF q, r, N
<1>4. PageSize * q <= PageSize * (N - 1)
  BY <1>1, <1>2, <1>3
<1>5. PageSize * (N - 1) = PageSize * N - PageSize
  BY <1>1
<1>6. a <= PageSize * N - 1 /\ PageSize * N \in Int
  BY <1>1, <1>3, <1>4, <1>5
<1> QED BY <1>6 DEF Addrs, N

\* The reader returns no more cells than it is asked for.
LEMMA ReadType ==
  ASSUME ev \in Event, MemInv, NEW v \in Int, NEW n \in Nat
  PROVE  read_mem(v, n) \in Seq(Nat) /\ Len(read_mem(v, n)) <= n
<1>1. CASE ~dereference \/ v = 0
  BY <1>1 DEF read_mem
<1>2. CASE dereference /\ v # 0
  <2> DEFINE a == read_addr(v)
             ok(k) == \A i \in a .. a + k - 1 : owner # "gone" /\ (i \div PageSize) \in mapped
             K == {k \in 0 .. n : ok(k)}
             got == Max(K)
  <2>1. a \in Nat
    BY RegisterTypes
  <2> HIDE DEF a
  <2>2. K \in SUBSET (0 .. n) /\ 0 \in K
    BY <2>1
  <2>3. got \in K
    BY <2>2, MaxOf
  <2>4. read_mem(v, n) = [i \in 1 .. got |-> mem[a + i - 1]]
    BY <1>2 DEF read_mem, read, a
  <2>5. got \in 0 .. n /\ ok(got)
    BY <2>3
  <2> HIDE DEF got, K
  <2>6. ASSUME NEW i \in 1 .. got PROVE mem[a + i - 1] \in Nat
    <3>1. a + i - 1 \in a .. a + got - 1 /\ a + i - 1 \in Nat
      BY <2>1, <2>5
    <3>2. ((a + i - 1) \div PageSize) \in Pages
      BY <2>5, <3>1 DEF MemInv
    <3>3. a + i - 1 \in Addrs
      BY <3>1, <3>2, PageAddr
    <3> QED BY <3>3 DEF MemInv
  <2>7. read_mem(v, n) \in Seq(Nat) /\ Len(read_mem(v, n)) = got
    BY <2>4, <2>5, <2>6
  <2> QED BY <2>5, <2>7
<1> QED BY <1>1, <1>2, OptionsAssumption

-----------------------------------------------------------------------------
(***************************************************************************)
(* What the printers of numbers print.                                     *)
(***************************************************************************)

\* f has the values of N iterations of step from a0 on.
IsIteration(f, A, a0, N, step) ==
  f \in [0 .. N -> A] /\ f[0] = a0 /\ \A i \in 1 .. N : f[i] = step[i][f[i - 1]]

\* A step that keeps to A can be iterated.
LEMMA IterationExists ==
  ASSUME NEW A, NEW a0 \in A, NEW N \in Nat, NEW step \in [1 .. N -> [A -> A]]
  PROVE  \E f : IsIteration(f, A, a0, N, step)
<1> DEFINE P(n, f) == IsIteration(f, A, a0, n, step)
           S == {n \in Nat : \E f : P(n, f)}
<1>1. 0 \in S
  <2>1. P(0, [i \in 0 .. 0 |-> a0])
    BY DEF IsIteration
  <2> QED BY <2>1
<1>2. ASSUME NEW n \in 0 .. N - 1, n \in S PROVE n + 1 \in S
  <2>1. PICK f : P(n, f)
    BY <1>2
  <2> USE DEF IsIteration
  <2> DEFINE x == step[n + 1][f[n]]
             g == [i \in 0 .. n + 1 |-> IF i = n + 1 THEN x ELSE f[i]]
  <2>2. f[n] \in A /\ n + 1 \in 1 .. N
    BY <2>1
  <2>3. x \in A
    BY <2>2
  <2>4. g \in [0 .. n + 1 -> A] /\ g[0] = a0
    BY <2>1, <2>3
  <2>5. ASSUME NEW i \in 1 .. n + 1 PROVE g[i] = step[i][g[i - 1]]
    <3>1. CASE i = n + 1
      BY <3>1
    <3>2. CASE i # n + 1
      <4>1. i \in 1 .. n /\ i - 1 \in 0 .. n + 1 /\ i - 1 # n + 1
        BY <3>2
      <4>2. g[i] = f[i] /\ g[i - 1] = f[i - 1]
        BY <3>2, <4>1
      <4> QED BY <2>1, <4>1, <4>2
    <3> QED BY <3>1, <3>2
  <2> HIDE DEF g
  <2>6. P(n + 1, g)
    BY <2>4, <2>5
  <2> HIDE DEF P, IsIteration
  <2> QED BY <2>6
<1> HIDE DEF S
<1>3. \A n \in 0 .. N : n \in S
  BY <1>1, <1>2, SetInduction
<1>4. N \in S
  BY <1>3
<1> QED BY <1>4 DEF S

BitSet == Nat \ {0}
Found  == [bits : Seq(BitSet), rest : Int]

\* The loop over a table of bits keeps what every bit keeps.
LEMMA NamedKeeps ==
  ASSUME NEW v, NEW table \in Seq(BitSet), NEW A, [bits |-> <<>>, rest |-> v] \in A,
         \A acc \in A : \A b \in BitSet : TakeBit(acc, b) \in A
  PROVE  Named(v, table) \in A
<1> DEFINE N == Len(table)
           a0 == [bits |-> <<>>, rest |-> v]
           step == [i \in 1 .. N |-> [acc \in A |-> TakeBit(acc, table[i])]]
           F(f) == [i \in 0 .. N |-> IF i = 0 THEN a0 ELSE TakeBit(f[i - 1], table[i])]
<1>1. N \in Nat /\ \A i \in 1 .. N : table[i] \in BitSet
  OBVIOUS
<1>2. a0 \in A
  OBVIOUS
<1>3. \A i \in 1 .. N : \A acc \in A : TakeBit(acc, table[i]) \in A
  BY <1>1
<1>4. step \in [1 .. N -> [A -> A]]
  BY <1>3
<1> HIDE DEF step, a0
<1>5. PICK f : IsIteration(f, A, a0, N, step)
  BY <1>1, <1>2, <1>4, IterationExists
<1>6. \A i \in 1 .. N : f[i] = TakeBit(f[i - 1], table[i])
  <2> SUFFICES ASSUME NEW i \in 1 .. N PROVE f[i] = TakeBit(f[i - 1], table[i])
    OBVIOUS
  <2>1. f[i - 1] \in A
    BY <1>1, <1>5 DEF IsIteration
  <2> QED BY <1>5, <2>1 DEF step, IsIteration
<1>7. f = F(f)
  BY <1>1, <1>5, <1>6 DEF IsIteration
<1> DEFINE g == CHOOSE h : h = F(h)
<1>8. g = F(g)
  BY <1>7, Zenon
<1> HIDE DEF g
<1>9. \A n \in 0 .. N : n \in {m \in 0 .. N : g[m] = f[m]}
  <2> DEFINE S == {m \in 0 .. N : g[m] = f[m]}
  <2>1. 0 \in S
    BY <1>1, <1>5, <1>8 DEF IsIteration
  <2>2. ASSUME NEW n \in 0 .. N - 1, n \in S PROVE n + 1 \in S
    BY <1>1, <1>6, <1>8, <2>2
  <2> HIDE DEF S
  <2>3. \A n \in 0 .. N : n \in S
    BY <1>1, <2>1, <2>2, SetInduction
  <2> QED BY <2>3 DEF S
<1>10. Named(v, table) = g[N]
  BY DEF Named, g, a0
<1>11. N \in 0 .. N
  BY <1>1
<1>12. g[N] = f[N] /\ f[N] \in A
  BY <1>5, <1>9, <1>11 DEF IsIteration
<1> QED BY <1>10, <1>12

\* The loop over a table of bits finds bits and leaves a number.
LEMMA NamedType ==
  ASSUME NEW v \in Int, NEW table \in Seq(BitSet)
  PROVE  Named(v, table) \in Found
<1>1. [bits |-> <<>>, rest |-> v] \in Found
  BY DEF Found
<1>2. \A acc \in Found : \A b \in BitSet : TakeBit(acc, b) \in Found
  BY DEF TakeBit, Found, BitSet
<1> QED BY <1>1, <1>2, NamedKeeps

\* A list of tokens, one or several.
LEMMA OneToken ==
  ASSUME NEW x \in Plain PROVE <<x>> \in Seq(Plain)
  OBVIOUS

\* Addresses, marks.
LEMMA PtrMarkType ==
  ASSUME ev \in Event
  PROVE  /\ \A v \in Int : Ptr(v) \in Seq(Plain)
         /\ \A m \in Tags : Mark(m) \in Seq(Plain)
<1>1. ASSUME NEW v \in Int PROVE Ptr(v) \in Seq(Plain)
  <2>1. ptr_value(v) \in Int
    BY RegisterTypes
  <2> QED BY <2>1, OneToken DEF Ptr, Tok, Plain, Tags
<1>2. ASSUME NEW m \in Tags PROVE Mark(m) \in Seq(Plain)
  <2>1. Tok(m, 0) \in Plain
    BY DEF Tok, Plain
  <2> QED BY <2>1, OneToken DEF Mark
<1> QED BY <1>1, <1>2

\* Flags.
LEMMA FlagsType ==
  ASSUME NEW v \in Int, NEW table \in Seq(BitSet)
  PROVE  Flags(v, table) \in Seq(Plain)
<1> DEFINE n == Named(v, table)
<1>1. n.bits \in Seq(BitSet) /\ n.rest \in Int
  BY NamedType DEF Found
<1> HIDE DEF n
<1>2. \A b \in Seq(BitSet) : Bars(b) \in Seq(Plain)
  <2> SUFFICES ASSUME NEW b \in Seq(BitSet) PROVE Bars(b) \in Seq(Plain)
    OBVIOUS
  <2>1. ASSUME NEW i \in 1 .. Len(b) PROVE Tok("|flag", b[i]) \in Plain
    <3>1. b[i] \in Int
      BY DEF BitSet
    <3> QED BY <3>1 DEF Tok, Plain, Tags
  <2> QED BY <2>1 DEF Bars
<1>3. CASE ~symbolic
  BY <1>3, OneToken DEF Flags, Tok, Plain, Tags
<1>4. CASE symbolic /\ n.bits = <<>>
  BY <1>1, <1>4, OneToken DEF Flags, n, Tok, Plain, Tags
<1>5. CASE symbolic /\ n.bits # <<>>
  <2>1. n.bits[1] \in Int /\ Tail(n.bits) \in Seq(BitSet)
    BY <1>1, <1>5 DEF BitSet
  <2>2. <<Tok("flag", n.bits[1])>> \in Seq(Plain) /\ Bars(Tail(n.bits)) \in Seq(Plain)
        /\ <<Tok("|word", n.rest)>> \in Seq(Plain)
    BY <1>1, <1>2, <2>1, OneToken DEF Tok, Plain, Tags
  <2>3. Flags(v, table) = <<Tok("flag", n.bits[1])>> \o Bars(Tail(n.bits))
                \o (IF n.rest > 0 THEN <<Tok("|word", n.rest)>> ELSE <<>>)
    BY <1>5 DEF Flags, n
  <2> QED BY <2>2, <2>3
<1> QED BY <1>3, <1>4, <1>5, OptionsAssumption

\* Flags of open.
LEMMA OpenFlagsType ==
  ASSUME NEW v \in Int
  PROVE  OpenFlags(v) \in Seq(Plain)
<1> DEFINE access == v % 4
           n == Named(v - access, open_flags)
<1>1. access \in Int /\ open_flags \in Seq(BitSet)
  BY FlagsAssumption DEF BitSet
<1>2. n.bits \in Seq(BitSet) /\ n.rest \in Int
  BY <1>1, NamedType DEF Found
<1>3. OpenFlags(v) =
        IF ~symbolic THEN <<Tok("word", v)>>
        ELSE <<Tok(IF access = 3 THEN "word" ELSE "access", access)>> \o Bars(n.bits)
             \o (IF n.rest > 0 THEN <<Tok("|word", n.rest)>> ELSE <<>>)
  BY DEF OpenFlags
<1> HIDE DEF n, access
<1>4. Bars(n.bits) \in Seq(Plain)
  <2>1. ASSUME NEW i \in 1 .. Len(n.bits) PROVE Tok("|flag", n.bits[i]) \in Plain
    <3>1. n.bits[i] \in Int
      BY <1>2 DEF BitSet
    <3> QED BY <3>1 DEF Tok, Plain, Tags
  <2> QED BY <1>2, <2>1 DEF Bars
<1>5. <<Tok("word", v)>> \in Seq(Plain)
      /\ <<Tok(IF access = 3 THEN "word" ELSE "access", access)>> \in Seq(Plain)
      /\ <<Tok("|word", n.rest)>> \in Seq(Plain)
  BY <1>1, <1>2, OneToken DEF Tok, Plain, Tags
<1> QED BY <1>3, <1>4, <1>5

\* The fields of a request.
LEMMA IocType ==
  ASSUME NEW v \in Int
  PROVE  Ioc(v) \in Seq(Plain)
<1> USE SpansAssumption
<1> DEFINE m == IOC.nr * IOC.type * IOC.size
           type == v \div IOC.nr
           size == type \div IOC.type
           dir  == size \div IOC.size
           w    == Word32 \div m
<1>1. IOC.nr \in Nat \ {0} /\ IOC.type \in Nat \ {0} /\ IOC.size \in Nat \ {0}
      /\ Word32 \in Nat \ {0}
  OBVIOUS
<1>2. m \in Nat \ {0} /\ m <= Word32
  <2>1. m \in Nat \ {0} /\ Word32 % m = 0
    BY <1>1
  <2> HIDE DEF m
  <2>2. ASSUME m > Word32 PROVE FALSE
    BY <1>1, <2>1, <2>2
  <2> QED BY <1>1, <2>1, <2>2
<1>3. type \in Int /\ size \in Int /\ dir \in Int
  BY <1>1
<1> HIDE DEF m
<1>4. w \in Nat \ {0}
  BY <1>1, <1>2
<1>5. Ioc(v) = <<Tok("dir", dir % w), Tok("|type", type % IOC.type), Tok("|nr", v % IOC.nr),
                 Tok("|size", size % IOC.size)>>
  BY DEF Ioc, m
<1> HIDE DEF type, size, dir, w
<1>6. dir % w \in Int /\ type % IOC.type \in Int /\ v % IOC.nr \in Int /\ size % IOC.size \in Int
  BY <1>1, <1>3, <1>4, ModType
<1>7. Tok("dir", dir % w) \in Plain /\ Tok("|type", type % IOC.type) \in Plain
      /\ Tok("|nr", v % IOC.nr) \in Plain /\ Tok("|size", size % IOC.size) \in Plain
  BY <1>6 DEF Tok, Plain, Tags
<1> QED BY <1>5, <1>7

\* A value is printed as tokens, none of them a byte.
LEMMA ValueTextType ==
  ASSUME ev \in Event, NEW k \in ValueKinds, NEW v \in Int, NEW n \in Int
  PROVE  ValueText(k, v, n) \in Seq(Plain)
<1> USE SpansAssumption
<1>1. Word32 \in Nat \ {0} /\ ModeSpan \in Nat \ {0} /\ Word64 \in Nat \ {0}
      /\ ptr_value(v) \in Int
  BY RegisterTypes
<1>2. Signed(v, Word32) \in Int /\ Signed(v, Word64) \in Int
      /\ v % ModeSpan \in Int /\ v % Word32 \in Int /\ n % Word32 \in Int
  BY <1>1, SignedType, ModType
<1>3. \A x \in Int : \A names : Number(x, names) \in Seq(Plain)
  BY OneToken DEF Number, Tok, Plain, Tags
<1>4. k = "open" => ValueText(k, v, n) \in Seq(Plain)
  BY OpenFlagsType DEF ValueText
<1>5. k \in {"prot", "map"} => ValueText(k, v, n) \in Seq(Plain)
  <2>1. prot_flags \in Seq(BitSet) /\ map_flags \in Seq(BitSet)
    BY FlagsAssumption DEF BitSet
  <2> QED BY <2>1, FlagsType DEF ValueText
<1>6. k = "ioc" => ValueText(k, v, n) \in Seq(Plain)
  BY <1>1, IocType DEF ValueText
<1>7. k = "pair" => ValueText(k, v, n) \in Seq(Plain)
  <2>1. arm_eabi_u64(v, n) \in Int
    BY <1>1, <1>2 DEF arm_eabi_u64
  <2> QED BY <2>1, OneToken DEF ValueText, Tok, Plain, Tags
<1>8. k = "sig" => ValueText(k, v, n) \in Seq(Plain)
  BY <1>2, OneToken DEF ValueText, print_signal, Tok, Plain, Tags
<1>9. k \in {"ptr", "socket_call"} => ValueText(k, v, n) \in Seq(Plain)
  <2>1. "name" \in Tags
    BY DEF Tags
  <2> QED BY <2>1, PtrMarkType DEF ValueText
<1>10. k \in {"dirfd", "bpf_cmd", "fcntl_cmd"} => ValueText(k, v, n) \in Seq(Plain)
  BY <1>1, <1>2, <1>3 DEF ValueText, fcntl_cmd
<1>11. k \in {"word", "int", "long", "mode"} => ValueText(k, v, n) \in Seq(Plain)
  BY <1>1, <1>2, OneToken DEF ValueText, Tok, Plain, Tags
<1> QED BY <1>4, <1>5, <1>6, <1>7, <1>8, <1>9, <1>10, <1>11 DEF ValueKinds

\* Data in quotes; memory as words.
LEMMA QuotedType ==
  ASSUME NEW s \in Seq(Nat), NEW more \in BOOLEAN
  PROVE  /\ Quoted(s, more) \in Seq(Token)
         /\ Len(Quoted(s, more)) = Len(s) + 2
         /\ \A i \in 1 .. Len(s) + 2 : i \in {1, Len(s) + 2} => Quoted(s, more)[i].t # "byte"
<1> DEFINE b == [i \in 1 .. Len(s) |-> Tok("byte", s[i])]
           m == Mark("quote")
           e == Mark(IF more THEN "end..." ELSE "end")
<1>1. b \in Seq(Token) /\ Len(b) = Len(s)
  BY DEF Tok, Token
<1>2. m \in Seq(Token) /\ Len(m) = 1 /\ m[1].t = "quote"
  BY DEF Mark, Tok, Token, Tags
<1>3. e \in Seq(Token) /\ Len(e) = 1 /\ e[1].t \in {"end...", "end"}
  BY DEF Mark, Tok, Token, Tags
<1>4. Quoted(s, more) = (m \o b) \o e
  BY DEF Quoted
<1> HIDE DEF b, m, e
<1> DEFINE mb == m \o b
           q  == mb \o e
<1>7. Len(s) \in Nat
  OBVIOUS
<1>5. mb \in Seq(Token) /\ Len(mb) = Len(s) + 1 /\ mb[1] = m[1]
  <2>1. mb \in Seq(Token) /\ Len(mb) = Len(m) + Len(b)
        /\ \A i \in 1 .. Len(mb) : mb[i] = IF i <= Len(m) THEN m[i] ELSE b[i - Len(m)]
    BY <1>1, <1>2, ConcatIs
  <2> HIDE DEF mb
  <2> QED BY <1>1, <1>2, <1>7, <2>1
<1> HIDE DEF mb
<1>6. q \in Seq(Token) /\ Len(q) = Len(s) + 2
      /\ \A i \in 1 .. Len(q) : q[i] = IF i <= Len(mb) THEN mb[i] ELSE e[i - Len(mb)]
  <2>1. q \in Seq(Token) /\ Len(q) = Len(mb) + Len(e)
        /\ \A i \in 1 .. Len(q) : q[i] = IF i <= Len(mb) THEN mb[i] ELSE e[i - Len(mb)]
    BY <1>3, <1>5, ConcatIs
  <2> HIDE DEF q
  <2> QED BY <1>3, <1>5, <1>7, <2>1
<1> HIDE DEF q
<1>8. q[1] = m[1] /\ q[Len(s) + 2] = e[1]
  BY <1>5, <1>6, <1>7
<1>9. Quoted(s, more) = q
  BY <1>4 DEF q, mb
<1> QED BY <1>2, <1>3, <1>6, <1>8, <1>9

\* Tokens that are no bytes are tokens.
LEMMA PlainToken == Seq(Plain) \subseteq Seq(Token)
<1>1. Plain \subseteq Token
  BY DEF Plain, Token
<1> QED BY <1>1

\* Cells as words.
LEMMA WordsType ==
  ASSUME NEW s \in Seq(Int)
  PROVE  Words(s) \in Seq(Plain)
<1>1. ASSUME NEW i \in 1 .. Len(s) PROVE Tok("word", s[i]) \in Plain
  BY DEF Tok, Plain, Tags
<1> QED BY <1>1 DEF Words

\* What print_cstring prints.
LEMMA StringTextType ==
  ASSUME ev \in Event, NEW v \in Int, NEW s \in Seq(Nat), NEW terminated \in BOOLEAN
  PROVE  StringText(v, s, terminated) \in Seq(Token)
<1>1. Ptr(v) \in Seq(Token) /\ Mark("unreadable") \in Seq(Token)
  <2>1. "unreadable" \in Tags
    BY DEF Tags
  <2> QED BY <2>1, PtrMarkType, PlainToken
<1>2. Quoted(s, ~terminated) \in Seq(Token)
  BY QuotedType
<1> QED BY <1>1, <1>2 DEF StringText

\* What print_result prints.
LEMMA ResultType ==
  ASSUME ev \in Event
  PROVE  ResultText \in Seq(Plain)
<1>1. retval \in Int /\ retval % Word64 \in Int
  BY RegisterTypes, ModType
<1> QED BY <1>1, OneToken DEF ResultText, Tok, Plain, Tags

\* A structure.
LEMMA StructTextType ==
  ASSUME NEW k, NEW got \in Seq(Nat), Len(got) \in 1 .. Known(k)
  PROVE  StructText(k, got) \in Seq(Plain)
<1>1. CASE k = "how"
  <2> DEFINE m == [i \in 1 .. Len(got) - 1 |->
                     Tok("word", IF i = 1 THEN got[2] % ModeSpan ELSE got[i + 1])]
  <2>1. got[1] \in Int /\ Len(got) \in Nat /\ Len(got) # 0
    <3>1. Known(k) = 3
      BY <1>1 DEF Known
    <3> QED BY <3>1
  <2>2. OpenFlags(got[1]) \in Seq(Plain)
    BY <2>1, OpenFlagsType
  <2>3. ASSUME NEW i \in 1 .. Len(got) - 1
        PROVE  Tok("word", IF i = 1 THEN got[2] % ModeSpan ELSE got[i + 1]) \in Plain
    <3>1. got[i + 1] \in Int
      BY <2>1
    <3>2. i = 1 => got[2] % ModeSpan \in Int
      <4>1. SUFFICES ASSUME i = 1 PROVE got[2] % ModeSpan \in Int
        OBVIOUS
      <4>2. got[2] \in Int /\ ModeSpan \in Nat \ {0}
        BY <3>1, <4>1, SpansAssumption
      <4> QED BY <4>2, ModType
    <3> QED BY <3>1, <3>2 DEF Tok, Plain, Tags
  <2>4. m \in Seq(Plain)
    BY <2>1, <2>3
  <2>5. StructText(k, got) = OpenFlags(got[1]) \o m
    BY <1>1 DEF StructText
  <2> HIDE DEF m
  <2> QED BY <2>2, <2>4, <2>5
<1>2. CASE k # "how"
  <2> DEFINE c == CloneMembers(Len(got))
             all == <<1, 5, 6, 7, 8, 9, 10, 11>>
  <2>1. Len(got) \in 1 .. 11
    <3>1. Known(k) = 11
      BY <1>2 DEF Known
    <3> QED BY <3>1
  <2>2. c \in Seq(1 .. 11) /\ \A i \in 1 .. Len(c) : c[i] <= Len(got)
    <3> DEFINE z == Len(got)
               n == IF z = 11 THEN 8 ELSE IF z = 10 THEN 7 ELSE IF z >= 8 THEN 5
                    ELSE IF z = 7 THEN 4 ELSE IF z >= 5 THEN 2 ELSE 1
    <3>1. all \in Seq(1 .. 11) /\ Len(all) = 8
      OBVIOUS
    <3>2. n \in 1 .. 8
      BY <2>1
    <3>3. c = SubSeq(all, 1, n)
      BY DEF CloneMembers
    <3>4. \A i \in 1 .. n : all[i] <= Len(got)
      <4> SUFFICES ASSUME NEW i \in 1 .. n PROVE all[i] <= Len(got)
        OBVIOUS
      <4>1. i = 1 \/ i = 2 \/ i = 3 \/ i = 4 \/ i = 5 \/ i = 6 \/ i = 7 \/ i = 8
        BY <3>2
      <4>2. /\ all[1] = 1 /\ all[2] = 5 /\ all[3] = 6 /\ all[4] = 7
            /\ all[5] = 8 /\ all[6] = 9 /\ all[7] = 10 /\ all[8] = 11
        OBVIOUS
      <4> HIDE DEF all
      <4>3. /\ n >= 2 => Len(got) >= 5
            /\ n >= 3 => Len(got) >= 7
            /\ n >= 5 => Len(got) >= 8
            /\ n >= 6 => Len(got) >= 10
            /\ n >= 8 => Len(got) >= 11
        <5>1. z \in 1 .. 11
          BY <2>1
        <5> SUFFICES /\ n >= 2 => z >= 5
                     /\ n >= 3 => z >= 7
                     /\ n >= 5 => z >= 8
                     /\ n >= 6 => z >= 10
                     /\ n >= 8 => z >= 11
          OBVIOUS
        <5> HIDE DEF z
        <5> QED BY <5>1
      <4> HIDE DEF n
      <4> QED BY <2>1, <3>2, <4>1, <4>2, <4>3
    <3> HIDE DEF all, n
    <3>5. c \in Seq(1 .. 11) /\ Len(c) = n /\ \A i \in 1 .. n : c[i] = all[i]
      <4>1. n \in 0 .. Len(all)
        BY <3>1, <3>2
      <4>2. SubSeq(all, 1, n) \in Seq(1 .. 11) /\ Len(SubSeq(all, 1, n)) = n
            /\ \A i \in 1 .. n : SubSeq(all, 1, n)[i] = all[i]
        BY <3>1, <4>1, PrefixIs
      <4> QED BY <3>3, <4>2
    <3> QED BY <3>4, <3>5
  <2>3. StructText(k, got) = [i \in 1 .. Len(c) |-> Tok("word", got[c[i]])]
    BY <1>2 DEF StructText
  <2> HIDE DEF c
  <2>4. ASSUME NEW i \in 1 .. Len(c) PROVE Tok("word", got[c[i]]) \in Plain
    <3>1. c[i] \in 1 .. Len(got)
      <4>1. c[i] \in 1 .. 11 /\ c[i] <= Len(got)
        BY <2>2
      <4> QED BY <2>1, <4>1
    <3>2. got[c[i]] \in Int
      BY <3>1
    <3> QED BY <3>2 DEF Tok, Plain, Tags
  <2> QED BY <2>2, <2>3, <2>4
<1> QED BY <1>1, <1>2

\* The address of a socket.
LEMMA SockaddrTextType ==
  ASSUME ev \in Event, NEW v \in Int, NEW got \in Seq(Nat)
  PROVE  SockaddrText(v, got) \in Seq(Token)
<1> DEFINE path == Tail(got)
           L == {i \in 1 .. Len(path) : path[i] # 0}
           last == IF L # {} THEN Max(L) ELSE 0
           name == SubSeq(path, 1, last)
<1>1. CASE got = <<>>
  <2>1. Ptr(v) \in Seq(Token) /\ Mark("unreadable") \in Seq(Token)
    <3>1. "unreadable" \in Tags
      BY DEF Tags
    <3> QED BY <3>1, PtrMarkType, PlainToken
  <2> QED BY <1>1, <2>1 DEF SockaddrText
<1>2. CASE got # <<>>
  <2>1. path \in Seq(Nat) /\ got[1] \in Nat /\ Len(path) \in Nat
    BY <1>2
  <2>2. last \in 0 .. Len(path)
    <3>1. L \in SUBSET (0 .. Len(path))
      BY <2>1
    <3> HIDE DEF L, path
    <3>2. L # {} => Max(L) \in L
      BY <2>1, <3>1, MaxOf
    <3>3. CASE L = {}
      BY <2>1, <3>3
    <3>4. CASE L # {}
      BY <2>1, <3>1, <3>2, <3>4
    <3> QED BY <3>3, <3>4
  <2> HIDE DEF last, path
  <2>3. name \in Seq(Nat)
    BY <2>1, <2>2
  <2>4. Quoted(name, FALSE) \in Seq(Token) /\ (name # <<>> => Quoted(Tail(name), FALSE) \in Seq(Token))
    <3>1. name # <<>> => Tail(name) \in Seq(Nat)
      BY <2>3
    <3> QED BY <2>3, <3>1, QuotedType
  <2>5. Mark("@") \in Seq(Token) /\ Mark("...") \in Seq(Token)
    <3>1. "@" \in Tags /\ "..." \in Tags
      BY DEF Tags
    <3> QED BY <3>1, PtrMarkType, PlainToken
  <2>6. /\ Words(<<AF_UNIX>>) \in Seq(Token) /\ Words(<<got[1]>>) \in Seq(Token)
        /\ (Len(got) >= InetSize => Words(SubSeq(got, 1, InetSize)) \in Seq(Token))
    <3>1. <<AF_UNIX>> \in Seq(Int) /\ <<got[1]>> \in Seq(Int)
      <4>1. AF_UNIX \in Int
        BY SpansAssumption
      <4>2. got[1] \in Int
        BY <2>1
      <4> QED BY <4>1, <4>2
    <3>2. Len(got) >= InetSize => SubSeq(got, 1, InetSize) \in Seq(Int)
      <4>1. SUFFICES ASSUME Len(got) >= InetSize PROVE SubSeq(got, 1, InetSize) \in Seq(Int)
        OBVIOUS
      <4>2. InetSize \in Nat
        BY SpansAssumption
      <4> QED BY <4>1, <4>2
    <3> QED BY <3>1, <3>2, WordsType, PlainToken
  <2>7. SockaddrText(v, got) =
          CASE got = <<>> -> Ptr(v) \o Mark("unreadable")
            [] got # <<>> /\ got[1] = AF_INET /\ Len(got) >= InetSize ->
                 Words(SubSeq(got, 1, InetSize))
            [] got # <<>> /\ got[1] = AF_UNIX /\ path # <<>> ->
                 Words(<<AF_UNIX>>)
                 \o (IF name # <<>> /\ name[1] = 0 THEN Mark("@") \o Quoted(Tail(name), FALSE)
                     ELSE Quoted(name, FALSE))
            [] OTHER -> Words(<<got[1]>>) \o Mark("...")
    BY DEF SockaddrText, SelectLastInSeq, path, last
  <2> HIDE DEF name
  <2>8. (IF name # <<>> /\ name[1] = 0 THEN Mark("@") \o Quoted(Tail(name), FALSE)
         ELSE Quoted(name, FALSE)) \in Seq(Token)
    BY <2>4, <2>5, ConcatIs
  <2>9. /\ Words(<<AF_UNIX>>) \o (IF name # <<>> /\ name[1] = 0
                                  THEN Mark("@") \o Quoted(Tail(name), FALSE)
                                  ELSE Quoted(name, FALSE)) \in Seq(Token)
        /\ Words(<<got[1]>>) \o Mark("...") \in Seq(Token)
    BY <2>5, <2>6, <2>8, ConcatIs, Zenon
  <2> QED BY <1>2, <2>6, <2>7, <2>9, Zenon
<1> QED BY <1>1, <1>2

-----------------------------------------------------------------------------
(***************************************************************************)
(* Jobs.                                                                   *)
(***************************************************************************)

AllKinds == JobKinds \cup {"puts", "stack"}

\* A string has not filled its buffer, a list not gone beyond its end.
GoodJob ==
  {j \in [k : AllKinds, v : Int, n : Nat, i : 0 .. max_array, got : Seq(Nat), lim : Nat,
          show : BOOLEAN] :
     /\ j.k = "chars" => Len(j.got) < MaxStr
     /\ j.k = "iov" => j.i <= j.n /\ j.n <= max_array}

\* Options that are numbers.
LEMMA OptionTypes ==
  /\ max_buffer \in Nat /\ max_array \in Nat /\ max_string \in Nat /\ MaxChanges \in Nat
  /\ MaxStr \in Nat \ {0} /\ CHUNK \in Nat \ {0}
  BY OptionsAssumption, SpansAssumption DEF MaxStr

\* A job that is begun.
LEMMA JobType ==
  ASSUME NEW k \in AllKinds, NEW v \in Int, NEW n \in Nat
  PROVE  k # "iov" \/ n \in 0 .. max_array => Job(k, v, n) \in GoodJob
<1>1. max_array \in Nat /\ MaxStr \in Nat /\ MaxStr > 0
  BY OptionTypes
<1>2. <<>> \in Seq(Nat) /\ Len(<<>>) = 0
  OBVIOUS
<1> QED BY <1>1, <1>2 DEF Job, GoodJob

\* The job of an argument.
LEMMA ArgJobType ==
  ASSUME ev \in Event, NEW d \in ArgDesc
  PROVE  ArgJob(d) \in GoodJob
<1> DEFINE v == ev.args[d.arg]
           x == ev.args[d.aux]
<1>1. d.kind \in ArgKinds /\ d.arg \in 1 .. 6 /\ d.aux \in 0 .. 6
      /\ (d.kind \in PairedKinds => d.aux \in 1 .. 6)
  BY DEF ArgDesc
<1>2. v \in Nat /\ (d.kind \in PairedKinds => x \in Nat)
  BY <1>1 DEF Event
<1>3. returned \in Nat /\ max_array \in Nat /\ max_buffer \in Nat
  BY RegisterTypes, OptionTypes
<1>4. \A a, b \in Nat : Least(a, b) \in Nat /\ Least(a, b) <= a /\ Least(a, b) <= b
  BY DEF Least
<1>5. CASE d.kind = "buf_in"
  <2>1. Count(d.aux, FALSE) \in Nat /\ "buffer" \in AllKinds
    BY <1>2, <1>5 DEF Count, PairedKinds, AllKinds, JobKinds
  <2>2. ArgJob(d) = Job("buffer", v, Count(d.aux, FALSE))
    BY <1>5 DEF ArgJob
  <2> HIDE DEF v
  <2>3. "buffer" # "iov" /\ v \in Int
    BY <1>2
  <2>4. Job("buffer", v, Count(d.aux, FALSE)) \in GoodJob
    BY <2>1, <2>3, JobType, Zenon
  <2> QED BY <2>2, <2>4
<1>6. CASE d.kind = "buf_out"
  <2>1. Count(d.aux, TRUE) \in Nat /\ "buffer" \in AllKinds /\ "ptr" \in AllKinds
    BY <1>2, <1>3, <1>4, <1>6 DEF Count, PairedKinds, AllKinds, JobKinds, ValueKinds
  <2>2. ArgJob(d) = IF is_error THEN Job("ptr", v, 0) ELSE Job("buffer", v, Count(d.aux, TRUE))
    BY <1>6 DEF ArgJob
  <2> HIDE DEF v
  <2>3. "buffer" # "iov" /\ "ptr" # "iov" /\ v \in Int /\ 0 \in Nat
    BY <1>2
  <2>4. Job("buffer", v, Count(d.aux, TRUE)) \in GoodJob
    BY <2>1, <2>3, JobType, Zenon
  <2>5. Job("ptr", v, 0) \in GoodJob
    BY <2>1, <2>3, JobType, Zenon
  <2> QED BY <2>2, <2>4, <2>5
<1>7. CASE d.kind \in {"iov_in", "iov_out"}
  <2> DEFINE n == Least(x, max_array)
             j == Job("iov", v, n)
  <2>1. n \in Nat /\ n <= max_array /\ "iov" \in AllKinds
    BY <1>2, <1>3, <1>4, <1>7 DEF PairedKinds, AllKinds, JobKinds
  <2>2. j \in GoodJob
    BY <1>2, <2>1, JobType
  <2>3. ArgJob(d) \in {[j EXCEPT !.lim = max_buffer],
                       [j EXCEPT !.lim = returned, !.show = ~is_error]}
    BY <1>7 DEF ArgJob
  <2>4. is_error \in BOOLEAN
    BY DEF is_error
  <2> HIDE DEF j, n
  <2>5. \A l \in Nat, b \in BOOLEAN : [j EXCEPT !.lim = l] \in GoodJob
                                      /\ [j EXCEPT !.lim = l, !.show = b] \in GoodJob
    BY <2>2 DEF GoodJob
  <2> QED BY <1>3, <2>3, <2>4, <2>5
<1>8. CASE d.kind = "timespec_out"
  <2>1. "ptr" \in AllKinds /\ "timespec" \in AllKinds
    BY DEF AllKinds, JobKinds, ValueKinds
  <2>2. ArgJob(d) = Job(IF is_error THEN "ptr" ELSE "timespec", v, 0)
    BY <1>8 DEF ArgJob
  <2> QED BY <1>2, <2>1, <2>2, JobType
<1>9. CASE d.kind \in {"sockaddr", "how", "clone_args", "pair"}
  <2>1. x \in Nat /\ ptr_value(x) \in Nat /\ d.kind \in AllKinds
    BY <1>2, <1>9, RegisterTypes DEF PairedKinds, AllKinds, JobKinds, ValueKinds
  <2>2. ArgJob(d) \in {Job(d.kind, v, x), Job(d.kind, v, ptr_value(x))}
    BY <1>9 DEF ArgJob
  <2> QED BY <1>2, <1>9, <2>1, <2>2, JobType
<1>10. CASE d.kind \notin PairedKinds \cup {"timespec_out"}
  <2>1. d.kind \in AllKinds /\ d.kind # "iov"
    BY <1>1, <1>10 DEF ArgKinds, PairedKinds, AllKinds, JobKinds, ValueKinds
  <2>2. ArgJob(d) = Job(d.kind, v, 0)
    BY <1>10 DEF ArgJob, PairedKinds
  <2> QED BY <1>2, <2>1, <2>2, JobType
<1> QED BY <1>5, <1>6, <1>7, <1>8, <1>9, <1>10 DEF PairedKinds

\* Every call has a list of arguments.
LEMMA ArgsType ==
  ASSUME ev \in Event
  PROVE  Args \in Seq(ArgDesc)
<1>10. /\ \A r \in 1 .. 6 : \A k \in {"int", "word", "long", "ioc", "ptr", "bpf_cmd", "dirfd", "str",
                                    "fcntl_cmd"} : Arg(k, r) \in ArgDesc
       /\ \A r, x \in 1 .. 6 : \A k \in {"buf_out", "buf_in", "pair", "how", "clone_args"} :
            ArgAux(k, r, x) \in ArgDesc
  <2>1. ASSUME NEW r \in 1 .. 6,
               NEW k \in {"int", "word", "long", "ioc", "ptr", "bpf_cmd", "dirfd", "str",
                          "fcntl_cmd"}
        PROVE  Arg(k, r) \in ArgDesc
    <3>1. k \in ArgKinds /\ k \notin PairedKinds
      BY DEF ArgKinds, PairedKinds, ValueKinds
    <3> QED BY <3>1 DEF Arg, ArgDesc
  <2>2. ASSUME NEW r \in 1 .. 6, NEW x \in 1 .. 6,
               NEW k \in {"buf_out", "buf_in", "pair", "how", "clone_args"}
        PROVE  ArgAux(k, r, x) \in ArgDesc
    <3>1. k \in ArgKinds
      BY DEF ArgKinds, PairedKinds
    <3> QED BY <3>1 DEF ArgAux, ArgDesc
  <2> QED BY <2>1, <2>2
<1>3. \A c \in DOMAIN Aligned64 : Aligned64[c] \in Seq(ArgDesc)
  <2>1. /\ Aligned64["pread64"] \in Seq(ArgDesc) /\ Aligned64["pwrite64"] \in Seq(ArgDesc)
        /\ Aligned64["readahead"] \in Seq(ArgDesc) /\ Aligned64["truncate64"] \in Seq(ArgDesc)
        /\ Aligned64["ftruncate64"] \in Seq(ArgDesc)
    BY <1>10 DEF Aligned64
  <2>2. DOMAIN Aligned64 = {"pread64", "pwrite64", "readahead", "truncate64", "ftruncate64"}
    BY DEF Aligned64
  <2> QED BY <2>1, <2>2
<1>4. \A c \in DOMAIN Special : Special[c] \in Seq(ArgDesc)
  <2>1. /\ Special["ioctl"] \in Seq(ArgDesc) /\ Special["bpf"] \in Seq(ArgDesc)
        /\ Special["openat2"] \in Seq(ArgDesc) /\ Special["clone3"] \in Seq(ArgDesc)
    BY <1>10 DEF Special
  <2>2. DOMAIN Special = {"ioctl", "bpf", "openat2", "clone3"}
    BY DEF Special
  <2> QED BY <2>1, <2>2
<1>5. FcntlArgs \in Seq(ArgDesc)
  <2>1. <<Arg("int", 1), Arg("fcntl_cmd", 2)>> \in Seq(ArgDesc)
    BY <1>10
  <2>2. \A k \in {"ptr", "word"} : <<Arg(k, 3)>> \in Seq(ArgDesc)
    BY <1>10
  <2>3. FcntlArgs \in {<<Arg("int", 1), Arg("fcntl_cmd", 2)>> \o <<>>,
                       <<Arg("int", 1), Arg("fcntl_cmd", 2)>> \o <<Arg("ptr", 3)>>,
                       <<Arg("int", 1), Arg("fcntl_cmd", 2)>> \o <<Arg("word", 3)>>}
    BY DEF FcntlArgs
  <2>4. /\ <<Arg("int", 1), Arg("fcntl_cmd", 2)>> \o <<>> \in Seq(ArgDesc)
        /\ <<Arg("int", 1), Arg("fcntl_cmd", 2)>> \o <<Arg("ptr", 3)>> \in Seq(ArgDesc)
        /\ <<Arg("int", 1), Arg("fcntl_cmd", 2)>> \o <<Arg("word", 3)>> \in Seq(ArgDesc)
    BY <2>1, <2>2
  <2> QED BY <2>3, <2>4, Zenon
<1>6. <<Arg("socket_call", 1), Arg("socket_words", 2)>> \in Seq(ArgDesc)
  BY DEF Arg, ArgDesc, ArgKinds, PairedKinds, ValueKinds
<1>7. ASSUME NEW ds \in Seq(ArgDesc) PROVE TableArgs(ds) \in Seq(ArgDesc)
  <2>1. ds # <<>> => Front(ds) \in Seq(ArgDesc)
    BY DEF Front
  <2> QED BY <2>1 DEF TableArgs
<1>8. call_name \in DOMAIN calls => TableArgs(calls[call_name]) \in Seq(ArgDesc)
  BY <1>7, TablesAssumption
<1>9. [i \in 1 .. syscall_table_lookup(ev.syscall_id).nargs |-> Arg("word", i)] \in Seq(ArgDesc)
  <2> DEFINE n == syscall_table_lookup(ev.syscall_id).nargs
  <2>1. n \in 0 .. 6
    <3>1. ev.abi \in {32, 64}
      BY DEF Event
    <3>2. CASE ev.syscall_id \in DOMAIN syscall_tables[ev.abi]
      BY <3>1, <3>2, TablesAssumption DEF syscall_table_lookup
    <3>3. CASE ev.syscall_id \notin DOMAIN syscall_tables[ev.abi]
      BY <3>3 DEF syscall_table_lookup
    <3> QED BY <3>2, <3>3
  <2> HIDE DEF n
  <2>2. \A i \in 1 .. n : Arg("word", i) \in ArgDesc
    BY <2>1 DEF Arg, ArgDesc, ArgKinds, PairedKinds, ValueKinds
  <2>3. [i \in 1 .. n |-> Arg("word", i)] \in Seq(ArgDesc)
    BY <2>1, <2>2
  <2> QED BY <2>3 DEF n
<1> QED BY <1>3, <1>4, <1>5, <1>6, <1>8, <1>9, Zenon DEF Args

\* The jobs of an event.
LEMMA EventJobsType ==
  ASSUME ev \in Event, NEW stack
  PROVE  EventJobs(stack) \in Seq(GoodJob)
<1>1. \A k \in {"head", "result", "puts", "stack"} : k \in AllKinds /\ k # "iov"
  BY DEF AllKinds, JobKinds
<1>2. ev.syscall_id \in Int /\ ev.ret \in Int
  BY DEF Event
<1>3. /\ Job("head", ev.syscall_id, 0) \in GoodJob /\ Job("result", ev.ret, 0) \in GoodJob
      /\ Job("puts", 0, 0) \in GoodJob /\ Job("stack", 0, 0) \in GoodJob
  BY <1>1, <1>2, JobType
<1>4. [i \in 1 .. Len(Args) |-> ArgJob(Args[i])] \in Seq(GoodJob)
  <2>1. Args \in Seq(ArgDesc)
    BY ArgsType
  <2>2. \A i \in 1 .. Len(Args) : ArgJob(Args[i]) \in GoodJob
    BY <2>1, ArgJobType
  <2>3. Len(Args) \in Nat
    BY <2>1
  <2> QED BY <2>2, <2>3
<1>5. Jobs \in Seq(GoodJob)
  BY <1>3, <1>4 DEF Jobs
<1> QED BY <1>3, <1>5 DEF EventJobs

-----------------------------------------------------------------------------
(***************************************************************************)
(* Types and the buffer, step by step.                                     *)
(***************************************************************************)

TypeInv == ev \in Event /\ todo \in Seq(GoodJob) /\ OutInv /\ MemInv

\* The first job and the others.
LEMMA FirstJob ==
  ASSUME todo \in Seq(GoodJob), todo # <<>>
  PROVE  /\ job \in GoodJob /\ Tail(todo) \in Seq(GoodJob)
         /\ job.k \in AllKinds /\ job.v \in Int /\ job.n \in Nat /\ job.i \in 0 .. max_array
         /\ job.got \in Seq(Nat) /\ job.lim \in Nat /\ job.show \in BOOLEAN
         /\ (job.k = "chars" => Len(job.got) < MaxStr)
         /\ (job.k = "iov" => job.i <= job.n /\ job.n <= max_array)
<1>1. job \in GoodJob /\ Tail(todo) \in Seq(GoodJob)
  BY DEF job
<1> QED BY <1>1 DEF GoodJob

\* A job prints and leaves.
LEMMA EmitKeeps ==
  ASSUME TypeInv, todo # <<>>, NEW s \in Seq(Token), Emit(s), ev' = ev, MemInv'
  PROVE  TypeInv'
<1>1. OutInv'
  BY PrintfKeeps DEF Emit, TypeInv
<1>2. todo' \in Seq(GoodJob)
  BY FirstJob DEF Emit, TypeInv
<1> QED BY <1>1, <1>2 DEF TypeInv

\* A job makes place for others.
LEMMA EmitThenKeeps ==
  ASSUME TypeInv, todo # <<>>, NEW js \in Seq(GoodJob), EmitThen(<<>>, js), ev' = ev, MemInv'
  PROVE  TypeInv'
<1>1. <<>> \in Seq(Token)
  OBVIOUS
<1>2. OutInv'
  BY <1>1, PrintfKeeps DEF EmitThen, TypeInv
<1>3. todo' \in Seq(GoodJob)
  <2>1. Tail(todo) \in Seq(GoodJob)
    BY FirstJob DEF TypeInv
  <2> QED BY <2>1, ConcatIs DEF EmitThen
<1> QED BY <1>2, <1>3 DEF TypeInv

\* Nothing happens to the process while a step of the decoder is made.
LEMMA MemKept == ASSUME MemInv, UNCHANGED procVars PROVE MemInv'
  BY DEF MemInv, procVars

\* Addresses and marks are tokens.
LEMMA TextTypes ==
  ASSUME ev \in Event, NEW v \in Int
  PROVE  /\ Ptr(v) \in Seq(Token) /\ Mark("unreadable") \in Seq(Token)
         /\ Ptr(v) \o Mark("unreadable") \in Seq(Token)
         /\ Mark("...") \in Seq(Token) /\ Mark("... unreadable") \in Seq(Token)
         /\ <<>> \in Seq(Token)
<1>1. {"unreadable", "...", "... unreadable"} \subseteq Tags
  BY DEF Tags
<1>2. Ptr(v) \in Seq(Token) /\ Mark("unreadable") \in Seq(Token)
      /\ Mark("...") \in Seq(Token) /\ Mark("... unreadable") \in Seq(Token)
  BY <1>1, PtrMarkType, PlainToken
<1>3. ASSUME NEW a \in Seq(Token), NEW b \in Seq(Token) PROVE a \o b \in Seq(Token)
  BY ConcatIs
<1>4. Ptr(v) \o Mark("unreadable") \in Seq(Token)
  BY <1>2, <1>3, Zenon
<1>5. <<>> \in Seq(Token)
  OBVIOUS
<1> QED BY <1>2, <1>4, <1>5

\* print_value.
LEMMA ValueKeeps == TypeInv /\ print_value => TypeInv'
<1> SUFFICES ASSUME TypeInv, print_value PROVE TypeInv'
  OBVIOUS
<1>1. todo # <<>> /\ ev \in Event /\ ev' = ev /\ UNCHANGED procVars
  BY DEF print_value, NoRead, TypeInv
<1>2. MemInv'
  BY <1>1, MemKept DEF TypeInv
<1>3. job.v \in Int /\ job.n \in Int
  BY <1>1, FirstJob DEF TypeInv
<1>4. CASE Emit(<<Tok("call", job.v)>>)
  <2>1. <<Tok("call", job.v)>> \in Seq(Token)
    BY <1>3 DEF Tok, Token, Tags
  <2> QED BY <1>1, <1>2, <1>4, <2>1, EmitKeeps
<1>5. CASE job.k \in ValueKinds /\ Emit(ValueText(job.k, job.v, job.n))
  <2>1. ValueText(job.k, job.v, job.n) \in Seq(Token)
    BY <1>1, <1>3, <1>5, ValueTextType, PlainToken
  <2> QED BY <1>1, <1>2, <1>5, <2>1, EmitKeeps
<1>6. CASE Emit(ResultText)
  <2>1. ResultText \in Seq(Token)
    BY <1>1, ResultType, PlainToken
  <2> QED BY <1>1, <1>2, <1>6, <2>1, EmitKeeps
<1> QED BY <1>4, <1>5, <1>6 DEF print_value

\* print_cstring, before its loop, and malloc_fails.
LEMMA CstringKeeps == TypeInv /\ (print_cstring \/ malloc_fails) => TypeInv'
<1> SUFFICES ASSUME TypeInv, print_cstring \/ malloc_fails PROVE TypeInv'
  OBVIOUS
<1>1. todo # <<>> /\ ev \in Event /\ ev' = ev
  BY DEF print_cstring, malloc_fails, NoRead, TypeInv, Doing
<1>2. MemInv'
  <2>1. CASE print_cstring
    BY <2>1, MemKept DEF TypeInv, print_cstring, NoRead
  <2>2. CASE malloc_fails
    BY <2>2, OptionTypes DEF TypeInv, malloc_fails, MemInv
  <2> QED BY <2>1, <2>2
<1>3. job.v \in Int
  BY <1>1, FirstJob DEF TypeInv
<1>4. CASE Emit(Ptr(job.v))
  BY <1>1, <1>2, <1>3, <1>4, TextTypes, EmitKeeps
<1>5. CASE EmitThen(<<>>, <<Job("chars", job.v, 0)>>)
  <2>1. "chars" \in AllKinds /\ "chars" # "iov"
    BY DEF AllKinds, JobKinds
  <2>2. Job("chars", job.v, 0) \in GoodJob
    BY <1>3, <2>1, JobType
  <2>3. <<Job("chars", job.v, 0)>> \in Seq(GoodJob)
    BY <2>2
  <2> QED BY <1>1, <1>2, <1>5, <2>3, EmitThenKeeps
<1> QED BY <1>4, <1>5 DEF print_cstring, malloc_fails

\* The position of the NUL in what has been read, or 0.
LEMMA NulIs ==
  ASSUME NEW got \in Seq(Nat)
  PROVE  /\ FirstNul(got) \in 0 .. Len(got)
         /\ FirstNul(got) > 0 => got[FirstNul(got)] = 0
         /\ \A i \in 1 .. Len(got) : got[i] = 0 => 0 < FirstNul(got) /\ FirstNul(got) <= i
<1> DEFINE I == {i \in 1 .. Len(got) : got[i] = 0}
           nul == IF I # {} THEN Min(I) ELSE 0
<1>1. FirstNul(got) = nul
  BY DEF FirstNul, SelectInSeq
<1>2. I \in SUBSET Nat
  OBVIOUS
<1>3. I # {} => Min(I) \in I /\ \A y \in I : Min(I) <= y
  BY <1>2, MinOf
<1>4. /\ nul \in 0 .. Len(got) /\ (nul > 0 => got[nul] = 0)
      /\ \A i \in 1 .. Len(got) : got[i] = 0 => 0 < nul /\ nul <= i
  <2>1. CASE I = {}
    BY <2>1
  <2>2. CASE I # {}
    <3>1. nul \in I /\ \A y \in I : nul <= y
      BY <1>3, <2>2
    <3> HIDE DEF nul
    <3> QED BY <3>1
  <2> QED BY <2>1, <2>2
<1> HIDE DEF nul
<1> QED BY <1>1, <1>4

\* The loop of print_cstring.
LEMMA StringReadKeeps == TypeInv /\ string_read => TypeInv'
<1> SUFFICES ASSUME TypeInv, string_read PROVE TypeInv'
  OBVIOUS
<1> DEFINE used  == Len(job.got)
           chunk == Chunk(used)
           got   == read_mem(ChunkAddr(job), chunk)
           nul   == FirstNul(got)
           all   == job.got \o got
<1>1. todo # <<>> /\ ev \in Event /\ ev' = ev /\ job.k = "chars" /\ MemInv /\ UNCHANGED procVars
  BY DEF string_read, TypeInv, Doing, job
<1>2. MemInv'
  BY <1>1, MemKept
<1>3. job \in GoodJob /\ job.v \in Int /\ job.got \in Seq(Nat) /\ used \in Nat /\ used < MaxStr
  BY <1>1, FirstJob DEF TypeInv
<1>4. chunk \in Nat
  BY <1>3, OptionTypes DEF Chunk, Least
<1>5. got \in Seq(Nat)
  <2>1. ChunkAddr(job) \in Int
    BY <1>3 DEF ChunkAddr
  <2> QED BY <1>1, <1>4, <2>1, ReadType
<1>6. \/ nul > 0 /\ Emit(StringText(job.v, job.got \o SubSeq(got, 1, nul - 1), TRUE))
      \/ Emit(StringText(job.v, all, FALSE))
      \/ Len(all) < MaxStr /\ EmitThen(<<>>, <<[job EXCEPT !.got = all]>>)
  BY DEF string_read
<1> HIDE DEF used, chunk, got
<1>7. nul \in 0 .. Len(got)
  BY <1>5, NulIs
<1> HIDE DEF nul
<1>8. all \in Seq(Nat)
  BY <1>3, <1>5, ConcatIs
<1> HIDE DEF all
<1>9. CASE nul > 0 /\ Emit(StringText(job.v, job.got \o SubSeq(got, 1, nul - 1), TRUE))
  <2>1. SubSeq(got, 1, nul - 1) \in Seq(Nat)
    BY <1>5, <1>7, <1>9
  <2>2. job.got \o SubSeq(got, 1, nul - 1) \in Seq(Nat)
    BY <1>3, <2>1, ConcatIs
  <2>3. StringText(job.v, job.got \o SubSeq(got, 1, nul - 1), TRUE) \in Seq(Token)
    BY <1>1, <1>3, <2>2, StringTextType
  <2> QED BY <1>1, <1>2, <1>9, <2>3, EmitKeeps
<1>10. CASE Emit(StringText(job.v, all, FALSE))
  <2>1. StringText(job.v, all, FALSE) \in Seq(Token)
    BY <1>1, <1>3, <1>8, StringTextType
  <2> QED BY <1>1, <1>2, <1>10, <2>1, EmitKeeps
<1>11. CASE Len(all) < MaxStr /\ EmitThen(<<>>, <<[job EXCEPT !.got = all]>>)
  <2>1. [job EXCEPT !.got = all] \in GoodJob
    BY <1>1, <1>3, <1>8, <1>11 DEF GoodJob
  <2>2. <<[job EXCEPT !.got = all]>> \in Seq(GoodJob)
    BY <2>1
  <2> QED BY <1>1, <1>2, <1>11, <2>2, EmitThenKeeps
<1> QED BY <1>6, <1>9, <1>10, <1>11

\* print_buffer.
LEMMA BufferKeeps == TypeInv /\ print_buffer => TypeInv'
<1> SUFFICES ASSUME TypeInv, print_buffer PROVE TypeInv'
  OBVIOUS
<1> DEFINE want == Least(job.n, max_buffer)
           got  == read_mem(job.v, want)
<1>1. todo # <<>> /\ ev \in Event /\ ev' = ev /\ MemInv /\ UNCHANGED procVars
  BY DEF print_buffer, TypeInv, Doing
<1>2. MemInv'
  BY <1>1, MemKept
<1>3. job.v \in Int /\ job.n \in Nat
  BY <1>1, FirstJob DEF TypeInv
<1>4. want \in Nat
  BY <1>3, OptionTypes DEF Least
<1>5. got \in Seq(Nat)
  BY <1>1, <1>3, <1>4, ReadType
<1>6. \/ Emit(Ptr(job.v))
      \/ Emit(Quoted(<<>>, FALSE))
      \/ Emit(IF got = <<>> THEN Ptr(job.v) \o Mark("unreadable")
              ELSE Quoted(got, job.n > Len(got)))
  BY DEF print_buffer
<1> HIDE DEF got
<1>7. /\ Ptr(job.v) \in Seq(Token) /\ Ptr(job.v) \o Mark("unreadable") \in Seq(Token)
      /\ Quoted(<<>>, FALSE) \in Seq(Token) /\ Quoted(got, job.n > Len(got)) \in Seq(Token)
  <2>1. <<>> \in Seq(Nat) /\ (job.n > Len(got)) \in BOOLEAN
    OBVIOUS
  <2> QED BY <1>1, <1>3, <1>5, <2>1, TextTypes, QuotedType
<1>8. (IF got = <<>> THEN Ptr(job.v) \o Mark("unreadable")
       ELSE Quoted(got, job.n > Len(got))) \in Seq(Token)
  BY <1>7
<1> QED BY <1>1, <1>2, <1>6, <1>7, <1>8, EmitKeeps

\* A list job that is taken up again.
LEMMA AgainType ==
  ASSUME NEW j \in GoodJob, j.k # "chars", NEW l \in Nat, j.i + 1 \in 0 .. max_array
  PROVE  /\ j.k # "iov" => [j EXCEPT !.i = @ + 1] \in GoodJob
         /\ j.i + 1 <= j.n => [j EXCEPT !.i = @ + 1, !.lim = l] \in GoodJob
<1> DEFINE m == j.i + 1
           R == [k : AllKinds, v : Int, n : Nat, i : 0 .. max_array, got : Seq(Nat), lim : Nat,
                 show : BOOLEAN]
<1>1. j \in R /\ (j.k = "iov" => j.n <= max_array) /\ m \in 0 .. max_array
  BY DEF GoodJob
<1>2. /\ [j EXCEPT !.i = @ + 1] = [j EXCEPT !.i = m]
      /\ [j EXCEPT !.i = @ + 1, !.lim = l] = [j EXCEPT !.i = m, !.lim = l]
  BY <1>1
<1> HIDE DEF m
<1>3. /\ [j EXCEPT !.i = m] \in R /\ [j EXCEPT !.i = m].k = j.k
      /\ [j EXCEPT !.i = m, !.lim = l] \in R /\ [j EXCEPT !.i = m, !.lim = l].k = j.k
      /\ [j EXCEPT !.i = m, !.lim = l].i = m /\ [j EXCEPT !.i = m, !.lim = l].n = j.n
  BY <1>1
<1>4. j.k # "iov" => [j EXCEPT !.i = m] \in GoodJob
  BY <1>3 DEF GoodJob
<1>5. m <= j.n => [j EXCEPT !.i = m, !.lim = l] \in GoodJob
  BY <1>1, <1>3 DEF GoodJob
<1> QED BY <1>2, <1>4, <1>5 DEF m

\* print_strv.
LEMMA StrvKeeps == TypeInv /\ print_strv => TypeInv'
<1> SUFFICES ASSUME TypeInv, print_strv PROVE TypeInv'
  OBVIOUS
<1> DEFINE got == read_mem(job.v + job.i, 1)
           p   == ptr_value(got[1])
           js  == <<Job("str", p, 0), [job EXCEPT !.i = @ + 1]>>
<1>1. todo # <<>> /\ ev \in Event /\ ev' = ev /\ MemInv /\ UNCHANGED procVars /\ job.k = "strv"
  BY DEF print_strv, TypeInv, Doing, job
<1>2. MemInv'
  BY <1>1, MemKept
<1>3. job \in GoodJob /\ job.v \in Int /\ job.i \in 0 .. max_array /\ max_array \in Nat
  BY <1>1, FirstJob, OptionTypes DEF TypeInv
<1>4. got \in Seq(Nat)
  <2>1. job.v + job.i \in Int /\ 1 \in Nat
    BY <1>3
  <2> QED BY <1>1, <2>1, ReadType, Zenon
<1>5. \/ Emit(Ptr(job.v))
      \/ Emit(Mark("...")) \/ Emit(Mark("... unreadable")) \/ Emit(<<>>)
      \/ job.i < max_array /\ got # <<>> /\ EmitThen(<<>>, js)
  BY DEF print_strv
<1> HIDE DEF got
<1>6. CASE Emit(Ptr(job.v)) \/ Emit(Mark("...")) \/ Emit(Mark("... unreadable")) \/ Emit(<<>>)
  BY <1>1, <1>2, <1>3, <1>6, TextTypes, EmitKeeps
<1>7. CASE job.i < max_array /\ got # <<>> /\ EmitThen(<<>>, js)
  <2>1. p \in Int
    <3>1. got[1] \in Int
      BY <1>4, <1>7
    <3> QED BY <1>1, <3>1, RegisterTypes
  <2>2. "str" \in AllKinds /\ "str" # "iov"
    BY DEF AllKinds, JobKinds
  <2>3. Job("str", p, 0) \in GoodJob
    BY <2>1, <2>2, JobType
  <2>4. [job EXCEPT !.i = @ + 1] \in GoodJob
    <3>1. job.i + 1 \in 0 .. max_array
      BY <1>3, <1>7
    <3> QED BY <1>1, <1>3, <3>1, AgainType
  <2>5. js \in Seq(GoodJob)
    BY <2>3, <2>4
  <2> QED BY <1>1, <1>2, <1>7, <2>5, EmitThenKeeps
<1> QED BY <1>5, <1>6, <1>7

\* print_iov.
LEMMA IovKeeps == TypeInv /\ print_iov => TypeInv'
<1> SUFFICES ASSUME TypeInv, print_iov PROVE TypeInv'
  OBVIOUS
<1> DEFINE got   == read_mem(job.v + 2 * job.i, 2)
           base  == ptr_value(got[1])
           size  == ptr_value(got[2])
           shown == Least(size, job.lim)
           first == IF job.show THEN Job("buffer", base, shown) ELSE Job("ptr", base, 0)
           next  == [job EXCEPT !.i = @ + 1, !.lim = LimitLeft(@, shown)]
           js    == <<first, Job("word", size, 0), next>>
<1>1. todo # <<>> /\ ev \in Event /\ ev' = ev /\ MemInv /\ UNCHANGED procVars /\ job.k = "iov"
  BY DEF print_iov, TypeInv, Doing, job
<1>2. MemInv'
  BY <1>1, MemKept
<1>3. job \in GoodJob /\ job.v \in Int /\ job.i \in 0 .. max_array /\ max_array \in Nat
      /\ job.n \in Nat /\ job.n <= max_array /\ job.lim \in Nat
  BY <1>1, FirstJob, OptionTypes DEF TypeInv
<1>4. got \in Seq(Nat)
  <2>1. job.v + 2 * job.i \in Int /\ 2 \in Nat
    BY <1>3
  <2> QED BY <1>1, <2>1, ReadType, Zenon
<1>5. \/ Emit(Ptr(job.v))
      \/ Emit(Mark("... unreadable")) \/ Emit(<<>>)
      \/ job.i < job.n /\ Len(got) = 2 /\ EmitThen(<<>>, js)
  BY DEF print_iov
<1> HIDE DEF got
<1>6. CASE Emit(Ptr(job.v)) \/ Emit(Mark("... unreadable")) \/ Emit(<<>>)
  BY <1>1, <1>2, <1>3, <1>6, TextTypes, EmitKeeps
<1>7. CASE job.i < job.n /\ Len(got) = 2 /\ EmitThen(<<>>, js)
  <2>1. base \in Nat /\ size \in Nat
    <3>1. 1 \in 1 .. Len(got) /\ 2 \in 1 .. Len(got)
      BY <1>7
    <3>2. got[1] \in Nat /\ got[2] \in Nat
      BY <1>4, <3>1
    <3> QED BY <1>1, <3>2, RegisterTypes
  <2> HIDE DEF base, size
  <2>2. shown \in Nat
    BY <1>3, <2>1 DEF Least
  <2>3. LimitLeft(job.lim, shown) \in Nat
    BY <1>3, <2>2 DEF LimitLeft
  <2> HIDE DEF shown
  <2>4. /\ "buffer" \in AllKinds /\ "buffer" # "iov" /\ "ptr" \in AllKinds /\ "ptr" # "iov"
        /\ "word" \in AllKinds /\ "word" # "iov"
    BY DEF AllKinds, JobKinds, ValueKinds
  <2>5. first \in GoodJob /\ Job("word", size, 0) \in GoodJob
    BY <2>1, <2>2, <2>4, JobType
  <2>6. next \in GoodJob
    <3>1. job.i + 1 \in 0 .. max_array /\ job.i + 1 <= job.n
      BY <1>3, <1>7
    <3> QED BY <1>1, <1>3, <2>3, <3>1, AgainType
  <2> HIDE DEF first, next
  <2>7. js \in Seq(GoodJob)
    BY <2>5, <2>6
  <2> QED BY <1>1, <1>2, <1>7, <2>7, EmitThenKeeps
<1> QED BY <1>5, <1>6, <1>7

\* The printers that read an object as a whole.
LEMMA ObjectKeeps ==
  TypeInv /\ (print_timespec \/ print_struct \/ print_socket_words \/ print_sockaddr) => TypeInv'
<1> SUFFICES ASSUME TypeInv,
                    print_timespec \/ print_struct \/ print_socket_words \/ print_sockaddr
             PROVE  TypeInv'
  OBVIOUS
<1>1. todo # <<>> /\ ev \in Event /\ ev' = ev /\ MemInv /\ UNCHANGED procVars
  BY DEF print_timespec, print_struct, print_socket_words, print_sockaddr, TypeInv, Doing
<1>2. MemInv'
  BY <1>1, MemKept
<1>3. job.v \in Int /\ job.n \in Nat
  BY <1>1, FirstJob DEF TypeInv
<1>4. Ptr(job.v) \in Seq(Token)
  BY <1>1, <1>3, TextTypes
<1>5. \A n \in Nat : read_mem(job.v, n) \in Seq(Nat) /\ Len(read_mem(job.v, n)) <= n
  BY <1>1, <1>3, ReadType
<1>6. \A n \in Nat : Words(read_mem(job.v, n)) \in Seq(Token)
  <2>1. Seq(Nat) \subseteq Seq(Int)
    OBVIOUS
  <2> QED BY <1>5, <2>1, WordsType, PlainToken
<1>7. SOCKET_WORDS \in Nat /\ SOCKADDR \in Nat
  BY SpansAssumption
<1>8. CASE print_timespec
  <2> DEFINE s == IF job.v # 0 /\ Len(read_mem(job.v, 2)) = 2 THEN Words(read_mem(job.v, 2))
                  ELSE Ptr(job.v)
  <2>1. s \in Seq(Token)
    BY <1>4, <1>6
  <2>2. Emit(s)
    BY <1>8 DEF print_timespec
  <2> HIDE DEF s
  <2> QED BY <1>1, <1>2, <2>1, <2>2, EmitKeeps
<1>9. CASE print_socket_words
  <2> DEFINE s == IF Len(read_mem(job.v, SOCKET_WORDS)) = SOCKET_WORDS
                  THEN Words(read_mem(job.v, SOCKET_WORDS)) ELSE Ptr(job.v)
  <2>1. s \in Seq(Token)
    BY <1>4, <1>6, <1>7
  <2>2. Emit(s)
    BY <1>9 DEF print_socket_words
  <2> HIDE DEF s
  <2> QED BY <1>1, <1>2, <2>1, <2>2, EmitKeeps
<1>10. CASE print_sockaddr
  <2> DEFINE want == Least(job.n, SOCKADDR)
             s == IF job.v = 0 \/ ~dereference \/ want = 0 THEN Ptr(job.v)
                  ELSE SockaddrText(job.v, read_mem(job.v, want))
  <2>1. want \in Nat
    BY <1>3, <1>7 DEF Least
  <2>2. SockaddrText(job.v, read_mem(job.v, want)) \in Seq(Token)
    BY <1>1, <1>3, <1>5, <2>1, SockaddrTextType
  <2>3. s \in Seq(Token)
    BY <1>4, <2>2
  <2>4. Emit(s)
    BY <1>10 DEF print_sockaddr
  <2> HIDE DEF s
  <2> QED BY <1>1, <1>2, <2>3, <2>4, EmitKeeps
<1>11. CASE print_struct
  <2> DEFINE size == Least(job.n, Known(job.k))
             got  == read_mem(job.v, size)
             more == IF job.n > size THEN Mark("...") ELSE <<>>
             t    == StructText(job.k, got) \o more
             s    == IF size > 0 /\ Len(got) = size THEN t ELSE Ptr(job.v)
  <2>1. Known(job.k) \in Nat
    BY DEF Known
  <2>2. size \in Nat /\ size <= Known(job.k)
    BY <1>3, <2>1 DEF Least
  <2>3. got \in Seq(Nat)
    BY <1>5, <2>2
  <2>4. Emit(s)
    BY <1>11 DEF print_struct
  <2>5. more \in Seq(Token)
    BY <1>1, <1>3, TextTypes
  <2>6. s \in Seq(Token)
    <3>1. CASE size > 0 /\ Len(got) = size
      <4> HIDE DEF got, size, more
      <4>1. Len(got) \in 1 .. Known(job.k)
        BY <2>1, <2>2, <3>1
      <4>2. StructText(job.k, got) \in Seq(Token)
        BY <2>3, <4>1, StructTextType, PlainToken
      <4>3. t \in Seq(Token)
        BY <2>5, <4>2, ConcatIs
      <4> HIDE DEF t
      <4> QED BY <3>1, <4>3
    <3>2. CASE ~(size > 0 /\ Len(got) = size)
      BY <1>4, <3>2
    <3> QED BY <3>1, <3>2
  <2> HIDE DEF s
  <2> QED BY <1>1, <1>2, <2>4, <2>6, EmitKeeps
<1> QED BY <1>8, <1>9, <1>10, <1>11

\* The process.
LEMMA ProcessKeeps == TypeInv /\ Process => TypeInv'
<1> SUFFICES ASSUME TypeInv, Process PROVE TypeInv'
  OBVIOUS
<1>1. UNCHANGED <<buf, len, text, ev, todo>> /\ changes' \in 0 .. MaxChanges
  <2>1. Change
    BY DEF Process, process_write, process_unmap, process_exit, pid_reuse
  <2> QED BY <2>1, OptionTypes DEF Change, TypeInv, MemInv, outVars
<1>2. mem' \in [Addrs -> Nat] /\ mapped' \subseteq Pages /\ owner' \in {"caller", "gone", "other"}
  <2>1. CASE process_write
    BY <2>1, MemoryAssumption DEF process_write, TypeInv, MemInv
  <2>2. CASE process_unmap
    BY <2>2 DEF process_unmap, TypeInv, MemInv
  <2>3. CASE process_exit
    BY <2>3 DEF process_exit, TypeInv, MemInv
  <2>4. CASE pid_reuse
    BY <2>4, StartsAssumption DEF pid_reuse, Memory
  <2> QED BY <2>1, <2>2, <2>3, <2>4 DEF Process
<1>3. OutInv'
  BY <1>1 DEF TypeInv, OutInv, SnprintfSemantics
<1> QED BY <1>1, <1>2, <1>3 DEF TypeInv, MemInv

\* The lines on the screen.
LEMMA PutsKeeps == TypeInv /\ (puts \/ show_stack_trace) => TypeInv'
<1> SUFFICES ASSUME TypeInv, puts \/ show_stack_trace PROVE TypeInv'
  OBVIOUS
<1>1. UNCHANGED <<buf, len, text, ev>> /\ UNCHANGED procVars /\ todo # <<>> /\ todo' = Tail(todo)
  BY DEF puts, show_stack_trace, outVars, Doing
<1>2. OutInv'
  BY <1>1 DEF TypeInv, OutInv, SnprintfSemantics
<1>3. MemInv'
  BY <1>1, MemKept DEF TypeInv
<1> QED BY <1>1, <1>2, <1>3, FirstJob DEF TypeInv

\* The cursor starts with nothing printed, the process with its memory.
LEMMA InitTypeInv == HInit => TypeInv
<1> SUFFICES ASSUME NEW st \in Starts, DInit(st), todo = EventJobs(st.print_stack)
             PROVE  TypeInv
  BY DEF HInit
<1>1. ev \in Event /\ mem \in [Addrs -> Nat] /\ mapped \subseteq Pages
  BY StartsAssumption DEF DInit, Memory
<1>2. MemInv
  BY <1>1, OptionTypes DEF MemInv, DInit
<1>3. OutInv
  BY CapAssumption DEF OutInv, SnprintfSemantics, DInit, OutInit
<1> QED BY <1>1, <1>2, <1>3, EventJobsType DEF TypeInv

\* A step of the handling of an event, or of the process, keeps the types.
LEMMA NextTypeInv == TypeInv /\ [HNext]_hvars => TypeInv'
<1> SUFFICES ASSUME TypeInv, [HNext]_hvars PROVE TypeInv'
  OBVIOUS
<1>1. CASE Decode
  BY <1>1, ValueKeeps, CstringKeeps, StringReadKeeps, BufferKeeps, StrvKeeps, IovKeeps,
     ObjectKeeps DEF Decode
<1>2. CASE malloc_fails
  BY <1>2, CstringKeeps
<1>3. CASE Process
  BY <1>3, ProcessKeeps
<1>4. CASE puts \/ show_stack_trace
  BY <1>4, PutsKeeps
<1>5. CASE UNCHANGED hvars
  BY <1>5 DEF hvars, dvars, outVars, procVars, TypeInv, OutInv, SnprintfSemantics, MemInv
<1> QED BY <1>1, <1>2, <1>3, <1>4, <1>5 DEF HNext, HandleEvent

\* The invariant holds.
LEMMA TypesAlways == HSafety => []TypeInv
  BY InitTypeInv, NextTypeInv, PTL DEF HSafety

\* However the text of an event is put together, and however long it is, the line holds
\* as much of its beginning as fits and len is its length (out_vprintf).
THEOREM LineIsSnprintf == HSafety => []SnprintfSemantics
<1>1. TypeInv => SnprintfSemantics
  BY DEF TypeInv, OutInv
<1> QED BY <1>1, TypesAlways, PTL

\* No printer leaves the memory it has: print_cstring stays within its max_string
\* characters, the lists within max_array elements, the line within its size.
THEOREM DecoderTypes == HSafety => []DTypeOK
<1>1. TypeInv => DTypeOK
  <2> SUFFICES ASSUME TypeInv PROVE DTypeOK
    OBVIOUS
  <2>1. len \in Nat /\ Len(buf) <= cap
    BY CapAssumption DEF TypeInv, OutInv, SnprintfSemantics
  <2>2. ASSUME NEW i \in DOMAIN todo
        PROVE  /\ todo[i].k \in JobKinds \cup {"puts", "stack"}
               /\ todo[i].v \in Int /\ todo[i].n \in Nat /\ todo[i].lim \in Nat
               /\ todo[i].k = "chars" =>
                    Len(todo[i].got) + Chunk(Len(todo[i].got)) <= MaxStr
               /\ todo[i].i \in 0 .. max_array
    <3>1. todo[i] \in GoodJob
      BY DEF TypeInv
    <3>2. todo[i].k = "chars" => Len(todo[i].got) \in Nat /\ Len(todo[i].got) < MaxStr
      BY <3>1 DEF GoodJob
    <3>3. \A u \in Nat : u < MaxStr => u + Chunk(u) <= MaxStr
      BY OptionTypes DEF Chunk, Least
    <3> QED BY <3>1, <3>2, <3>3 DEF GoodJob, AllKinds
  <2> QED BY <2>1, <2>2 DEF TypeInv, MemInv, DTypeOK
<1> QED BY <1>1, TypesAlways, PTL
-----------------------------------------------------------------------------
(***************************************************************************)
(* The data shown.                                                         *)
(***************************************************************************)

\* Where the bytes of a text are.
BytesOf(s) == {i \in DOMAIN s : s[i].t = "byte"}

\* What a job may still show of data.
Cost(j) == IF j.k = "buffer" THEN Least(j.n, max_buffer) ELSE IF j.k = "iov" THEN j.lim ELSE 0

DataKinds  == {"buffer", "iov"}
QuietKinds == ValueKinds \cup {"head", "result", "puts", "stack"}

\* The jobs t show no strings, and at most limit bytes of data when n have been shown
\* before.  Two of them show data only while a list is printed: one of its elements is
\* followed by the rest of it.
Budget(t, n, limit) ==
  /\ n <= limit
  /\ \A a \in 1 .. Len(t) : t[a].k \in QuietKinds \cup DataKinds /\ n + Cost(t[a]) <= limit
  /\ \A a, b \in 1 .. Len(t) :
       a < b /\ t[a].k \in DataKinds /\ t[b].k \in DataKinds =>
         t[a].k = "buffer" /\ t[b].k = "iov" /\ n + Cost(t[a]) + Cost(t[b]) <= limit

\* The argument i is the only one that is followed, and data is shown of it; how much may be.
DataArg(i) ==
  /\ Args[i].kind \in {"buf_in", "buf_out", "iov_in", "iov_out"}
  /\ \A j \in DOMAIN Args \ {i} : Args[j].kind \in ValueKinds
Limit(i) ==
  IF Args[i].kind \in {"buf_in", "iov_in"} THEN max_buffer
  ELSE IF is_error THEN 0 ELSE returned

DataInv == \A i \in DOMAIN Args : DataArg(i) => Budget(todo, BytesShown, Limit(i))

\* The cost of a job is a number.
LEMMA CostType == ASSUME NEW j \in GoodJob PROVE Cost(j) \in Nat
  BY OptionTypes DEF Cost, Least, GoodJob

\* The bytes of a text can be counted.
LEMMA BytesType ==
  ASSUME NEW S, NEW s \in Seq(S)
  PROVE  /\ IsFiniteSet(BytesOf(s)) /\ Cardinality(BytesOf(s)) \in Nat
         /\ BytesOf(s) \subseteq 1 .. Len(s)
<1>1. Len(s) \in Nat /\ BytesOf(s) \subseteq 1 .. Len(s)
  BY DEF BytesOf
<1>2. IsFiniteSet(1 .. Len(s))
  BY <1>1, FS_Interval
<1>3. IsFiniteSet(BytesOf(s))
  BY <1>1, <1>2, FS_Subset
<1> QED BY <1>1, <1>3, FS_CardinalityType

\* A piece without bytes adds none.
LEMMA PlainShows ==
  ASSUME text \in Seq(Token), NEW s \in Seq(Plain), text' = text \o s
  PROVE  BytesShown' = BytesShown
<1>1. s \in Seq(Token) /\ Len(s) \in Nat /\ Len(text) \in Nat
  BY PlainToken
<1> DEFINE t == text \o s
<1>2. /\ t \in Seq(Token) /\ Len(t) = Len(text) + Len(s)
      /\ \A i \in 1 .. Len(t) : t[i] = IF i <= Len(text) THEN text[i] ELSE s[i - Len(text)]
  BY <1>1, ConcatIs
<1> HIDE DEF t
<1>3. \A i \in 1 .. Len(s) : s[i].t # "byte"
  <2>1. \A x \in Plain : x.t # "byte"
    BY DEF Plain, Tags
  <2>2. \A i \in 1 .. Len(s) : s[i] \in Plain
    OBVIOUS
  <2> QED BY <2>1, <2>2
<1>4. ASSUME NEW i \in 1 .. Len(t), ~(i <= Len(text)) PROVE t[i].t # "byte"
  <2>1. i - Len(text) \in 1 .. Len(s)
    BY <1>1, <1>2, <1>4
  <2> QED BY <1>2, <1>3, <1>4, <2>1
<1>5. DOMAIN t = 1 .. Len(t) /\ DOMAIN text = 1 .. Len(text)
  BY <1>2
<1>6. BytesOf(t) = BytesOf(text)
  BY <1>1, <1>2, <1>4, <1>5 DEF BytesOf
<1>7. BytesShown = Cardinality(BytesOf(text)) /\ BytesShown' = Cardinality(BytesOf(t))
  BY DEF BytesShown, BytesOf, t
<1> QED BY <1>6, <1>7

\* A quoted piece adds as many bytes as it has, at most.
LEMMA QuotedShows ==
  ASSUME text \in Seq(Token), NEW g \in Seq(Nat), NEW more \in BOOLEAN,
         text' = text \o Quoted(g, more)
  PROVE  BytesShown' \in Nat /\ BytesShown' <= BytesShown + Len(g)
<1> DEFINE s == Quoted(g, more)
           t == text \o s
<1>1. /\ s \in Seq(Token) /\ Len(s) = Len(g) + 2 /\ Len(g) \in Nat /\ Len(text) \in Nat
      /\ \A i \in 1 .. Len(g) + 2 : i \in {1, Len(g) + 2} => s[i].t # "byte"
  BY QuotedType
<1>2. BytesShown = Cardinality(BytesOf(text)) /\ BytesShown' = Cardinality(BytesOf(t))
  BY DEF BytesShown, BytesOf
<1> HIDE DEF s
<1>3. /\ t \in Seq(Token) /\ Len(t) = Len(text) + Len(s)
      /\ \A i \in 1 .. Len(t) : t[i] = IF i <= Len(text) THEN text[i] ELSE s[i - Len(text)]
  BY <1>1, ConcatIs
<1> HIDE DEF t
<1> DEFINE I == Len(text) + 2 .. Len(text) + 1 + Len(g)
<1>4. ASSUME NEW i \in BytesOf(t) PROVE i \in BytesOf(text) \cup I
  <2>1. i \in 1 .. Len(t) /\ t[i].t = "byte"
    BY <1>3 DEF BytesOf
  <2>2. CASE i <= Len(text)
    BY <1>1, <1>3, <2>1, <2>2 DEF BytesOf
  <2>3. CASE ~(i <= Len(text))
    <3>1. i - Len(text) \in 1 .. Len(g) + 2
      BY <1>1, <1>3, <2>1, <2>3
    <3>2. s[i - Len(text)].t = "byte"
      BY <1>3, <2>1, <2>3
    <3>3. i - Len(text) # 1 /\ i - Len(text) # Len(g) + 2
      BY <1>1, <3>1, <3>2
    <3>4. i \in Int /\ i >= Len(text) + 2 /\ i <= Len(text) + 1 + Len(g)
      <4>1. i \in Int /\ Len(text) \in Int /\ Len(g) \in Int
        BY <1>1, <2>1
      <4>2. \A x, l, n \in Int : x - l \in 1 .. n + 2 /\ x - l # 1 /\ x - l # n + 2 =>
                                x >= l + 2 /\ x <= l + 1 + n
        OBVIOUS
      <4> HIDE DEF t, s
      <4> QED BY <3>1, <3>3, <4>1, <4>2
    <3> QED BY <1>1, <3>4
  <2> QED BY <2>2, <2>3
<1>5. IsFiniteSet(I) /\ Cardinality(I) = Len(g)
  <2>1. Len(text) + 2 \in Int /\ Len(text) + 1 + Len(g) \in Int
    BY <1>1
  <2>2. IsFiniteSet(I) /\ Cardinality(I) = IF Len(text) + 2 > Len(text) + 1 + Len(g) THEN 0
                          ELSE (Len(text) + 1 + Len(g)) - (Len(text) + 2) + 1
    BY <2>1, FS_Interval
  <2> HIDE DEF I
  <2> QED BY <1>1, <2>2
<1> HIDE DEF I
<1>6. IsFiniteSet(BytesOf(text)) /\ Cardinality(BytesOf(text)) \in Nat
      /\ IsFiniteSet(BytesOf(t)) /\ Cardinality(BytesOf(t)) \in Nat
  BY <1>3, BytesType
<1>7. /\ IsFiniteSet(BytesOf(text) \cup I)
      /\ Cardinality(BytesOf(text) \cup I)
           = Cardinality(BytesOf(text)) + Cardinality(I) - Cardinality(BytesOf(text) \cap I)
  BY <1>5, <1>6, FS_Union
<1>8. Cardinality(BytesOf(text) \cap I) \in Nat
  BY <1>5, FS_Intersection, FS_CardinalityType
<1>9. Cardinality(BytesOf(t)) <= Cardinality(BytesOf(text) \cup I)
  BY <1>4, <1>7, FS_Subset
<1> QED BY <1>1, <1>2, <1>5, <1>6, <1>7, <1>8, <1>9

\* The arguments are those of the event all along.
LEMMA SameEvent ==
  ASSUME ev' = ev
  PROVE  Args' = Args /\ \A i : Limit(i)' = Limit(i)
<1>1. call_name' = call_name /\ syscall_table_lookup(ev.syscall_id)' = syscall_table_lookup(ev.syscall_id)
  BY DEF call_name, syscall_table_lookup
<1>2. FcntlArgs' = FcntlArgs
  BY DEF FcntlArgs
<1>3. \A ds : TableArgs(ds)' = TableArgs(ds)
  BY DEF TableArgs
<1>4. Args' = Args
  BY <1>1, <1>2, <1>3 DEF Args
<1>5. is_error' = is_error /\ returned' = returned
  BY DEF is_error, returned, retval
<1> QED BY <1>4, <1>5 DEF Limit

\* What a kind may be: a job is quiet or shows data.
LEMMA KindFacts ==
  /\ \A j : j.k \notin DataKinds => Cost(j) = 0
  /\ QuietKinds \cap DataKinds = {}
  /\ (QuietKinds \cup DataKinds)
       \cap {"str", "chars", "strv", "timespec", "how", "clone_args", "socket_words",
             "sockaddr"} = {}
<1>1. \A j : j.k \notin DataKinds => Cost(j) = 0
  BY DEF DataKinds, Cost
<1>2. QuietKinds \cap DataKinds = {}
  BY DEF QuietKinds, ValueKinds, DataKinds
<1>3. (QuietKinds \cup DataKinds)
       \cap {"str", "chars", "strv", "timespec", "how", "clone_args", "socket_words",
             "sockaddr"} = {}
  BY DEF QuietKinds, ValueKinds, DataKinds
<1> QED BY <1>1, <1>2, <1>3

\* A job that is done has shown no more than it may.
LEMMA BudgetTail ==
  ASSUME NEW t \in Seq(GoodJob), t # <<>>, NEW n \in Nat, NEW m \in Nat, NEW limit \in Nat,
         Budget(t, n, limit), m <= n + Cost(Head(t))
  PROVE  Budget(Tail(t), m, limit)
<1> DEFINE u == Tail(t)
<1>1. Len(t) \in Nat /\ Len(t) >= 1 /\ Len(u) = Len(t) - 1
      /\ \A a \in 1 .. Len(u) : u[a] = t[a + 1] /\ a + 1 \in 1 .. Len(t) /\ a \in Nat
  OBVIOUS
<1>2. Head(t) = t[1] /\ 1 \in 1 .. Len(t)
  BY <1>1
<1>3. \A a \in 1 .. Len(t) : t[a] \in GoodJob /\ Cost(t[a]) \in Nat
  BY CostType
<1> HIDE DEF u
<1>4. m <= limit
  BY <1>2, <1>3 DEF Budget
<1>5. ASSUME NEW a \in 1 .. Len(u)
      PROVE  u[a].k \in QuietKinds \cup DataKinds /\ m + Cost(u[a]) <= limit
  <2>1. u[a] = t[a + 1] /\ a + 1 \in 1 .. Len(t) /\ 1 < a + 1
    BY <1>1
  <2>2. u[a].k \in QuietKinds \cup DataKinds /\ n + Cost(u[a]) <= limit /\ Cost(u[a]) \in Nat
    BY <1>3, <2>1 DEF Budget
  <2>3. CASE u[a].k \notin DataKinds
    BY <1>4, <2>2, <2>3, KindFacts
  <2>4. CASE t[1].k \notin DataKinds
    <3>1. Cost(t[1]) = 0
      BY <2>4, KindFacts
    <3> QED BY <1>2, <2>2, <3>1
  <2>5. CASE u[a].k \in DataKinds /\ t[1].k \in DataKinds
    <3>1. n + Cost(t[1]) + Cost(u[a]) <= limit
      BY <1>2, <2>1, <2>5 DEF Budget
    <3> QED BY <1>2, <1>3, <2>2, <3>1
  <2> QED BY <2>3, <2>4, <2>5
<1>6. ASSUME NEW a \in 1 .. Len(u), NEW b \in 1 .. Len(u),
             a < b, u[a].k \in DataKinds, u[b].k \in DataKinds
      PROVE  u[a].k = "buffer" /\ u[b].k = "iov" /\ m + Cost(u[a]) + Cost(u[b]) <= limit
  <2>1. /\ u[a] = t[a + 1] /\ a + 1 \in 1 .. Len(t) /\ 1 < a + 1
        /\ u[b] = t[b + 1] /\ b + 1 \in 1 .. Len(t) /\ a + 1 < b + 1
    BY <1>1, <1>6
  <2>2. u[a].k = "buffer" /\ u[b].k = "iov" /\ n + Cost(u[a]) + Cost(u[b]) <= limit
        /\ Cost(u[a]) \in Nat /\ Cost(u[b]) \in Nat
    BY <1>3, <1>6, <2>1 DEF Budget
  <2>3. t[1].k \notin DataKinds
    <3>1. SUFFICES ASSUME t[1].k \in DataKinds PROVE FALSE
      OBVIOUS
    <3>2. u[a].k = "iov"
      BY <1>2, <1>6, <2>1, <3>1 DEF Budget
    <3> QED BY <2>2, <3>2
  <2>4. Cost(t[1]) = 0
    BY <2>3, KindFacts
  <2> QED BY <1>2, <2>2, <2>4
<1> QED BY <1>4, <1>5, <1>6 DEF Budget, u

\* An element of a list shows data at the expense of the rest of it.
LEMMA BudgetSplit ==
  ASSUME NEW t \in Seq(GoodJob), t # <<>>, NEW n \in Nat, NEW limit \in Nat,
         Budget(t, n, limit), Head(t).k = "iov",
         NEW x \in GoodJob, NEW y \in GoodJob, NEW z \in GoodJob,
         x.k \in {"buffer", "ptr"}, y.k = "word", z.k = "iov",
         Cost(x) + Cost(z) <= Cost(Head(t))
  PROVE  Budget(<<x, y, z>> \o Tail(t), n, limit)
<1> DEFINE u == <<x, y, z>> \o Tail(t)
<1>1. Tail(t) \in Seq(GoodJob) /\ <<x, y, z>> \in Seq(GoodJob) /\ Len(t) \in Nat /\ Len(t) >= 1
      /\ Len(Tail(t)) = Len(t) - 1 /\ Len(<<x, y, z>>) = 3
      /\ \A a \in 1 .. Len(t) - 1 : Tail(t)[a] = t[a + 1]
  OBVIOUS
<1>2. Len(u) = 3 + Len(Tail(t))
      /\ \A a \in 1 .. Len(u) : u[a] = IF a <= 3 THEN <<x, y, z>>[a] ELSE Tail(t)[a - 3]
  BY <1>1, ConcatIs
<1>3. Head(t) = t[1] /\ 1 \in 1 .. Len(t)
  BY <1>1
<1> HIDE DEF u
<1>4. /\ Len(u) = Len(t) + 2
      /\ u[1] = x /\ u[2] = y /\ u[3] = z
      /\ \A a \in 4 .. Len(u) : u[a] = t[a - 2] /\ a - 2 \in 2 .. Len(t)
  <2>1. Len(u) = Len(t) + 2
    BY <1>1, <1>2
  <2>2. u[1] = x /\ u[2] = y /\ u[3] = z
    BY <1>1, <1>2, <2>1
  <2>3. ASSUME NEW a \in 4 .. Len(u) PROVE u[a] = t[a - 2] /\ a - 2 \in 2 .. Len(t)
    <3>1. a \in 1 .. Len(u) /\ ~(a <= 3) /\ a - 3 \in 1 .. Len(t) - 1 /\ (a - 3) + 1 = a - 2
          /\ a - 2 \in 2 .. Len(t)
      BY <1>1, <2>1
    <3>2. u[a] = Tail(t)[a - 3] /\ Tail(t)[a - 3] = t[(a - 3) + 1]
      BY <1>1, <1>2, <3>1
    <3> QED BY <3>1, <3>2
  <2> QED BY <2>1, <2>2, <2>3
<1>5. Cost(x) \in Nat /\ Cost(y) = 0 /\ Cost(z) \in Nat /\ Cost(t[1]) \in Nat
      /\ n + Cost(t[1]) <= limit /\ t[1].k = "iov" /\ t[1].k \in DataKinds
  BY <1>3, CostType DEF Budget, Cost, DataKinds
<1>6. ASSUME NEW b \in 2 .. Len(t) PROVE t[b].k \in QuietKinds /\ t[b].k \notin DataKinds /\ Cost(t[b]) = 0
  <2>1. b \in 1 .. Len(t) /\ 1 < b
    OBVIOUS
  <2>2. t[b].k \notin DataKinds
    <3>1. SUFFICES ASSUME t[b].k \in DataKinds PROVE FALSE
      OBVIOUS
    <3>2. t[1].k = "buffer"
      BY <1>3, <1>5, <2>1, <3>1 DEF Budget
    <3> QED BY <1>5, <3>2
  <2> QED BY <2>1, <2>2, KindFacts DEF Budget
<1>7. /\ x.k \in QuietKinds \cup DataKinds /\ y.k \in QuietKinds /\ y.k \notin DataKinds
      /\ z.k \in DataKinds
  BY DEF QuietKinds, DataKinds, ValueKinds
<1>8. ASSUME NEW a \in 1 .. Len(u)
      PROVE  u[a].k \in QuietKinds \cup DataKinds /\ n + Cost(u[a]) <= limit
  <2>1. CASE a = 1 \/ a = 2 \/ a = 3
    BY <1>3, <1>4, <1>5, <1>7, <2>1
  <2>2. CASE a \in 4 .. Len(u)
    <3>1. u[a] = t[a - 2] /\ a - 2 \in 2 .. Len(t)
      BY <1>4, <2>2
    <3>2. u[a].k \in QuietKinds /\ Cost(u[a]) = 0
      BY <1>6, <3>1
    <3>3. n <= limit
      BY DEF Budget
    <3> QED BY <3>2, <3>3
  <2> QED BY <2>1, <2>2
<1>9. ASSUME NEW a \in 1 .. Len(u), NEW b \in 1 .. Len(u),
             a < b, u[a].k \in DataKinds, u[b].k \in DataKinds
      PROVE  u[a].k = "buffer" /\ u[b].k = "iov" /\ n + Cost(u[a]) + Cost(u[b]) <= limit
  <2>1. \A c \in 1 .. Len(u) : u[c].k \in DataKinds => c = 1 \/ c = 3
    BY <1>4, <1>6, <1>7
  <2>2. a = 1 /\ b = 3
    BY <1>9, <2>1
  <2>3. x.k = "buffer"
    BY <1>4, <1>9, <2>2 DEF DataKinds
  <2> QED BY <1>3, <1>4, <1>5, <2>2, <2>3
<1>10. n <= limit
  BY DEF Budget
<1> QED BY <1>8, <1>9, <1>10 DEF Budget, u

\* The jobs of an event: one for each argument, and the ones around them.
LEMMA EventJobsAre ==
  ASSUME ev \in Event, NEW stack, NEW p \in 1 .. Len(EventJobs(stack))
  PROVE  \/ p - 1 \in DOMAIN Args /\ EventJobs(stack)[p] = ArgJob(Args[p - 1])
         \/ EventJobs(stack)[p].k \in {"head", "result", "puts"}
         \/ EventJobs(stack)[p].k = "stack" /\ p = Len(EventJobs(stack))
<1> DEFINE h == <<Job("head", ev.syscall_id, 0)>>
           A == [i \in 1 .. Len(Args) |-> ArgJob(Args[i])]
           r == <<Job("result", ev.ret, 0)>>
           q == <<Job("puts", 0, 0)>>
           x == IF stack THEN <<Job("stack", 0, 0)>> ELSE <<>>
           J == {h[1], r[1], q[1], Job("stack", 0, 0)} \cup {A[i] : i \in 1 .. Len(Args)}
           Rest == {"head", "result", "puts"}
<1>1. Args \in Seq(ArgDesc)
  BY ArgsType
<1>2. Len(Args) \in Nat /\ DOMAIN Args = 1 .. Len(Args)
  BY <1>1
<1>3. h[1].k \in Rest /\ r[1].k \in Rest /\ q[1].k \in Rest /\ Job("stack", 0, 0).k = "stack"
  BY DEF Job
<1>4. /\ h \in Seq(J) /\ r \in Seq(J) /\ q \in Seq(J) /\ x \in Seq(J) /\ A \in Seq(J)
      /\ Len(h) = 1 /\ Len(r) = 1 /\ Len(q) = 1 /\ Len(x) <= 1 /\ Len(A) = Len(Args)
      /\ (x # <<>> => x[1].k = "stack")
      /\ \A i \in 1 .. Len(Args) : A[i] = ArgJob(Args[i])
  <2>1. /\ h \in Seq(J) /\ r \in Seq(J) /\ q \in Seq(J) /\ Len(h) = 1 /\ Len(r) = 1 /\ Len(q) = 1
    OBVIOUS
  <2>2. x \in Seq(J) /\ Len(x) <= 1 /\ (x # <<>> => x[1].k = "stack")
    <3>1. CASE stack
      <4>1. x = <<Job("stack", 0, 0)>> /\ Job("stack", 0, 0) \in J
        BY <3>1
      <4> HIDE DEF x, J
      <4> QED BY <1>3, <4>1
    <3>2. CASE ~stack
      <4>1. x = <<>>
        BY <3>2
      <4> HIDE DEF x, J
      <4> QED BY <4>1
    <3> QED BY <3>1, <3>2
  <2>3. A \in Seq(J) /\ Len(A) = Len(Args) /\ \A i \in 1 .. Len(Args) : A[i] = ArgJob(Args[i])
    BY <1>2
  <2> QED BY <2>1, <2>2, <2>3
<1>5. EventJobs(stack) = (IF ev.syscall_id < 0 THEN <<>> ELSE (h \o A) \o r) \o q \o x
  BY DEF EventJobs, Jobs
<1> HIDE DEF h, A, r, q, x, J
<1> DEFINE b == IF ev.syscall_id < 0 THEN <<>> ELSE (h \o A) \o r
<1>6. h \o A \in Seq(J) /\ Len(h \o A) = 1 + Len(Args)
      /\ \A i \in 1 .. Len(h \o A) : (h \o A)[i] = IF i <= 1 THEN h[i] ELSE A[i - 1]
  <2>1. h \o A \in Seq(J) /\ Len(h \o A) = Len(h) + Len(A)
        /\ \A i \in 1 .. Len(h \o A) : (h \o A)[i] = IF i <= Len(h) THEN h[i] ELSE A[i - Len(h)]
    <3>1. h \in Seq(J) /\ A \in Seq(J)
      BY <1>4
    <3> QED BY <3>1, ConcatIs
  <2> QED BY <1>4, <2>1
<1>7. \A i \in 1 .. Len(h \o A) : (i - 1 \in 1 .. Len(Args) /\ (h \o A)[i] = ArgJob(Args[i - 1]))
                                 \/ (h \o A)[i].k \in Rest
  BY <1>2, <1>3, <1>4, <1>6
<1> DEFINE c == h \o A
<1> HIDE DEF c
<1>8. c \o r \in Seq(J) /\ Len(c \o r) = Len(c) + 1 /\ Len(c) \in Nat
      /\ \A i \in 1 .. Len(c \o r) : (c \o r)[i] = IF i <= Len(c) THEN c[i] ELSE r[i - Len(c)]
  BY <1>4, <1>6, ConcatIs DEF c
<1>9. \A i \in 1 .. Len(b) : (i - 1 \in 1 .. Len(Args) /\ b[i] = ArgJob(Args[i - 1]))
                             \/ b[i].k \in Rest
  <2>1. CASE ev.syscall_id < 0
    BY <2>1
  <2>2. CASE ~(ev.syscall_id < 0)
    <3>1. b = c \o r
      BY <2>2 DEF c
    <3> HIDE DEF b
    <3>2. ASSUME NEW i \in 1 .. Len(b)
          PROVE  (i - 1 \in 1 .. Len(Args) /\ b[i] = ArgJob(Args[i - 1])) \/ b[i].k \in Rest
      <4>1. CASE i <= Len(c)
        <5>1. i \in 1 .. Len(c) /\ b[i] = c[i]
          BY <1>8, <3>1, <4>1
        <5> QED BY <1>7, <5>1 DEF c
      <4>2. CASE ~(i <= Len(c))
        <5>1. i - Len(c) = 1 /\ b[i] = r[i - Len(c)]
          BY <1>8, <3>1, <4>2
        <5> QED BY <1>3, <5>1
      <4> QED BY <4>1, <4>2
    <3> QED BY <3>2
  <2> QED BY <2>1, <2>2
<1>10. b \in Seq(J)
  BY <1>8 DEF c
<1> HIDE DEF b
<1>11. b \o q \in Seq(J) /\ Len(b \o q) = Len(b) + 1 /\ Len(b) \in Nat
       /\ \A i \in 1 .. Len(b \o q) : (b \o q)[i] = IF i <= Len(b) THEN b[i] ELSE q[i - Len(b)]
  <2>1. b \in Seq(J) /\ q \in Seq(J) /\ Len(q) = 1
    BY <1>4, <1>10
  <2>2. b \o q \in Seq(J) /\ Len(b \o q) = Len(b) + Len(q)
        /\ \A i \in 1 .. Len(b \o q) : (b \o q)[i] = IF i <= Len(b) THEN b[i] ELSE q[i - Len(b)]
    BY <2>1, ConcatIs
  <2> QED BY <2>1, <2>2
<1> DEFINE d == b \o q
<1>12. \A i \in 1 .. Len(d) : (i - 1 \in 1 .. Len(Args) /\ d[i] = ArgJob(Args[i - 1]))
                              \/ d[i].k \in Rest
  <2> SUFFICES ASSUME NEW i \in 1 .. Len(d)
               PROVE  (i - 1 \in 1 .. Len(Args) /\ d[i] = ArgJob(Args[i - 1])) \/ d[i].k \in Rest
    OBVIOUS
  <2> HIDE DEF d
  <2>1. CASE i <= Len(b)
    <3>1. i \in 1 .. Len(b) /\ d[i] = b[i]
      BY <1>11, <2>1 DEF d
    <3> QED BY <1>9, <3>1
  <2>2. CASE ~(i <= Len(b))
    <3>1. i - Len(b) = 1 /\ d[i] = q[i - Len(b)]
      BY <1>11, <2>2 DEF d
    <3> QED BY <1>3, <3>1
  <2> QED BY <2>1, <2>2
<1>13. d \in Seq(J) /\ Len(d) \in Nat
  BY <1>11
<1>14. EventJobs(stack) = d \o x
  BY <1>5 DEF b
<1> HIDE DEF d
<1>15. Len(d \o x) = Len(d) + Len(x) /\ Len(x) \in Nat
       /\ \A i \in 1 .. Len(d \o x) : (d \o x)[i] = IF i <= Len(d) THEN d[i] ELSE x[i - Len(d)]
  BY <1>4, <1>13, ConcatIs
<1> DEFINE t == EventJobs(stack)
<1>16. Len(t) = Len(d) + Len(x)
       /\ \A i \in 1 .. Len(t) : t[i] = IF i <= Len(d) THEN d[i] ELSE x[i - Len(d)]
  BY <1>14, <1>15
<1> HIDE DEF t
<1>17. CASE p <= Len(d)
  <2>1. p \in 1 .. Len(d) /\ t[p] = d[p]
    BY <1>13, <1>16, <1>17 DEF t
  <2> QED BY <1>2, <1>12, <2>1 DEF t
<1>18. CASE ~(p <= Len(d))
  <2>1. p - Len(d) = 1 /\ Len(x) = 1 /\ p = Len(t) /\ t[p] = x[p - Len(d)]
    BY <1>4, <1>13, <1>15, <1>16, <1>18 DEF t
  <2>2. x # <<>>
    BY <2>1
  <2> QED BY <1>4, <2>1, <2>2 DEF t
<1> QED BY <1>17, <1>18

\* The arguments that are not followed are quiet; the one that shows data has its limit.
LEMMA ArgCost ==
  ASSUME ev \in Event, NEW d \in ArgDesc
  PROVE  /\ d.kind \in ValueKinds => ArgJob(d).k \in QuietKinds
         /\ d.kind \in {"buf_in", "buf_out", "iov_in", "iov_out"} =>
              /\ ArgJob(d).k \in QuietKinds \cup DataKinds
              /\ Cost(ArgJob(d)) <= IF d.kind \in {"buf_in", "iov_in"} THEN max_buffer
                                    ELSE IF is_error THEN 0 ELSE returned
<1> DEFINE v == ev.args[d.arg]
           x == ev.args[d.aux]
<1>1. d.kind \in PairedKinds => x \in Nat
  BY DEF ArgDesc, Event
<1>2. returned \in Nat /\ max_buffer \in Nat /\ (is_error => returned = 0)
  BY RegisterTypes, OptionTypes
<1>3. CASE d.kind \in ValueKinds
  <2>1. ArgJob(d).k = d.kind
    BY <1>3 DEF ArgJob, Job, ValueKinds
  <2>2. d.kind \notin {"buf_in", "buf_out", "iov_in", "iov_out"}
    BY <1>3 DEF ValueKinds
  <2> QED BY <1>3, <2>1, <2>2 DEF QuietKinds
<1>4. CASE d.kind \notin ValueKinds
  <2>1. SUFFICES ASSUME d.kind \in {"buf_in", "buf_out", "iov_in", "iov_out"}
                 PROVE  /\ ArgJob(d).k \in QuietKinds \cup DataKinds
                        /\ Cost(ArgJob(d)) <= IF d.kind \in {"buf_in", "iov_in"} THEN max_buffer
                                              ELSE IF is_error THEN 0 ELSE returned
    BY <1>4
  <2>2. x \in Nat
    BY <1>1, <2>1 DEF PairedKinds
  <2>3. CASE d.kind = "buf_in"
    <3>1. ArgJob(d).k = "buffer" /\ ArgJob(d).n = x
      BY <2>3 DEF ArgJob, Job, Count
    <3> QED BY <1>2, <2>2, <2>3, <3>1 DEF Cost, Least, DataKinds
  <2>4. CASE d.kind = "buf_out" /\ is_error
    <3>1. ArgJob(d).k = "ptr"
      BY <2>4 DEF ArgJob, Job
    <3> QED BY <2>4, <3>1 DEF Cost, QuietKinds, ValueKinds
  <2>5. CASE d.kind = "buf_out" /\ ~is_error
    <3>1. ArgJob(d).k = "buffer" /\ ArgJob(d).n = Least(returned, x)
      BY <2>5 DEF ArgJob, Job, Count
    <3> QED BY <1>2, <2>2, <2>5, <3>1 DEF Cost, Least, DataKinds
  <2>6. CASE d.kind = "iov_in"
    <3>1. ArgJob(d).k = "iov" /\ ArgJob(d).lim = max_buffer
      BY <2>6 DEF ArgJob, Job
    <3> QED BY <1>2, <2>6, <3>1 DEF Cost, DataKinds
  <2>7. CASE d.kind = "iov_out"
    <3>1. ArgJob(d).k = "iov" /\ ArgJob(d).lim = returned
      BY <2>7 DEF ArgJob, Job
    <3> QED BY <1>2, <2>7, <3>1 DEF Cost, DataKinds
  <2> QED BY <2>1, <2>3, <2>4, <2>5, <2>6, <2>7
<1> QED BY <1>3, <1>4

\* The number of bytes shown, and the limit, are numbers.
LEMMA ShownType == TypeInv => BytesShown \in Nat /\ \A i : Limit(i) \in Nat
<1> SUFFICES ASSUME TypeInv PROVE BytesShown \in Nat /\ \A i : Limit(i) \in Nat
  OBVIOUS
<1>1. BytesShown = Cardinality(BytesOf(text))
  BY DEF BytesShown, BytesOf
<1>2. text \in Seq(Token)
  BY DEF TypeInv, OutInv
<1>3. BytesShown \in Nat
  BY <1>1, <1>2, BytesType
<1>4. \A i : Limit(i) \in Nat
  BY RegisterTypes, OptionTypes DEF Limit, TypeInv
<1> QED BY <1>3, <1>4

\* The jobs of an event show no more than its arguments allow.
LEMMA InitDataInv == HInit => DataInv
<1> SUFFICES ASSUME HInit, NEW i \in DOMAIN Args, DataArg(i)
             PROVE  Budget(todo, BytesShown, Limit(i))
  BY DEF DataInv
<1>1. TypeInv
  BY InitTypeInv
<1>2. PICK stack : todo = EventJobs(stack)
  BY DEF HInit
<1>3. BytesShown = 0
  <2>1. text = <<>>
    BY DEF HInit, DInit, OutInit
  <2>2. {j \in DOMAIN text : text[j].t = "byte"} = {}
    BY <2>1
  <2> QED BY <2>2, FS_EmptySet DEF BytesShown
<1>4. Args \in Seq(ArgDesc) /\ ev \in Event
  BY <1>1, ArgsType DEF TypeInv
<1>5. Limit(i) \in Nat
  BY <1>1, ShownType
<1>6. ASSUME NEW p \in 1 .. Len(todo)
      PROVE  /\ todo[p].k \in QuietKinds \cup DataKinds
             /\ Cost(todo[p]) <= Limit(i)
             /\ todo[p].k \in DataKinds => p = i + 1
  <2>1. CASE todo[p].k \in {"head", "result", "puts", "stack"}
    <3>1. todo[p].k \in QuietKinds /\ todo[p].k \notin DataKinds
      BY <2>1 DEF QuietKinds, DataKinds
    <3> QED BY <1>5, <3>1, KindFacts
  <2>2. CASE p - 1 \in DOMAIN Args /\ todo[p] = ArgJob(Args[p - 1])
    <3>1. Args[p - 1] \in ArgDesc /\ Args[i] \in ArgDesc
      BY <1>4, <2>2
    <3>2. CASE p - 1 = i
      <4>1. Args[i].kind \in {"buf_in", "buf_out", "iov_in", "iov_out"}
        BY DEF DataArg
      <4>2. todo[p].k \in QuietKinds \cup DataKinds /\ Cost(todo[p]) <= Limit(i)
        BY <1>4, <2>2, <3>1, <3>2, <4>1, ArgCost DEF Limit
      <4> QED BY <3>2, <4>2
    <3>3. CASE p - 1 # i
      <4>1. Args[p - 1].kind \in ValueKinds
        BY <2>2, <3>3 DEF DataArg
      <4>2. todo[p].k \in QuietKinds
        BY <1>4, <2>2, <3>1, <4>1, ArgCost
      <4>3. todo[p].k \notin DataKinds
        BY <4>2, KindFacts
      <4> QED BY <1>5, <4>2, <4>3, KindFacts
    <3> QED BY <3>2, <3>3
  <2> QED BY <1>2, <1>4, <2>1, <2>2, EventJobsAre
<1>7. \A p \in 1 .. Len(todo) : Cost(todo[p]) \in Nat
  BY <1>1, CostType DEF TypeInv
<1>8. \A p, q \in 1 .. Len(todo) :
        p < q /\ todo[p].k \in DataKinds /\ todo[q].k \in DataKinds => FALSE
  BY <1>6
<1> QED BY <1>3, <1>5, <1>6, <1>7, <1>8 DEF Budget

\* A job that is done keeps the budget.
LEMMA EmitBudget ==
  ASSUME TypeInv, todo # <<>>, todo' = Tail(todo), NEW limit \in Nat,
         Budget(todo, BytesShown, limit),
         BytesShown' \in Nat, BytesShown' <= BytesShown + Cost(job)
  PROVE  Budget(todo, BytesShown, limit)'
<1>1. todo \in Seq(GoodJob) /\ BytesShown \in Nat
  BY ShownType DEF TypeInv
<1>2. Budget(Tail(todo), BytesShown', limit)
  BY <1>1, BudgetTail DEF job
<1> QED BY <1>2 DEF Budget

\* A job that prints no bytes keeps it too.
LEMMA PlainBudget ==
  ASSUME TypeInv, todo # <<>>, NEW s \in Seq(Plain), Emit(s), NEW limit \in Nat,
         Budget(todo, BytesShown, limit)
  PROVE  Budget(todo, BytesShown, limit)'
<1>1. text \in Seq(Token) /\ text' = text \o s /\ todo' = Tail(todo)
  BY DEF TypeInv, OutInv, Emit, out_printf
<1>2. BytesShown' = BytesShown /\ BytesShown \in Nat
  BY <1>1, PlainShows, ShownType
<1>3. Cost(job) \in Nat
  BY FirstJob, CostType DEF TypeInv
<1>4. BytesShown' \in Nat /\ BytesShown' <= BytesShown + Cost(job)
  BY <1>2, <1>3
<1> HIDE DEF BytesShown, Budget
<1> QED BY <1>1, <1>4, EmitBudget

\* Addresses and marks are plain.
LEMMA PlainTexts ==
  ASSUME ev \in Event, NEW v \in Int
  PROVE  /\ Ptr(v) \in Seq(Plain) /\ Ptr(v) \o Mark("unreadable") \in Seq(Plain)
         /\ Mark("... unreadable") \in Seq(Plain) /\ <<>> \in Seq(Plain)
         /\ <<Tok("call", v)>> \in Seq(Plain)
<1>1. {"unreadable", "... unreadable"} \subseteq Tags
  BY DEF Tags
<1>2. Ptr(v) \in Seq(Plain) /\ Mark("unreadable") \in Seq(Plain)
      /\ Mark("... unreadable") \in Seq(Plain)
  BY <1>1, PtrMarkType
<1>3. ASSUME NEW a \in Seq(Plain), NEW b \in Seq(Plain) PROVE a \o b \in Seq(Plain)
  BY ConcatIs
<1>4. Ptr(v) \o Mark("unreadable") \in Seq(Plain)
  BY <1>2, <1>3, Zenon
<1>5. Tok("call", v) \in Plain
  BY DEF Tok, Plain, Tags
<1>6. <<>> \in Seq(Plain) /\ <<Tok("call", v)>> \in Seq(Plain)
  BY <1>5, OneToken
<1> QED BY <1>2, <1>4, <1>6

\* print_value shows no data.
LEMMA ValueBudget ==
  ASSUME TypeInv, print_value, NEW limit \in Nat, Budget(todo, BytesShown, limit)
  PROVE  Budget(todo, BytesShown, limit)'
<1>1. todo # <<>> /\ ev \in Event
  BY DEF print_value, TypeInv
<1>2. job.v \in Int /\ job.n \in Int
  BY <1>1, FirstJob DEF TypeInv
<1>3. \E s \in Seq(Plain) : Emit(s)
  <2>1. CASE Emit(<<Tok("call", job.v)>>)
    BY <1>1, <1>2, <2>1, PlainTexts, Zenon
  <2>2. CASE job.k \in ValueKinds /\ Emit(ValueText(job.k, job.v, job.n))
    BY <1>1, <1>2, <2>2, ValueTextType, Zenon
  <2>3. CASE Emit(ResultText)
    BY <1>1, <2>3, ResultType, Zenon
  <2> QED BY <2>1, <2>2, <2>3 DEF print_value
<1> QED BY <1>1, <1>3, PlainBudget

\* print_buffer shows as much as it may, malloc_fails nothing.
LEMMA BufferBudget ==
  ASSUME TypeInv, print_buffer \/ (malloc_fails /\ todo # <<>>), NEW limit \in Nat,
         Budget(todo, BytesShown, limit)
  PROVE  Budget(todo, BytesShown, limit)'
<1> DEFINE want == Least(job.n, max_buffer)
           got  == read_mem(job.v, want)
           more == job.n > Len(got)
<1>1. todo # <<>> /\ ev \in Event /\ MemInv
  BY DEF print_buffer, TypeInv, Doing
<1>2. job.v \in Int /\ job.n \in Nat /\ job \in GoodJob
  BY <1>1, FirstJob DEF TypeInv
<1>3. want \in Nat
  BY <1>2, OptionTypes DEF Least
<1>4. got \in Seq(Nat) /\ Len(got) <= want /\ Len(got) \in Nat
  <2> HIDE DEF want
  <2>1. got \in Seq(Nat) /\ Len(got) <= want
    BY <1>1, <1>2, <1>3, ReadType, Zenon
  <2> HIDE DEF got
  <2> QED BY <2>1
<1>5. \/ \E s \in Seq(Plain) : Emit(s)
      \/ /\ job.k = "buffer"
         /\ \E g \in Seq(Nat), m \in BOOLEAN : Len(g) <= want /\ Emit(Quoted(g, m))
  <2>1. Ptr(job.v) \in Seq(Plain) /\ Ptr(job.v) \o Mark("unreadable") \in Seq(Plain)
    BY <1>1, <1>2, PlainTexts
  <2>2. /\ <<>> \in Seq(Nat) /\ Len(<<>>) <= want /\ FALSE \in BOOLEAN /\ more \in BOOLEAN
    BY <1>3
  <2>3. CASE malloc_fails \/ (print_buffer /\ Emit(Ptr(job.v)))
    <3>1. Emit(Ptr(job.v))
      BY <2>3 DEF malloc_fails
    <3> QED BY <2>1, <3>1, Zenon
  <2>4. CASE print_buffer /\ Emit(Quoted(<<>>, FALSE))
    <3>1. job.k = "buffer"
      BY <2>4 DEF print_buffer, Doing, job
    <3> QED BY <2>2, <2>4, <3>1
  <2>5. CASE print_buffer /\ Emit(IF got = <<>> THEN Ptr(job.v) \o Mark("unreadable")
                                  ELSE Quoted(got, more))
    <3>1. job.k = "buffer"
      BY <2>5 DEF print_buffer, Doing, job
    <3> HIDE DEF got, more, want
    <3>2. CASE got = <<>>
      <4>1. Emit(Ptr(job.v) \o Mark("unreadable"))
        BY <2>5, <3>2
      <4> QED BY <2>1, <4>1, Zenon
    <3>3. CASE got # <<>>
      <4>1. Emit(Quoted(got, more))
        BY <2>5, <3>3
      <4> QED BY <1>4, <2>2, <3>1, <4>1, Zenon
    <3> QED BY <3>2, <3>3
  <2> QED BY <2>3, <2>4, <2>5 DEF print_buffer
<1> HIDE DEF want, got, more
<1>6. CASE \E s \in Seq(Plain) : Emit(s)
  BY <1>1, <1>6, PlainBudget
<1>7. CASE /\ job.k = "buffer"
           /\ \E g \in Seq(Nat), m \in BOOLEAN : Len(g) <= want /\ Emit(Quoted(g, m))
  <2>1. PICK g \in Seq(Nat), m \in BOOLEAN : Len(g) <= want /\ Emit(Quoted(g, m))
    BY <1>7
  <2>2. text \in Seq(Token) /\ text' = text \o Quoted(g, m) /\ todo' = Tail(todo)
    BY <2>1 DEF TypeInv, OutInv, Emit, out_printf
  <2>3. BytesShown' \in Nat /\ BytesShown' <= BytesShown + Len(g)
    BY <2>2, QuotedShows
  <2>4. Cost(job) = want
    BY <1>7 DEF Cost, want
  <2>5. BytesShown \in Nat
    BY ShownType
  <2> HIDE DEF BytesShown, Budget
  <2>6. BytesShown' \in Nat /\ BytesShown' <= BytesShown + Cost(job)
    <3>1. Len(g) \in Nat
      OBVIOUS
    <3> QED BY <1>3, <2>1, <2>3, <2>4, <2>5, <3>1
  <2> QED BY <1>1, <2>2, <2>6, EmitBudget
<1> QED BY <1>5, <1>6, <1>7

\* print_iov: what an element may show comes off what the rest may.
LEMMA IovBudget ==
  ASSUME TypeInv, print_iov, NEW limit \in Nat, Budget(todo, BytesShown, limit)
  PROVE  Budget(todo, BytesShown, limit)'
<1> DEFINE got   == read_mem(job.v + 2 * job.i, 2)
           base  == ptr_value(got[1])
           size  == ptr_value(got[2])
           shown == Least(size, job.lim)
           first == IF job.show THEN Job("buffer", base, shown) ELSE Job("ptr", base, 0)
           word  == Job("word", size, 0)
           next  == [job EXCEPT !.i = @ + 1, !.lim = LimitLeft(@, shown)]
<1>1. todo # <<>> /\ ev \in Event /\ MemInv /\ job.k = "iov" /\ todo \in Seq(GoodJob)
  BY DEF print_iov, TypeInv, Doing, job
<1>2. job \in GoodJob /\ job.v \in Int /\ job.i \in 0 .. max_array /\ max_array \in Nat
      /\ job.n \in Nat /\ job.n <= max_array /\ job.lim \in Nat
  BY <1>1, FirstJob, OptionTypes DEF TypeInv
<1>3. \/ Emit(Ptr(job.v)) \/ Emit(Mark("... unreadable")) \/ Emit(<<>>)
      \/ job.i < job.n /\ Len(got) = 2 /\ EmitThen(<<>>, <<first, word, next>>)
  BY DEF print_iov
<1>4. CASE Emit(Ptr(job.v)) \/ Emit(Mark("... unreadable")) \/ Emit(<<>>)
  <2>1. \E s \in Seq(Plain) : Emit(s)
    BY <1>1, <1>2, <1>4, PlainTexts, Zenon
  <2> QED BY <1>1, <2>1, PlainBudget
<1>5. CASE job.i < job.n /\ Len(got) = 2 /\ EmitThen(<<>>, <<first, word, next>>)
  <2>1. got \in Seq(Nat)
    <3>1. job.v + 2 * job.i \in Int /\ 2 \in Nat
      BY <1>2
    <3> QED BY <1>1, <3>1, ReadType, Zenon
  <2> HIDE DEF got
  <2>2. base \in Nat /\ size \in Nat
    <3>1. 1 \in 1 .. Len(got) /\ 2 \in 1 .. Len(got)
      BY <1>5
    <3>2. got[1] \in Nat /\ got[2] \in Nat
      BY <2>1, <3>1
    <3> QED BY <1>1, <3>2, RegisterTypes
  <2> HIDE DEF base, size
  <2>3. shown \in Nat /\ shown <= job.lim
    BY <1>2, <2>2 DEF Least
  <2>4. LimitLeft(job.lim, shown) \in Nat /\ shown + LimitLeft(job.lim, shown) <= job.lim
    BY <1>2, <2>3 DEF LimitLeft
  <2> HIDE DEF shown
  <2>5. /\ "buffer" \in AllKinds /\ "buffer" # "iov" /\ "ptr" \in AllKinds /\ "ptr" # "iov"
        /\ "word" \in AllKinds /\ "word" # "iov"
    BY DEF AllKinds, JobKinds, ValueKinds
  <2>6. first \in GoodJob /\ word \in GoodJob
    BY <2>2, <2>3, <2>5, JobType
  <2>7. next \in GoodJob
    <3>1. job.i + 1 \in 0 .. max_array /\ job.i + 1 <= job.n
      BY <1>2, <1>5
    <3> QED BY <1>1, <1>2, <2>4, <3>1, AgainType
  <2>8. next.k = "iov" /\ next.lim = LimitLeft(job.lim, shown)
    BY <1>1, <1>2 DEF GoodJob
  <2>9. first.k \in {"buffer", "ptr"} /\ Cost(first) <= shown /\ Cost(first) \in Nat /\ word.k = "word"
    <3>1. CASE job.show
      BY <2>3, <3>1, OptionTypes DEF Job, Cost, Least
    <3>2. CASE ~job.show
      BY <2>3, <3>2 DEF Job, Cost
    <3> QED BY <3>1, <3>2 DEF Job
  <2>10. Cost(next) = LimitLeft(job.lim, shown) /\ Cost(job) = job.lim
    BY <1>1, <2>8 DEF Cost
  <2> HIDE DEF first, word, next
  <2>11. Cost(first) + Cost(next) <= Cost(job)
    BY <1>2, <2>3, <2>4, <2>9, <2>10
  <2>12. BytesShown \in Nat
    BY ShownType
  <2>13. Budget(<<first, word, next>> \o Tail(todo), BytesShown, limit)
    <3> HIDE DEF BytesShown, Budget
    <3> QED BY <1>1, <2>6, <2>7, <2>8, <2>9, <2>11, <2>12, BudgetSplit DEF job
  <2>14. todo' = <<first, word, next>> \o Tail(todo) /\ text' = text \o <<>>
    BY <1>5 DEF EmitThen, out_printf
  <2>15. BytesShown' = BytesShown
    <3>1. text \in Seq(Token) /\ <<>> \in Seq(Plain)
      BY DEF TypeInv, OutInv
    <3> QED BY <2>14, <3>1, PlainShows, Zenon
  <2> QED BY <2>13, <2>14, <2>15 DEF Budget
<1> QED BY <1>3, <1>4, <1>5

\* The event stays the same while it is handled.
LEMMA EventKept == ASSUME [HNext]_hvars PROVE ev' = ev
<1>1. CASE UNCHANGED hvars
  BY <1>1 DEF hvars, dvars
<1>2. CASE HandleEvent
  BY <1>2 DEF HandleEvent, Decode, print_value, print_cstring, string_read, print_buffer,
     print_strv, print_iov, print_timespec, print_struct, print_socket_words, print_sockaddr,
     puts, show_stack_trace, NoRead
<1>3. CASE malloc_fails \/ Process
  BY <1>3 DEF malloc_fails, Process, process_write, process_unmap, process_exit, pid_reuse,
     Change
<1> QED BY <1>1, <1>2, <1>3 DEF HNext

\* A step keeps the budget.
LEMMA NextDataInv == TypeInv /\ DataInv /\ [HNext]_hvars => DataInv'
<1> SUFFICES ASSUME TypeInv, DataInv, [HNext]_hvars PROVE DataInv'
  OBVIOUS
<1>1. ev' = ev
  BY EventKept
<1>2. Args' = Args /\ \A i : Limit(i)' = Limit(i)
  BY <1>1, SameEvent
<1>3. \A i : DataArg(i)' = DataArg(i)
  BY <1>2 DEF DataArg
<1>4. ASSUME NEW i \in DOMAIN Args, DataArg(i)
      PROVE  Budget(todo, BytesShown, Limit(i))'
  <2> DEFINE limit == Limit(i)
  <2>1. limit \in Nat /\ Budget(todo, BytesShown, limit) /\ limit' = limit
    BY <1>2, <1>4, ShownType DEF DataInv
  <2>2. todo # <<>> =>
          job.k \notin {"str", "chars", "strv", "timespec", "how", "clone_args", "socket_words",
                        "sockaddr"}
    <3> SUFFICES ASSUME todo # <<>> PROVE job.k \in QuietKinds \cup DataKinds
      BY KindFacts
    <3>1. 1 \in 1 .. Len(todo) /\ job = todo[1]
      BY DEF job, TypeInv
    <3> QED BY <2>1, <3>1 DEF Budget
  <2>3. SUFFICES ASSUME NEW l \in Nat, l = limit, Budget(todo, BytesShown, l)
                 PROVE  Budget(todo, BytesShown, l)'
    BY <2>1 DEF Budget
  <2>4. CASE print_value
    BY <2>3, <2>4, ValueBudget
  <2>5. CASE print_buffer \/ malloc_fails
    <3>1. todo # <<>>
      BY <2>5 DEF print_buffer, malloc_fails, Doing
    <3> QED BY <2>3, <2>5, <3>1, BufferBudget
  <2>6. CASE print_iov
    BY <2>3, <2>6, IovBudget
  <2>7. CASE print_cstring \/ string_read \/ print_strv \/ print_timespec \/ print_struct
             \/ print_socket_words \/ print_sockaddr
    BY <2>2, <2>7 DEF print_cstring, string_read, print_strv, print_timespec, print_struct,
       print_socket_words, print_sockaddr, Doing, job
  <2>8. CASE Process \/ UNCHANGED hvars
    <3>1. text' = text /\ todo' = todo
      BY <2>8 DEF Process, process_write, process_unmap, process_exit, pid_reuse, Change,
         hvars, dvars, outVars
    <3> QED BY <2>3, <3>1 DEF Budget, BytesShown
  <2>9. CASE puts \/ show_stack_trace
    <3>1. text' = text /\ todo # <<>> /\ todo' = Tail(todo)
      BY <2>9 DEF puts, show_stack_trace, outVars, Doing
    <3>2. BytesShown' = BytesShown /\ BytesShown \in Nat
      BY <3>1, ShownType DEF BytesShown
    <3>3. Cost(job) \in Nat
      BY <3>1, FirstJob, CostType DEF TypeInv
    <3>4. BytesShown' \in Nat /\ BytesShown' <= BytesShown + Cost(job)
      <4> HIDE DEF BytesShown
      <4> QED BY <3>2, <3>3
    <3> QED BY <2>3, <3>1, <3>4, EmitBudget
  <2> QED BY <2>4, <2>5, <2>6, <2>7, <2>8, <2>9 DEF HNext, HandleEvent, Decode
<1> QED BY <1>2, <1>3, <1>4 DEF DataInv

\* However the process changes its vectors and buffers while they are printed, no more
\* bytes are shown of them than the call has moved, or than max_buffer (print_buffer,
\* print_iov).
THEOREM DataIsLimited == HSafety => []DataLimit
<1>1. TypeInv /\ DataInv => DataLimit
  <2> SUFFICES ASSUME TypeInv, DataInv, NEW i \in DOMAIN Args,
                      \A j \in DOMAIN Args \ {i} : Args[j].kind \in ValueKinds
               PROVE  /\ Args[i].kind \in {"buf_out", "iov_out"} =>
                           BytesShown <= IF is_error THEN 0 ELSE returned
                      /\ Args[i].kind \in {"buf_in", "iov_in"} => BytesShown <= max_buffer
    BY DEF DataLimit
  <2>1. Args[i].kind \in {"buf_in", "buf_out", "iov_in", "iov_out"} => BytesShown <= Limit(i)
    BY DEF DataInv, DataArg, Budget
  <2> QED BY <2>1 DEF Limit
<1> QED BY <1>1, InitDataInv, NextDataInv, TypesAlways, PTL DEF HSafety

-----------------------------------------------------------------------------
(***************************************************************************)
(* The stack.                                                              *)
(***************************************************************************)

\* f has what FlattenSeq has put together after each of the sequences.
Flattens(f, S, seqs) ==
  /\ f \in [0 .. Len(seqs) -> Seq(S)] /\ f[0] = <<>>
  /\ \A i \in 1 .. Len(seqs) : f[i] = f[i - 1] \o seqs[i]

\* FlattenSeq puts the sequences together one by one.
LEMMA FlattenIs ==
  ASSUME NEW S, NEW seqs \in Seq(Seq(S))
  PROVE  \E f : Flattens(f, S, seqs) /\ FlattenSeq(seqs) = f[Len(seqs)]
<1> DEFINE N == Len(seqs)
           A == Seq(S)
           step == [i \in 1 .. N |-> [x \in A |-> x \o seqs[i]]]
           F(g) == [i \in 1 .. N |-> IF i = 1 THEN seqs[i] ELSE g[i - 1] \o seqs[i]]
<1>1. N \in Nat /\ <<>> \in A /\ \A i \in 1 .. N : seqs[i] \in A
  OBVIOUS
<1>2. step \in [1 .. N -> [A -> A]]
  <2>1. ASSUME NEW x \in A, NEW y \in A PROVE x \o y \in A
    BY ConcatIs
  <2> HIDE DEF A
  <2> QED BY <1>1, <2>1
<1>3. PICK f : IsIteration(f, A, <<>>, N, step)
  <2> HIDE DEF step
  <2> QED BY <1>1, <1>2, IterationExists
<1>4. \A i \in 1 .. N : f[i] = f[i - 1] \o seqs[i]
  <2> SUFFICES ASSUME NEW i \in 1 .. N PROVE f[i] = f[i - 1] \o seqs[i]
    OBVIOUS
  <2> HIDE DEF A, step
  <2>1. i - 1 \in 0 .. N /\ f \in [0 .. N -> A]
    BY <1>1, <1>3 DEF IsIteration
  <2>2. f[i - 1] \in A
    BY <2>1
  <2>3. f[i] = step[i][f[i - 1]]
    BY <1>3 DEF IsIteration
  <2> QED BY <2>2, <2>3 DEF step
<1>5. Flattens(f, S, seqs)
  BY <1>3, <1>4 DEF Flattens, IsIteration
<1>6. CASE N = 0
  BY <1>5, <1>6 DEF Flattens, FlattenSeq
<1>7. CASE N # 0
  <2> DEFINE g == [i \in 1 .. N |-> f[i]]
             h == CHOOSE h : h = F(h)
  <2>1. f[1] = seqs[1]
    <3>1. f[1] = <<>> \o seqs[1]
      <4>1. 1 \in 1 .. N /\ 1 - 1 = 0 /\ f[0] = <<>>
        BY <1>1, <1>5, <1>7 DEF Flattens
      <4>2. f[1] = f[1 - 1] \o seqs[1]
        BY <1>4, <4>1
      <4> QED BY <4>1, <4>2
    <3>2. seqs[1] \in Seq(S)
      BY <1>1, <1>7
    <3> QED BY <3>1, <3>2, ConcatEmptySeq
  <2>2. g = F(g)
    <3>1. ASSUME NEW i \in 1 .. N
          PROVE  f[i] = IF i = 1 THEN seqs[i] ELSE g[i - 1] \o seqs[i]
      <4>1. CASE i = 1
        BY <2>1, <4>1
      <4>2. CASE i # 1
        <5>1. i - 1 \in 1 .. N
          BY <1>1, <4>2
        <5>2. g[i - 1] = f[i - 1]
          BY <5>1
        <5> HIDE DEF g
        <5> QED BY <1>4, <4>2, <5>2
      <4> QED BY <4>1, <4>2
    <3> QED BY <3>1
  <2> HIDE DEF g
  <2>3. h = F(h)
    BY <2>2, Zenon
  <2> HIDE DEF h
  <2>4. \A n \in 0 .. N : n \in {m \in 0 .. N : m > 0 => h[m] = f[m]}
    <3> DEFINE T == {m \in 0 .. N : m > 0 => h[m] = f[m]}
    <3>1. 0 \in T
      BY <1>1
    <3>2. ASSUME NEW n \in 0 .. N - 1, n \in T PROVE n + 1 \in T
      <4>1. CASE n = 0
        BY <1>1, <1>7, <2>1, <2>3, <4>1
      <4>2. CASE n # 0
        <5>1. n + 1 \in 1 .. N /\ n + 1 # 1 /\ (n + 1) - 1 = n /\ h[n] = f[n]
          BY <1>1, <3>2, <4>2
        <5>2. h[n + 1] = h[(n + 1) - 1] \o seqs[n + 1]
          BY <2>3, <5>1
        <5>3. f[n + 1] = f[(n + 1) - 1] \o seqs[n + 1]
          BY <1>4, <5>1
        <5>4. h[n + 1] = f[n + 1]
          BY <5>1, <5>2, <5>3
        <5> QED BY <1>1, <5>4
      <4> QED BY <4>1, <4>2
    <3> HIDE DEF T
    <3>3. \A n \in 0 .. N : n \in T
      BY <1>1, <3>1, <3>2, SetInduction
    <3> QED BY <3>3 DEF T
  <2>5. FlattenSeq(seqs) = h[N]
    BY <1>7 DEF FlattenSeq, h
  <2>6. N \in 0 .. N /\ N > 0
    BY <1>1, <1>7
  <2>7. h[N] = f[N]
    BY <2>4, <2>6
  <2> QED BY <1>5, <2>5, <2>7
<1> QED BY <1>6, <1>7

\* The lines on the screen.
ALine == [k : {"line", "stack", "empty", "raw", "frame", "nosymbol", "inlined"},
          addr : Nat, name : Names \cup {None}]

\* The first n addresses of the stack but 0 have their lines in s, in order.
InOrder(s, n) ==
  /\ Cardinality(OwnLines(s, Len(s))) = Cardinality(Places(n))
  /\ \A i \in OwnLines(s, Len(s)) :
       \E m \in Places(n) :
         /\ s[i].addr = ev.stack[m]
         /\ Cardinality(OwnLines(s, i)) = Cardinality(Places(m))

\* The lines of s without an address are where they belong.
Below(s) ==
  \A i \in DOMAIN s :
    s[i].k = "inlined" =>
      \E j \in 1 .. i :
        /\ InlinedAt(s, j, i)
        /\ \A k \in j + 1 .. i : s[k].k = "inlined"

\* The stack has symbols in both processes.
SymbolsInv ==
  \A p \in {"caller", "other"} : p \in DOMAIN Symbols /\
    \A i \in DOMAIN ev.stack :
      Symbols[p][ev.stack[i]] \in [name : Names \cup {None}, inlined : Seq(Names)]

\* The lines of one's own are finitely many.
LEMMA OwnFinite ==
  ASSUME NEW s, NEW n \in Nat
  PROVE  IsFiniteSet(OwnLines(s, n)) /\ Cardinality(OwnLines(s, n)) \in Nat
<1>1. IsFiniteSet(1 .. n) /\ OwnLines(s, n) \subseteq 1 .. n
  BY FS_Interval DEF OwnLines
<1> QED BY <1>1, FS_Subset, FS_CardinalityType

\* What has been printed stays as it is when more is printed.
LEMMA OwnPrefix ==
  ASSUME NEW S, NEW a \in Seq(S), NEW b \in Seq(S), NEW n \in 0 .. Len(a)
  PROVE  OwnLines(a \o b, n) = OwnLines(a, n)
<1>1. \A i \in 1 .. n : (a \o b)[i] = a[i]
  OBVIOUS
<1> QED BY <1>1 DEF OwnLines

\* The places of addresses are finitely many; the next one counts if it is not 0.
LEMMA PlacesFinite ==
  ASSUME NEW n \in Nat
  PROVE  /\ IsFiniteSet(Places(n)) /\ Cardinality(Places(n)) \in Nat
         /\ n + 1 \notin Places(n)
         /\ Places(n + 1) = Places(n) \cup (IF ev.stack[n + 1] # 0 THEN {n + 1} ELSE {})
<1>1. IsFiniteSet(1 .. n) /\ Places(n) \subseteq 1 .. n
  BY FS_Interval DEF Places
<1>2. IsFiniteSet(Places(n)) /\ Cardinality(Places(n)) \in Nat
  BY <1>1, FS_Subset, FS_CardinalityType
<1>3. n + 1 \notin 1 .. n /\ 1 .. n + 1 = (1 .. n) \cup {n + 1}
  OBVIOUS
<1>4. n + 1 \notin Places(n)
  BY <1>1, <1>3
<1>5. Places(n + 1) = Places(n) \cup (IF ev.stack[n + 1] # 0 THEN {n + 1} ELSE {})
  BY <1>3, Zenon DEF Places
<1> QED BY <1>2, <1>4, <1>5

\* f is what is printed for the n-th address: its line, and the functions inlined there.
IsFrame(f, n) ==
  /\ f \in Seq(ALine) /\ Len(f) >= 1
  /\ Addressed(f[1]) <=> ev.stack[n] # 0
  /\ f[1].addr = ev.stack[n]
  /\ \A q \in 2 .. Len(f) : f[q].k = "inlined"
  /\ \A q \in 1 .. Len(f) : f[q].k = "inlined" => InlinedAt(f, 1, q)

\* One more frame.
LEMMA FrameOrder ==
  ASSUME NEW s \in Seq(ALine), NEW n \in Nat, InOrder(s, n), Below(s),
         NEW f, IsFrame(f, n + 1)
  PROVE  s \o f \in Seq(ALine) /\ InOrder(s \o f, n + 1) /\ Below(s \o f)
<1> DEFINE t == s \o f
<1>1. f \in Seq(ALine) /\ Len(f) \in Nat /\ Len(f) >= 1 /\ Len(s) \in Nat
  BY DEF IsFrame
<1>2. /\ t \in Seq(ALine) /\ Len(t) = Len(s) + Len(f)
      /\ \A i \in 1 .. Len(t) : t[i] = IF i <= Len(s) THEN s[i] ELSE f[i - Len(s)]
  BY <1>1, ConcatIs
<1>3. \A i \in 0 .. Len(s) : OwnLines(t, i) = OwnLines(s, i)
  BY <1>1, OwnPrefix
<1> HIDE DEF t
<1> DEFINE m == Len(s) + 1
           O == OwnLines(s, Len(s))
           C == Places(n)
           D == IF ev.stack[n + 1] # 0 THEN {m} ELSE {}
           E == IF ev.stack[n + 1] # 0 THEN {n + 1} ELSE {}
<1>4. /\ m \in 1 .. Len(t) /\ t[m] = f[1]
      /\ \A i \in 1 .. Len(s) : i \in 1 .. Len(t) /\ t[i] = s[i]
      /\ \A i \in m + 1 .. Len(t) : i \in 1 .. Len(t) /\ t[i] = f[i - Len(s)]
                                    /\ i - Len(s) \in 2 .. Len(f)
  <2>1. m \in 1 .. Len(t) /\ ~(m <= Len(s)) /\ m - Len(s) = 1
    BY <1>1, <1>2
  <2>2. t[m] = f[1]
    BY <1>2, <2>1
  <2>3. \A i \in 1 .. Len(s) : i \in 1 .. Len(t) /\ t[i] = s[i]
    BY <1>1, <1>2
  <2>4. \A i \in m + 1 .. Len(t) : i \in 1 .. Len(t) /\ t[i] = f[i - Len(s)]
                                   /\ i - Len(s) \in 2 .. Len(f)
    BY <1>1, <1>2
  <2> QED BY <2>1, <2>2, <2>3, <2>4
<1>5. /\ Addressed(t[m]) <=> ev.stack[n + 1] # 0
      /\ t[m].addr = ev.stack[n + 1]
      /\ \A i \in m + 1 .. Len(t) : t[i].k = "inlined" /\ ~Addressed(t[i])
  <2>1. (Addressed(t[m]) <=> ev.stack[n + 1] # 0) /\ t[m].addr = ev.stack[n + 1]
    BY <1>4 DEF IsFrame
  <2>2. \A i \in m + 1 .. Len(t) : t[i].k = "inlined"
    <3>1. \A q \in 2 .. Len(f) : f[q].k = "inlined"
      BY DEF IsFrame
    <3> HIDE DEF m
    <3> QED BY <1>4, <3>1
  <2> QED BY <2>1, <2>2 DEF Addressed
<1>6. ASSUME NEW i \in m .. Len(t) PROVE OwnLines(t, i) = O \cup D
  <2>1. i \in Nat /\ i >= m /\ i <= Len(t)
    BY <1>1, <1>2
  <2>2. ASSUME NEW j \in 1 .. i PROVE Addressed(t[j]) <=> j \in O \cup D
    <3>1. CASE j \in 1 .. Len(s)
      <4>1. j # m /\ t[j] = s[j]
        BY <1>1, <1>4, <3>1
      <4>2. j \notin D
        BY <4>1
      <4> QED BY <3>1, <4>1, <4>2, Zenon DEF OwnLines
    <3>2. CASE j = m
      <4>1. j \notin 1 .. Len(s)
        BY <1>1, <3>2
      <4>2. j \notin O
        BY <4>1 DEF OwnLines
      <4> HIDE DEF m
      <4> QED BY <1>5, <3>2, <4>2
    <3>3. CASE j \in m + 1 .. Len(t)
      <4>1. j \notin 1 .. Len(s) /\ j # m
        BY <1>1, <3>3
      <4>2. j \notin O /\ j \notin D
        BY <4>1 DEF OwnLines
      <4> QED BY <1>5, <3>3, <4>2
    <3> QED BY <1>1, <1>2, <2>1, <3>1, <3>2, <3>3
  <2>3. O \cup D \subseteq 1 .. i
    BY <1>1, <2>1 DEF OwnLines
  <2> HIDE DEF O, D
  <2> QED BY <2>2, <2>3, Zenon DEF OwnLines
<1>7. /\ Cardinality(O \cup D) = Cardinality(C \cup E)
      /\ Places(n + 1) = C \cup E /\ C \subseteq Places(n + 1)
  <2>1. IsFiniteSet(O) /\ Cardinality(O) = Cardinality(C) /\ m \notin O
    <3>1. IsFiniteSet(O)
      BY <1>1, OwnFinite
    <3>2. Cardinality(O) = Cardinality(C)
      BY DEF InOrder
    <3>3. m \notin 1 .. Len(s)
      BY <1>1
    <3> QED BY <3>1, <3>2, <3>3 DEF OwnLines
  <2>2. IsFiniteSet(C) /\ n + 1 \notin C /\ Places(n + 1) = C \cup E
    BY PlacesFinite
  <2> HIDE DEF O, m, C
  <2>3. CASE ev.stack[n + 1] # 0
    <3>1. D = {m} /\ E = {n + 1}
      BY <2>3
    <3>2. Cardinality(O \cup {m}) = Cardinality(O) + 1
      BY <2>1, FS_AddElement
    <3>3. Cardinality(C \cup {n + 1}) = Cardinality(C) + 1
      BY <2>2, FS_AddElement
    <3> HIDE DEF D, E
    <3> QED BY <2>1, <2>2, <3>1, <3>2, <3>3
  <2>4. CASE ev.stack[n + 1] = 0
    <3>1. D = {} /\ E = {}
      BY <2>4
    <3> HIDE DEF D, E
    <3> QED BY <2>1, <2>2, <3>1
  <2> QED BY <2>3, <2>4
<1>8. InOrder(t, n + 1)
  <2>1. OwnLines(t, Len(t)) = O \cup D
    BY <1>1, <1>2, <1>6
  <2>2. ASSUME NEW i \in OwnLines(t, Len(t))
        PROVE  \E a \in Places(n + 1) :
                 /\ t[i].addr = ev.stack[a]
                 /\ Cardinality(OwnLines(t, i)) = Cardinality(Places(a))
    <3>1. CASE i \in O
      <4>1. i \in 0 .. Len(s) /\ t[i] = s[i]
        BY <1>1, <1>4, <3>1 DEF OwnLines
      <4>2. OwnLines(t, i) = OwnLines(s, i)
        BY <1>3, <4>1
      <4>3. PICK a \in C : /\ s[i].addr = ev.stack[a]
                           /\ Cardinality(OwnLines(s, i)) = Cardinality(Places(a))
        BY <3>1, Zenon DEF InOrder
      <4> HIDE DEF C
      <4> QED BY <1>7, <4>1, <4>2, <4>3
    <3>2. CASE i \in D
      <4>1. i = m /\ n + 1 \in E
        BY <3>2
      <4>2. m \in m .. Len(t)
        BY <1>1, <1>2
      <4>3. OwnLines(t, i) = O \cup D
        BY <1>6, <4>1, <4>2
      <4> HIDE DEF m, O, D, E, C
      <4>4. Cardinality(OwnLines(t, i)) = Cardinality(Places(n + 1)) /\ n + 1 \in Places(n + 1)
        BY <1>7, <4>1, <4>3
      <4> QED BY <1>5, <4>1, <4>4
    <3> QED BY <2>1, <3>1, <3>2
  <2>3. Cardinality(OwnLines(t, Len(t))) = Cardinality(Places(n + 1))
    <3> HIDE DEF O, D, C, E
    <3> QED BY <1>7, <2>1
  <2> QED BY <2>2, <2>3, Zenon DEF InOrder
<1>9. Below(t)
  <2> SUFFICES ASSUME NEW i \in 1 .. Len(t), t[i].k = "inlined"
               PROVE  \E j \in 1 .. i :
                        /\ InlinedAt(t, j, i)
                        /\ \A k \in j + 1 .. i : t[k].k = "inlined"
    <3>1. DOMAIN t = 1 .. Len(t)
      BY <1>2
    <3> QED BY <3>1, Zenon DEF Below
  <2>1. CASE i \in 1 .. Len(s)
    <3>1. s[i].k = "inlined" /\ t[i] = s[i]
      BY <1>4, <2>1
    <3>2. PICK j \in 1 .. i : /\ InlinedAt(s, j, i)
                              /\ \A k \in j + 1 .. i : s[k].k = "inlined"
      <4>1. i \in DOMAIN s
        BY <2>1
      <4> QED BY <3>1, <4>1, Zenon DEF Below
    <3>3. j \in 1 .. Len(s) /\ \A k \in j + 1 .. i : k \in 1 .. Len(s)
      BY <1>1, <2>1
    <3>4. t[j] = s[j] /\ \A k \in j + 1 .. i : t[k] = s[k]
      BY <1>4, <3>3
    <3>5. InlinedAt(t, j, i)
      BY <3>1, <3>2, <3>4 DEF InlinedAt
    <3> QED BY <3>2, <3>4, <3>5
  <2>2. CASE i \in m .. Len(t)
    <3> DEFINE q == i - Len(s)
    <3>1. q \in 1 .. Len(f) /\ t[i] = f[q] /\ t[m] = f[1] /\ i - m = q - 1 /\ (m < i <=> 1 < q)
      BY <1>1, <1>2, <1>4, <2>2
    <3>2. InlinedAt(f, 1, q)
      BY <3>1 DEF IsFrame
    <3>3. m \in 1 .. i /\ \A k \in m + 1 .. i : k \in m + 1 .. Len(t)
      BY <1>1, <1>2, <2>2
    <3>4. \A k \in m + 1 .. i : t[k].k = "inlined"
      BY <1>5, <3>3
    <3> HIDE DEF m, q
    <3>5. InlinedAt(t, m, i)
      BY <3>1, <3>2 DEF InlinedAt
    <3> QED BY <3>3, <3>4, <3>5
  <2>3. i \in 1 .. Len(s) \/ i \in m .. Len(t)
    BY <1>1, <1>2
  <2> QED BY <2>1, <2>2, <2>3
<1> QED BY <1>2, <1>8, <1>9 DEF t

\* A line of an address alone.
LEMMA BareFrame ==
  ASSUME NEW i, ev.stack[i] \in Nat, NEW k \in {"raw", "nosymbol"}
  PROVE  IsFrame(<<Line(k, ev.stack[i], None)>>, i)
<1> DEFINE a == ev.stack[i]
           n == Line(k, a, None)
<1>1. n \in ALine /\ (Addressed(n) <=> a # 0) /\ n.addr = a /\ n.k # "inlined"
  BY DEF Line, ALine, Addressed
<1> HIDE DEF n
<1>2. <<n>> \in Seq(ALine) /\ Len(<<n>>) = 1 /\ <<n>>[1] = n /\ 2 .. 1 = {} /\ 1 .. 1 = {1}
  BY <1>1
<1> QED BY <1>1, <1>2 DEF IsFrame, n

\* The lines of one iteration of show_stack_trace.
LEMMA FrameIs ==
  ASSUME ev \in Event, SymbolsInv, NEW p \in {"caller", "other"}, NEW cnt \in Nat,
         NEW i \in 1 .. Len(ev.stack)
  PROVE  IsFrame(FrameLines(p, cnt, i), i)
<1> DEFINE a == ev.stack[i]
           y == Symbols[p][a]
           l == print_frame(y.name, a)
           b == [j \in 1 .. Len(y.inlined) |-> print_frame(y.inlined[j], 0)]
<1>1. a \in Nat /\ i \in DOMAIN ev.stack
  <2>1. ev.stack \in Seq(Nat)
    BY DEF Event
  <2> QED BY <2>1
<1>2. y \in [name : Names \cup {None}, inlined : Seq(Names)] /\ p \in DOMAIN Symbols
  BY <1>1 DEF SymbolsInv
<1>3. CASE HasName(p, cnt, i)
  <2>1. FrameLines(p, cnt, i) = <<l>> \o b
    BY <1>3 DEF FrameLines
  <2>2. y.name \in Names \cup {None} /\ y.inlined \in Seq(Names) /\ Len(y.inlined) \in Nat
    BY <1>2
  <2> HIDE DEF y, a
  <2>3. l \in ALine /\ l.addr = a /\ (Addressed(l) <=> a # 0)
    BY <1>1, <2>2 DEF print_frame, Line, ALine, Addressed
  <2>4. \A j \in 1 .. Len(y.inlined) :
          /\ print_frame(y.inlined[j], 0) \in ALine
          /\ print_frame(y.inlined[j], 0).k = "inlined"
          /\ print_frame(y.inlined[j], 0).name = y.inlined[j]
    BY <2>2 DEF print_frame, Line, ALine
  <2>5. b \in Seq(ALine) /\ Len(b) = Len(y.inlined)
        /\ \A j \in 1 .. Len(b) : b[j].k = "inlined" /\ b[j].name = y.inlined[j]
    BY <2>2, <2>4
  <2> HIDE DEF b
  <2> DEFINE f == <<l>> \o b
  <2>6. <<l>> \in Seq(ALine) /\ Len(<<l>>) = 1 /\ <<l>>[1] = l
    BY <2>3
  <2>7. /\ f \in Seq(ALine) /\ Len(f) = Len(<<l>>) + Len(b)
        /\ \A q \in 1 .. Len(f) : f[q] = IF q <= Len(<<l>>) THEN <<l>>[q] ELSE b[q - Len(<<l>>)]
    BY <2>5, <2>6, ConcatIs
  <2> HIDE DEF f
  <2>8. Len(f) = 1 + Len(b) /\ Len(b) \in Nat /\ f[1] = l
        /\ \A q \in 2 .. Len(f) : f[q] = b[q - 1] /\ q - 1 \in 1 .. Len(b)
    BY <2>5, <2>6, <2>7
  <2>9. \A q \in 2 .. Len(f) : f[q].k = "inlined"
    BY <2>5, <2>8
  <2>10. ASSUME NEW q \in 1 .. Len(f) PROVE InlinedAt(f, 1, q)
    <3>1. 1 < q => q - 1 \in DOMAIN y.inlined /\ y.inlined[q - 1] = f[q].name
      <4>1. CASE q = 1
        BY <4>1
      <4>2. CASE q \in 2 .. Len(f)
        BY <2>2, <2>5, <2>8, <4>2
      <4> QED BY <2>8, <4>1, <4>2
    <3>2. f[1] = print_frame(y.name, ev.stack[i])
      BY <2>8 DEF a
    <3> QED BY <1>1, <1>2, <3>1, <3>2 DEF InlinedAt, y, a
  <2>11. IsFrame(f, i)
    <3> HIDE DEF l
    <3>1. Len(f) >= 1 /\ f[1].addr = ev.stack[i] /\ (Addressed(f[1]) <=> ev.stack[i] # 0)
      BY <2>3, <2>8 DEF a
    <3> QED BY <2>7, <2>9, <2>10, <3>1 DEF IsFrame
  <2> QED BY <2>1, <2>11, SMTT(30) DEF f
<1>4. CASE ~HasName(p, cnt, i)
  <2>1. FrameLines(p, cnt, i) = <<Line("nosymbol", a, None)>>
    BY <1>4 DEF FrameLines
  <2> QED BY <1>1, <2>1, BareFrame
<1> QED BY <1>3, <1>4

\* Lines that are not about addresses.
LEMMA QuietOrder ==
  ASSUME NEW s \in Seq(ALine), \A i \in 1 .. Len(s) : s[i].k \in {"line", "stack", "empty"}
  PROVE  InOrder(s, 0) /\ Below(s)
<1>1. OwnLines(s, Len(s)) = {} /\ Places(0) = {}
  BY DEF OwnLines, Addressed, Places
<1>2. InOrder(s, 0)
  BY <1>1 DEF InOrder
<1>3. Below(s)
  BY DEF Below
<1> QED BY <1>2, <1>3

\* One frame after the other.
LEMMA FramesOrder ==
  ASSUME ev \in Event, NEW seqs \in Seq(Seq(ALine)), Len(seqs) = Len(ev.stack),
         \A i \in 1 .. Len(seqs) : IsFrame(seqs[i], i),
         NEW f, Flattens(f, ALine, seqs),
         NEW s \in Seq(ALine), \A i \in 1 .. Len(s) : s[i].k \in {"line", "stack", "empty"}
  PROVE  /\ s \o f[Len(seqs)] \in Seq(ALine)
         /\ InOrder(s \o f[Len(seqs)], Len(ev.stack))
         /\ Below(s \o f[Len(seqs)])
<1> DEFINE N == Len(seqs)
           G(t, n) == t \in Seq(ALine) /\ InOrder(t, n) /\ Below(t)
<1>1. N \in Nat
  OBVIOUS
<1> HIDE DEF N
<1> DEFINE T == {m \in 0 .. N : G(s \o f[m], m)}
<1>2. 0 \in T
  <2>1. f[0] = <<>> /\ s \o <<>> = s
    BY ConcatEmptySeq DEF Flattens
  <2>2. G(s, 0)
    BY QuietOrder
  <2>3. G(s \o f[0], 0) /\ 0 \in 0 .. N
    BY <1>1, <2>1, <2>2
  <2> HIDE DEF G
  <2> QED BY <2>3
<1>3. ASSUME NEW n \in 0 .. N - 1, n \in T PROVE n + 1 \in T
  <2>1. n + 1 \in 1 .. N /\ (n + 1) - 1 = n /\ n \in 0 .. N /\ n \in Nat /\ n + 1 \in 0 .. N
    BY <1>1
  <2>2. f[n] \in Seq(ALine) /\ f[n + 1] = f[(n + 1) - 1] \o seqs[n + 1]
    BY <2>1 DEF Flattens, N
  <2>3. seqs[n + 1] \in Seq(ALine) /\ IsFrame(seqs[n + 1], n + 1)
    BY <2>1 DEF N
  <2>4. s \o f[n + 1] = (s \o f[n]) \o seqs[n + 1]
    <3>1. f[n + 1] = f[n] \o seqs[n + 1]
      BY <2>1, <2>2
    <3>2. (s \o f[n]) \o seqs[n + 1] = s \o (f[n] \o seqs[n + 1])
      <4>1. \A b, c \in Seq(ALine) : (s \o b) \o c = s \o (b \o c)
        BY ConcatAssociative, SMTT(30)
      <4> QED BY <2>2, <2>3, <4>1, Zenon
    <3> QED BY <3>1, <3>2
  <2>5. G(s \o f[n], n)
    BY <1>3
  <2>6. G((s \o f[n]) \o seqs[n + 1], n + 1)
    BY <2>1, <2>3, <2>5, FrameOrder, Zenon
  <2>7. G(s \o f[n + 1], n + 1)
    BY <2>4, <2>6
  <2> HIDE DEF G
  <2> QED BY <2>1, <2>7
<1> HIDE DEF T
<1>4. \A n \in 0 .. N : n \in T
  BY <1>1, <1>2, <1>3, SetInduction
<1>5. N \in T
  BY <1>1, <1>4
<1> QED BY <1>5 DEF T, N

\* With symbols.
LEMMA SymbolsOrder ==
  ASSUME ev \in Event, SymbolsInv, NEW p \in {"caller", "other"}, NEW cnt \in Nat,
         NEW s \in Seq(ALine), \A i \in 1 .. Len(s) : s[i].k \in {"line", "stack", "empty"}
  PROVE  /\ s \o StackLines(p, cnt) \in Seq(ALine)
         /\ InOrder(s \o StackLines(p, cnt), Len(ev.stack))
         /\ Below(s \o StackLines(p, cnt))
<1> DEFINE N == Len(ev.stack)
           seqs == [i \in 1 .. N |-> FrameLines(p, cnt, i)]
<1>1. N \in Nat
  BY DEF Event
<1>2. \A i \in 1 .. N : IsFrame(FrameLines(p, cnt, i), i)
  BY FrameIs
<1>3. seqs \in Seq(Seq(ALine)) /\ Len(seqs) = N /\ \A i \in 1 .. N : seqs[i] = FrameLines(p, cnt, i)
  <2>1. \A i \in 1 .. N : FrameLines(p, cnt, i) \in Seq(ALine)
    BY <1>2 DEF IsFrame
  <2> HIDE DEF N
  <2> QED BY <1>1, <2>1
<1>4. StackLines(p, cnt) = FlattenSeq(seqs)
  BY DEF StackLines
<1> HIDE DEF seqs
<1>5. PICK f : Flattens(f, ALine, seqs) /\ FlattenSeq(seqs) = f[Len(seqs)]
  BY <1>3, FlattenIs
<1>6. \A i \in 1 .. Len(seqs) : IsFrame(seqs[i], i)
  BY <1>2, <1>3
<1>7. /\ s \o f[Len(seqs)] \in Seq(ALine) /\ InOrder(s \o f[Len(seqs)], Len(ev.stack))
      /\ Below(s \o f[Len(seqs)])
  BY <1>3, <1>5, <1>6, FramesOrder
<1> QED BY <1>4, <1>5, <1>7

\* Without symbols.
LEMMA RawOrder ==
  ASSUME ev \in Event,
         NEW s \in Seq(ALine), \A i \in 1 .. Len(s) : s[i].k \in {"line", "stack", "empty"}
  PROVE  /\ s \o RawLines \in Seq(ALine) /\ InOrder(s \o RawLines, Len(ev.stack))
         /\ Below(s \o RawLines)
<1> DEFINE N == Len(ev.stack)
           r(i) == Line("raw", ev.stack[i], None)
           seqs == [i \in 1 .. N |-> <<r(i)>>]
           f == [m \in 0 .. N |-> [i \in 1 .. m |-> r(i)]]
<1>1. N \in Nat /\ \A i \in 1 .. N : ev.stack[i] \in Nat
  <2>1. ev.stack \in Seq(Nat)
    BY DEF Event
  <2> QED BY <2>1
<1>2. \A i \in 1 .. N : IsFrame(<<r(i)>>, i)
  BY <1>1, BareFrame
<1>3. \A i \in 1 .. N : r(i) \in ALine
  BY <1>1 DEF Line, ALine
<1>4. RawLines = [i \in 1 .. N |-> r(i)]
  BY DEF RawLines
<1> HIDE DEF N, r
<1>5. /\ seqs \in Seq(Seq(ALine)) /\ Len(seqs) = N
      /\ \A i \in 1 .. N : seqs[i] = <<r(i)>>
  <2>1. \A i \in 1 .. N : <<r(i)>> \in Seq(ALine)
    BY <1>3
  <2> QED BY <1>1, <2>1
<1>6. f[N] = RawLines
  BY <1>1, <1>4
<1>7. Flattens(f, ALine, seqs)
  <2>1. ASSUME NEW m \in 0 .. N PROVE f[m] \in Seq(ALine) /\ Len(f[m]) = m
    BY <1>1, <1>3
  <2>2. f[0] = <<>>
    BY <1>1
  <2>3. ASSUME NEW i \in 1 .. N PROVE f[i] = f[i - 1] \o seqs[i]
    <3> DEFINE a == f[i - 1]
               b == <<r(i)>>
               c == f[i]
    <3>1. i \in 0 .. N /\ i - 1 \in 0 .. N /\ i \in Nat /\ i >= 1
      BY <1>1
    <3>2. a \in Seq(ALine) /\ Len(a) = i - 1 /\ \A j \in 1 .. i - 1 : a[j] = r(j)
      BY <2>1, <3>1
    <3>3. c \in Seq(ALine) /\ Len(c) = i /\ \A j \in 1 .. i : c[j] = r(j)
      BY <2>1, <3>1
    <3>4. b \in Seq(ALine) /\ Len(b) = 1 /\ b[1] = r(i)
      BY <1>3
    <3>5. /\ a \o b \in Seq(ALine) /\ Len(a \o b) = Len(a) + Len(b)
          /\ \A j \in 1 .. Len(a \o b) : (a \o b)[j] = IF j <= Len(a) THEN a[j] ELSE b[j - Len(a)]
      BY <3>2, <3>4, ConcatIs
    <3> DEFINE d == a \o b
    <3> HIDE DEF a, b, c, d
    <3>6. Len(d) = i /\ \A j \in 1 .. i : d[j] = r(j)
      <4>1. Len(d) = i /\ d \in Seq(ALine)
        BY <3>1, <3>2, <3>4, <3>5 DEF d
      <4>2. ASSUME NEW j \in 1 .. i PROVE d[j] = r(j)
        <5>1. CASE j <= Len(a)
          BY <3>1, <3>2, <3>4, <3>5, <5>1 DEF d
        <5>2. CASE ~(j <= Len(a))
          <6>1. j = i /\ j - Len(a) = 1
            BY <3>1, <3>2, <5>2
          <6> QED BY <3>1, <3>2, <3>4, <3>5, <5>2, <6>1 DEF d
        <5> QED BY <5>1, <5>2
      <4> QED BY <4>1, <4>2
    <3>7. c = d
      BY <3>1, <3>3, <3>5, <3>6 DEF d
    <3> QED BY <1>5, <3>7 DEF a, b, c, d
  <2> HIDE DEF seqs
  <2>4. f \in [0 .. N -> Seq(ALine)]
    BY <2>1
  <2> HIDE DEF f
  <2> QED BY <1>5, <2>2, <2>3, <2>4 DEF Flattens
<1> HIDE DEF seqs, f
<1>8. \A i \in 1 .. Len(seqs) : IsFrame(seqs[i], i)
  BY <1>2, <1>5
<1>9. Len(seqs) = Len(ev.stack)
  BY <1>5 DEF N
<1>10. /\ s \o f[Len(seqs)] \in Seq(ALine) /\ InOrder(s \o f[Len(seqs)], Len(ev.stack))
       /\ Below(s \o f[Len(seqs)])
  BY <1>5, <1>7, <1>8, <1>9, FramesOrder
<1> QED BY <1>5, <1>6, <1>10

\* The stack is printed last, once, and below the line of the event.
StackInv ==
  /\ stdout \in Seq(ALine)
  /\ \A a \in 1 .. Len(todo) : todo[a].k = "stack" => a = Len(todo)
  /\ todo # <<>> => \A i \in 1 .. Len(stdout) : stdout[i].k = "line"
  /\ todo = <<>> =>
       /\ (\E i \in 1 .. Len(stdout) : stdout[i].k = "stack") => InOrder(stdout, Len(ev.stack))
       /\ Below(stdout)

\* In the beginning nothing is on the screen.
LEMMA InitStackInv == HInit => SymbolsInv /\ StackInv
<1> SUFFICES ASSUME NEW st \in Starts, DInit(st), todo = EventJobs(st.print_stack), stdout = <<>>
             PROVE  SymbolsInv /\ StackInv
  BY DEF HInit
<1>1. ev = st.event /\ ev \in Event
  BY StartsAssumption DEF DInit
<1>2. SymbolsInv
  BY <1>1, SymbolsAssumption DEF SymbolsInv
<1>3. ASSUME NEW a \in 1 .. Len(todo), todo[a].k = "stack" PROVE a = Len(todo)
  <2>1. CASE a - 1 \in DOMAIN Args /\ todo[a] = ArgJob(Args[a - 1])
    <3>1. Args[a - 1] \in ArgDesc
      BY <1>1, <2>1, ArgsType
    <3>2. ArgJob(Args[a - 1]).k # "stack"
      BY <3>1 DEF ArgJob, Job, ArgDesc, ArgKinds, ValueKinds, PairedKinds
    <3> QED BY <1>3, <2>1, <3>2
  <2> QED BY <1>1, <1>3, <2>1, EventJobsAre
<1>4. <<>> \in Seq(ALine) /\ Len(<<>>) = 0 /\ DOMAIN <<>> = {} /\ 1 .. 0 = {}
  OBVIOUS
<1>5. Below(stdout)
  BY <1>4 DEF Below
<1> QED BY <1>2, <1>3, <1>4, <1>5 DEF StackInv

\* The symbols are those of the event.
LEMMA SameSymbols == ASSUME ev' = ev, SymbolsInv PROVE SymbolsInv'
  BY DEF SymbolsInv

\* A job of the decoder leaves the screen alone, and is not the one about the stack.
LEMMA JobsKeepStack ==
  ASSUME StackInv, NEW S, todo \in Seq(S), todo # <<>>, job.k # "stack",
         NEW js \in Seq(S), \A a \in 1 .. Len(js) : js[a].k # "stack",
         todo' = js \o Tail(todo), stdout' = stdout
  PROVE  StackInv'
<1> DEFINE u == Tail(todo)
           t == js \o u
<1>1. u \in Seq(S) /\ Len(todo) \in Nat /\ Len(u) = Len(todo) - 1 /\ Len(js) \in Nat
      /\ \A a \in 1 .. Len(u) : u[a] = todo[a + 1] /\ a + 1 \in 1 .. Len(todo)
  OBVIOUS
<1> HIDE DEF u
<1>2. /\ t \in Seq(S) /\ Len(t) = Len(js) + Len(u)
      /\ \A a \in 1 .. Len(t) : t[a] = IF a <= Len(js) THEN js[a] ELSE u[a - Len(js)]
  BY <1>1, ConcatIs
<1>3. todo' = t
  BY DEF u
<1> HIDE DEF t
<1>4. ASSUME NEW a \in 1 .. Len(t), t[a].k = "stack" PROVE a = Len(t)
  <2>1. ~(a <= Len(js))
    BY <1>2, <1>4
  <2>2. t[a] = u[a - Len(js)] /\ a - Len(js) \in 1 .. Len(u)
    BY <1>1, <1>2, <2>1
  <2>3. (a - Len(js)) + 1 = Len(todo)
    BY <1>1, <1>4, <2>2 DEF StackInv
  <2> QED BY <1>1, <1>2, <2>3
<1>5. \A i \in 1 .. Len(stdout) : stdout[i].k = "line"
  BY DEF StackInv
<1>6. Below(stdout) /\ stdout \in Seq(ALine)
  BY <1>5, QuietOrder DEF StackInv
<1>7. ~ \E i \in 1 .. Len(stdout) : stdout[i].k = "stack"
  BY <1>5
<1>8. Below(stdout)'
  <2>1. DOMAIN stdout = 1 .. Len(stdout)
    BY <1>6
  <2>2. \A i \in DOMAIN stdout : stdout[i].k # "inlined"
    BY <1>5, <2>1
  <2> QED BY <2>2 DEF Below
<1> QED BY <1>3, <1>4, <1>5, <1>6, <1>7, <1>8 DEF StackInv

\* A job that is done.
LEMMA TailKeepsStack ==
  ASSUME StackInv, todo \in Seq(GoodJob), todo # <<>>, job.k # "stack",
         todo' = Tail(todo), stdout' = stdout
  PROVE  StackInv'
<1>1. <<>> \in Seq(GoodJob) /\ Len(<<>>) = 0 /\ Tail(todo) \in Seq(GoodJob) /\ 1 .. 0 = {}
  OBVIOUS
<1>2. <<>> \o Tail(todo) = Tail(todo)
  BY <1>1, ConcatEmptySeq
<1>3. todo' = <<>> \o Tail(todo)
  BY <1>2
<1>4. \A a \in 1 .. Len(<<>>) : <<>>[a].k # "stack"
  BY <1>1
<1> QED BY <1>1, <1>3, <1>4, JobsKeepStack

\* What a step of the decoder does to the jobs.
LEMMA DecodeJobs ==
  ASSUME TypeInv, StackInv, Decode \/ malloc_fails, stdout' = stdout
  PROVE  StackInv'
<1>1. todo # <<>> /\ todo \in Seq(GoodJob) /\ job.k # "stack"
  <2>1. todo # <<>> /\ todo \in Seq(GoodJob)
    BY DEF TypeInv, Decode, malloc_fails, print_value, print_cstring, string_read, print_buffer,
       print_strv, print_iov, print_timespec, print_struct, print_socket_words, print_sockaddr,
       Doing
  <2>2. job.k # "stack"
    BY DEF Decode, malloc_fails, print_value, print_cstring, string_read, print_buffer,
       print_strv, print_iov, print_timespec, print_struct, print_socket_words, print_sockaddr,
       Doing, job, ValueKinds
  <2> QED BY <2>1, <2>2
<1>2. CASE todo' = Tail(todo)
  BY <1>1, <1>2, TailKeepsStack
<1>3. ASSUME NEW x, x.k # "stack", todo' = <<x>> \o Tail(todo) PROVE StackInv'
  <2>1. todo \in Seq(GoodJob \cup {x}) /\ <<x>> \in Seq(GoodJob \cup {x})
        /\ \A a \in 1 .. Len(<<x>>) : <<x>>[a].k # "stack"
    BY <1>1, <1>3
  <2> QED BY <1>1, <1>3, <2>1, JobsKeepStack
<1>4. ASSUME NEW x, NEW y, x.k # "stack", y.k # "stack", todo' = <<x, y>> \o Tail(todo)
      PROVE  StackInv'
  <2>1. todo \in Seq(GoodJob \cup {x, y}) /\ <<x, y>> \in Seq(GoodJob \cup {x, y})
        /\ \A a \in 1 .. Len(<<x, y>>) : <<x, y>>[a].k # "stack"
    BY <1>1, <1>4
  <2> QED BY <1>1, <1>4, <2>1, JobsKeepStack
<1>5. ASSUME NEW x, NEW y, NEW z, x.k # "stack", y.k # "stack", z.k # "stack",
             todo' = <<x, y, z>> \o Tail(todo)
      PROVE  StackInv'
  <2>1. todo \in Seq(GoodJob \cup {x, y, z}) /\ <<x, y, z>> \in Seq(GoodJob \cup {x, y, z})
        /\ \A a \in 1 .. Len(<<x, y, z>>) : <<x, y, z>>[a].k # "stack"
    BY <1>1, <1>5
  <2> QED BY <1>1, <1>5, <2>1, JobsKeepStack
<1>6. \A k, v, n : Job(k, v, n).k = k
  BY DEF Job
<1>7. \A l, m, g : /\ [job EXCEPT !.got = g].k = job.k /\ [job EXCEPT !.i = m].k = job.k
                   /\ [job EXCEPT !.i = m, !.lim = l].k = job.k
  BY <1>1, FirstJob DEF GoodJob
<1>8. CASE print_cstring
  <2>1. todo' = Tail(todo) \/ todo' = <<Job("chars", job.v, 0)>> \o Tail(todo)
    BY <1>8 DEF print_cstring, Emit, EmitThen
  <2> QED BY <1>2, <1>3, <1>6, <2>1
<1>9. CASE string_read
  <2>1. todo' = Tail(todo)
        \/ \E g : todo' = <<[job EXCEPT !.got = g]>> \o Tail(todo)
    BY <1>9 DEF string_read, Emit, EmitThen
  <2> QED BY <1>1, <1>2, <1>3, <1>7, <2>1
<1>10. CASE print_strv
  <2>1. todo' = Tail(todo)
        \/ \E p, m : todo' = <<Job("str", p, 0), [job EXCEPT !.i = m]>> \o Tail(todo)
    BY <1>10 DEF print_strv, Emit, EmitThen
  <2>2. ASSUME NEW p, NEW m, todo' = <<Job("str", p, 0), [job EXCEPT !.i = m]>> \o Tail(todo)
        PROVE  StackInv'
    <3> DEFINE x == Job("str", p, 0)
               y == [job EXCEPT !.i = m]
    <3>1. x.k # "stack" /\ y.k # "stack"
      BY <1>1, <1>6, <1>7
    <3> HIDE DEF x, y
    <3> QED BY <1>4, <2>2, <3>1 DEF x, y
  <2> QED BY <1>2, <2>1, <2>2
<1>11. CASE print_iov
  <2> DEFINE got   == read_mem(job.v + 2 * job.i, 2)
             base  == ptr_value(got[1])
             size  == ptr_value(got[2])
             shown == Least(size, job.lim)
             x == IF job.show THEN Job("buffer", base, shown) ELSE Job("ptr", base, 0)
             y == Job("word", size, 0)
             z == [job EXCEPT !.i = @ + 1, !.lim = LimitLeft(@, shown)]
  <2>1. todo' = Tail(todo) \/ todo' = <<x, y, z>> \o Tail(todo)
    BY <1>11 DEF print_iov, Emit, EmitThen
  <2>2. x.k # "stack" /\ y.k # "stack" /\ z.k # "stack"
    <3> HIDE DEF base, size, shown
    <3> QED BY <1>1, <1>6, <1>7
  <2> HIDE DEF x, y, z
  <2> QED BY <1>2, <1>5, <2>1, <2>2
<1>12. CASE print_value \/ print_buffer \/ print_timespec \/ print_struct \/ print_socket_words
            \/ print_sockaddr \/ malloc_fails
  <2>1. todo' = Tail(todo)
    BY <1>12 DEF print_value, print_buffer, print_timespec, print_struct, print_socket_words,
       print_sockaddr, malloc_fails, Emit
  <2> QED BY <1>2, <2>1
<1> QED BY <1>8, <1>9, <1>10, <1>11, <1>12 DEF Decode

\* The line of the event is printed before its stack.
LEMMA PutsKeepsStack == ASSUME TypeInv, StackInv, puts PROVE StackInv'
<1> DEFINE l == Line("line", 0, None)
           t == Append(stdout, l)
           u == Tail(todo)
<1>1. todo # <<>> /\ todo \in Seq(GoodJob) /\ job.k = "puts" /\ stdout \in Seq(ALine)
      /\ stdout' = t /\ todo' = u
  BY DEF puts, Doing, job, TypeInv, StackInv
<1>2. \A i \in 1 .. Len(stdout) : stdout[i].k = "line"
  BY <1>1 DEF StackInv
<1>3. l \in ALine /\ l.k = "line"
  BY DEF Line, ALine
<1> HIDE DEF l
<1>4. t \in Seq(ALine) /\ \A i \in 1 .. Len(t) : t[i].k = "line"
  BY <1>1, <1>2, <1>3
<1>5. ~ \E i \in 1 .. Len(t) : t[i].k = "stack"
  BY <1>4
<1>6. ASSUME NEW a \in 1 .. Len(u), u[a].k = "stack" PROVE a = Len(u)
  <2>1. u[a] = todo[a + 1] /\ a + 1 \in 1 .. Len(todo) /\ Len(u) = Len(todo) - 1 /\ Len(todo) \in Nat
    BY <1>1
  <2>2. a + 1 = Len(todo)
    BY <1>6, <2>1 DEF StackInv
  <2> HIDE DEF u
  <2> QED BY <2>1, <2>2
<1> HIDE DEF t, u
<1>7. Below(stdout)'
  <2>1. \A i \in DOMAIN t : t[i].k # "inlined"
    BY <1>4
  <2> QED BY <1>1, <2>1, Zenon DEF Below
<1> QED BY <1>1, <1>4, <1>5, <1>6, <1>7 DEF StackInv

\* What the lines have to be depends on the event only.
LEMMA StillShown ==
  ASSUME ev' = ev, NEW t, stdout' = t
  PROVE  /\ Below(t) => Below(stdout)'
         /\ InOrder(t, Len(ev.stack)) => InOrder(stdout, Len(ev.stack))'
<1>1. \A j, i : InlinedAt(t, j, i) => InlinedAt(stdout, j, i)'
  BY DEF InlinedAt, print_frame, Line
<1>2. Below(t) => Below(stdout)'
  BY <1>1 DEF Below
<1>3. \A n : Places(n)' = Places(n)
  BY DEF Places
<1>4. Len(ev.stack)' = Len(ev.stack)
  OBVIOUS
<1>5. InOrder(t, Len(ev.stack)) => InOrder(stdout, Len(ev.stack))'
  BY <1>3, <1>4 DEF InOrder
<1> QED BY <1>2, <1>5

\* show_stack_trace.
LEMMA ShowsStack == ASSUME TypeInv, SymbolsInv, StackInv, show_stack_trace PROVE StackInv'
<1> DEFINE l == Line("stack", 0, None)
           e == Line("empty", 0, None)
           s == stdout \o <<l>>
<1>1. /\ todo # <<>> /\ todo \in Seq(GoodJob) /\ job.k = "stack" /\ stdout \in Seq(ALine)
      /\ todo' = Tail(todo) /\ ev \in Event /\ ev' = ev /\ owner \in {"caller", "gone", "other"}
  BY DEF show_stack_trace, Doing, job, TypeInv, StackInv, MemInv
<1>2. todo' = <<>>
  <2>1. 1 \in 1 .. Len(todo) /\ todo[1] = job /\ Len(todo) \in Nat
    BY <1>1 DEF job
  <2>2. Len(todo) = 1
    BY <1>1, <2>1 DEF StackInv
  <2> QED BY <1>1, <2>2
<1>3. \A i \in 1 .. Len(stdout) : stdout[i].k = "line"
  BY <1>1 DEF StackInv
<1>4. l \in ALine /\ l.k = "stack" /\ e \in ALine /\ e.k = "empty"
  BY DEF Line, ALine
<1>5. \/ stdout' = Append(stdout, e)
      \/ stdout' = s \o RawLines
      \/ \E cnt \in Nat : owner # "gone" /\ stdout' = s \o StackLines(owner, cnt)
  <2>1. Len(ev.stack) \in Nat
    BY <1>1 DEF Event
  <2>2. \/ stdout' = Append(stdout, e)
        \/ stdout' = s \o RawLines
        \/ \E cnt \in 0 .. Len(ev.stack) :
             owner # "gone" /\ stdout' = s \o StackLines(owner, cnt)
    BY Zenon DEF show_stack_trace
  <2>3. 0 .. Len(ev.stack) \subseteq Nat
    BY <2>1
  <2> HIDE DEF s, e
  <2> QED BY <2>2, <2>3, Zenon
<1> HIDE DEF l, e
<1>6. s \in Seq(ALine) /\ \A i \in 1 .. Len(s) : s[i].k \in {"line", "stack", "empty"}
  BY <1>1, <1>3, <1>4
<1> HIDE DEF s
<1>7. SUFFICES ASSUME NEW t \in Seq(ALine), stdout' = t, Below(t),
                      (\E i \in 1 .. Len(t) : t[i].k = "stack") => InOrder(t, Len(ev.stack))
               PROVE  StackInv'
  <2>1. CASE stdout' = Append(stdout, e)
    <3> DEFINE t == Append(stdout, e)
    <3>1. t \in Seq(ALine) /\ \A i \in 1 .. Len(t) : t[i].k \in {"line", "empty"}
      BY <1>1, <1>3, <1>4
    <3> HIDE DEF t
    <3>2. Below(t) /\ ~ \E i \in 1 .. Len(t) : t[i].k = "stack"
      BY <3>1, QuietOrder
    <3> QED BY <1>7, <2>1, <3>1, <3>2 DEF t
  <2>2. CASE stdout' = s \o RawLines
    <3>1. s \o RawLines \in Seq(ALine) /\ InOrder(s \o RawLines, Len(ev.stack)) /\ Below(s \o RawLines)
      BY <1>1, <1>6, RawOrder
    <3> QED BY <1>7, <2>2, <3>1
  <2>3. CASE \E cnt \in Nat : owner # "gone" /\ stdout' = s \o StackLines(owner, cnt)
    <3>1. PICK cnt \in Nat : owner # "gone" /\ stdout' = s \o StackLines(owner, cnt)
      BY <2>3
    <3>2. owner \in {"caller", "other"}
      BY <1>1, <3>1
    <3>3. /\ s \o StackLines(owner, cnt) \in Seq(ALine)
          /\ InOrder(s \o StackLines(owner, cnt), Len(ev.stack))
          /\ Below(s \o StackLines(owner, cnt))
      BY <1>1, <1>6, <3>2, SymbolsOrder
    <3> QED BY <1>7, <3>1, <3>3
  <2> QED BY <1>5, <2>1, <2>2, <2>3
<1>8. Below(stdout)' /\ Len(todo') = 0 /\ 1 .. 0 = {}
  <2>1. Below(stdout)'
    BY <1>1, <1>7, StillShown
  <2>2. Len(<<>>) = 0 /\ 1 .. 0 = {}
    OBVIOUS
  <2> QED BY <1>2, <2>1, <2>2
<1>9. (\E i \in 1 .. Len(stdout') : stdout'[i].k = "stack") => InOrder(stdout, Len(ev.stack))'
  BY <1>1, <1>7, StillShown
<1> QED BY <1>2, <1>7, <1>8, <1>9 DEF StackInv

\* A step keeps the screen as it should be.
LEMMA NextStackInv ==
  TypeInv /\ SymbolsInv /\ StackInv /\ [HNext]_hvars => SymbolsInv' /\ StackInv'
<1> SUFFICES ASSUME TypeInv, SymbolsInv, StackInv, [HNext]_hvars PROVE SymbolsInv' /\ StackInv'
  OBVIOUS
<1>1. SymbolsInv'
  BY SameSymbols, EventKept
<1>2. CASE (Decode \/ malloc_fails) /\ UNCHANGED stdout
  BY <1>1, <1>2, DecodeJobs
<1>3. CASE puts
  BY <1>1, <1>3, PutsKeepsStack
<1>4. CASE show_stack_trace
  BY <1>1, <1>4, ShowsStack
<1>5. CASE (Process /\ UNCHANGED stdout) \/ UNCHANGED hvars
  <2>1. UNCHANGED <<todo, stdout, ev>>
    BY <1>5 DEF Process, process_write, process_unmap, process_exit, pid_reuse, Change, hvars, dvars
  <2> QED BY <1>1, <2>1 DEF StackInv, InOrder, Below, InlinedAt, Places
<1> QED BY <1>2, <1>3, <1>4, <1>5 DEF HNext, HandleEvent

\* Whatever has become of the process and however few symbols there are, the addresses of
\* the stack but 0 are shown in order, each on a line of its own, and every line without an
\* address names a function inlined in the frame above it, or the function found at address
\* 0 (show_stack_trace, print_frame).
THEOREM StackIsShown == HSafety => []StackShown
<1>1. StackInv => StackShown
  <2> SUFFICES ASSUME StackInv PROVE StackShown
    OBVIOUS
  <2>1. DOMAIN stdout = 1 .. Len(stdout) /\ stdout \in Seq(ALine)
    BY DEF StackInv
  <2>2. Below(stdout)
    <3>1. CASE todo # <<>>
      BY <2>1, <3>1, QuietOrder DEF StackInv
    <3>2. CASE todo = <<>>
      BY <3>2 DEF StackInv
    <3> QED BY <3>1, <3>2
  <2>3. todo = <<>> /\ (\E i \in DOMAIN stdout : stdout[i].k = "stack") =>
          InOrder(stdout, Len(ev.stack))
    BY <2>1 DEF StackInv
  <2> QED BY <2>2, <2>3 DEF StackShown, InOrder, Below
<1> QED BY <1>1, InitStackInv, NextStackInv, TypesAlways, PTL DEF HSafety
====
