---------------------------- MODULE OptionsProofs ----------------------------
(***************************************************************************)
(* Proofs about Options, for every command line, every pair of tables and  *)
(* every size of the bitmap: what the accepted command line means, that    *)
(* the bitmap lets through what was reported as enabled, that the loop of  *)
(* strtok_r takes the names of the text one after the other, so that the   *)
(* filter that gets attached is the one the command line asks for, and     *)
(* that main refuses what is not valid and nothing else.                   *)
(***************************************************************************)
EXTENDS Options, NatLemmas, SequenceTheorems

-----------------------------------------------------------------------------
(***************************************************************************)
(* The bitmap.                                                             *)
(***************************************************************************)

\* A number below MAX_SYSCALLS has a word and a bit (the arithmetic of
\* syscall_filter_add and syscall_allowed).
LEMMA WordAndBit ==
  ASSUME NEW id \in 0 .. MAX_SYSCALLS - 1
  PROVE  /\ id \div SYSCALL_WORD_BITS \in Words
         /\ id % SYSCALL_WORD_BITS \in Bits
         /\ id = SYSCALL_WORD_BITS * (id \div SYSCALL_WORD_BITS)
                 + (id % SYSCALL_WORD_BITS)
<1> DEFINE W == SYSCALL_WORD_BITS
           q == id \div W
           n == MAX_SYSCALLS \div W
<1>1. W \in Nat \ {0} /\ MAX_SYSCALLS \in Nat /\ MAX_SYSCALLS = W * n
  BY BitmapAssumption
<1>2. q \in Int /\ n \in Int /\ id % W \in 0 .. W - 1 /\ id = W * q + (id % W)
  BY <1>1
<1> HIDE DEF W, q, n
<1>3. id >= 0 /\ id < W * n
  BY <1>1
<1>4. q >= 0
  <2>1. SUFFICES ASSUME q <= -1 PROVE FALSE
    BY <1>2
  <2>2. W * q <= W * (-1)
    BY <1>1, <1>2, <2>1
  <2> QED BY <1>1, <1>2, <1>3, <2>2
<1>5. q <= n - 1
  <2>1. SUFFICES ASSUME n <= q PROVE FALSE
    BY <1>2
  <2>2. W * n <= W * q
    BY <1>1, <1>2, <2>1
  <2> QED BY <1>1, <1>2, <1>3, <2>2
<1> QED BY <1>2, <1>4, <1>5 DEF W, q, n, Words, Bits

\* Two numbers never share a bit.
LEMMA BitsDiffer ==
  ASSUME NEW a \in 0 .. MAX_SYSCALLS - 1, NEW b \in 0 .. MAX_SYSCALLS - 1,
         a \div SYSCALL_WORD_BITS = b \div SYSCALL_WORD_BITS,
         a % SYSCALL_WORD_BITS = b % SYSCALL_WORD_BITS
  PROVE  a = b
BY WordAndBit

\* A word and a bit of it make a number, and only that one.
LEMMA NumberOfBit ==
  ASSUME NEW w \in Words, NEW b \in Bits
  PROVE  /\ w * SYSCALL_WORD_BITS + b \in 0 .. MAX_SYSCALLS - 1
         /\ (w * SYSCALL_WORD_BITS + b) \div SYSCALL_WORD_BITS = w
         /\ (w * SYSCALL_WORD_BITS + b) % SYSCALL_WORD_BITS = b
<1> DEFINE W == SYSCALL_WORD_BITS
           n == MAX_SYSCALLS \div W
           id == w * W + b
           q == id \div W
           r == id % W
<1>1. W \in Nat \ {0} /\ MAX_SYSCALLS \in Nat /\ MAX_SYSCALLS = W * n /\ n \in Int
  BY BitmapAssumption
<1>2. w \in 0 .. n - 1 /\ b \in 0 .. W - 1
  BY DEF Words, Bits
<1>3. q \in Int /\ r \in 0 .. W - 1 /\ id = W * q + r /\ id \in Int
  BY <1>1, <1>2
<1>4. id \in 0 .. MAX_SYSCALLS - 1
  <2> HIDE DEF n, W
  <2>1. W * w <= W * (n - 1) /\ W * (n - 1) = W * n - W /\ W * w >= 0 /\ W * w = w * W
    BY <1>1, <1>2
  <2>2. W * w \in Int
    BY <1>1, <1>2
  <2> QED BY <1>1, <1>2, <2>1, <2>2
<1>5. id = W * w + b
  BY <1>1, <1>2
<1> HIDE DEF W, n, id, q, r
<1>6. q = w
  <2>1. CASE q < w
    <3>1. W * q <= W * (w - 1) /\ W * (w - 1) = W * w - W
      BY <1>1, <1>2, <1>3, <2>1
    <3> QED BY <1>1, <1>2, <1>3, <1>5, <3>1
  <2>2. CASE q > w
    <3>1. W * (w + 1) <= W * q /\ W * (w + 1) = W * w + W
      BY <1>1, <1>2, <1>3, <2>2
    <3> QED BY <1>1, <1>2, <1>3, <1>5, <3>1
  <2> QED BY <1>2, <1>3, <2>1, <2>2
<1>7. r = b
  BY <1>1, <1>2, <1>3, <1>5, <1>6
<1> QED BY <1>4, <1>6, <1>7 DEF W, id, q, r

\* A bitmap is determined by the numbers it lets through.
LEMMA BitmapIs ==
  ASSUME NEW bm \in Bitmaps
  PROVE  bm = [w \in Words |-> {b \in Bits : syscall_allowed(bm, w * SYSCALL_WORD_BITS + b)}]
<1> SUFFICES ASSUME NEW w \in Words
             PROVE  bm[w] = {b \in Bits : syscall_allowed(bm, w * SYSCALL_WORD_BITS + b)}
  BY DEF Bitmaps
<1>1. bm[w] \subseteq Bits
  BY DEF Bitmaps
<1>2. ASSUME NEW b \in Bits
      PROVE  b \in bm[w] <=> syscall_allowed(bm, w * SYSCALL_WORD_BITS + b)
  <2> DEFINE id == w * SYSCALL_WORD_BITS + b
  <2>1. id \in 0 .. MAX_SYSCALLS - 1 /\ id \div SYSCALL_WORD_BITS = w
        /\ id % SYSCALL_WORD_BITS = b
    BY NumberOfBit
  <2> HIDE DEF id
  <2>2. syscall_allowed(bm, id) <=> b \in bm[w]
    BY <2>1, BitmapAssumption DEF syscall_allowed
  <2> QED BY <2>2 DEF id
<1> QED BY <1>1, <1>2

\* syscall_filter_add lets one more number through, and no other.
LEMMA AddAllows ==
  ASSUME NEW bm \in Bitmaps, NEW nr \in 0 .. MAX_SYSCALLS - 1
  PROVE  /\ syscall_filter_add(bm, nr) \in Bitmaps
         /\ \A id \in 0 .. MAX_SYSCALLS - 1 :
              syscall_allowed(syscall_filter_add(bm, nr), id)
                <=> (id = nr \/ syscall_allowed(bm, id))
<1>1. nr \div SYSCALL_WORD_BITS \in Words /\ nr % SYSCALL_WORD_BITS \in Bits
  BY WordAndBit
<1>2. syscall_filter_add(bm, nr) \in Bitmaps
  BY <1>1 DEF syscall_filter_add, Bitmaps
<1>3. ASSUME NEW id \in 0 .. MAX_SYSCALLS - 1
      PROVE  syscall_allowed(syscall_filter_add(bm, nr), id)
                <=> (id = nr \/ syscall_allowed(bm, id))
  <2>1. id \div SYSCALL_WORD_BITS \in Words
    BY WordAndBit
  <2>2. CASE id = nr
    BY <1>1, <2>2, BitmapAssumption DEF syscall_filter_add, syscall_allowed, Bitmaps
  <2>3. CASE id # nr
    <3>1. \/ id \div SYSCALL_WORD_BITS # nr \div SYSCALL_WORD_BITS
          \/ id % SYSCALL_WORD_BITS # nr % SYSCALL_WORD_BITS
      BY <2>3, BitsDiffer
    <3> QED
      BY <1>1, <2>1, <2>3, <3>1 DEF syscall_filter_add, syscall_allowed, Bitmaps
  <2> QED BY <2>2, <2>3
<1> QED BY <1>2, <1>3

\* One iteration of set_all_syscall lets the numbers of its word through.
LEMMA SetAllAllows ==
  ASSUME NEW bm \in Bitmaps, NEW w \in Words
  PROVE  /\ set_all_word(bm, w) \in Bitmaps
         /\ \A id \in 0 .. MAX_SYSCALLS - 1 :
              syscall_allowed(set_all_word(bm, w), id)
                <=> (id \div SYSCALL_WORD_BITS = w \/ syscall_allowed(bm, id))
<1>1. set_all_word(bm, w) \in Bitmaps
  BY DEF set_all_word, Bitmaps
<1>2. ASSUME NEW id \in 0 .. MAX_SYSCALLS - 1
      PROVE  syscall_allowed(set_all_word(bm, w), id)
                <=> (id \div SYSCALL_WORD_BITS = w \/ syscall_allowed(bm, id))
  <2>1. id \div SYSCALL_WORD_BITS \in Words /\ id % SYSCALL_WORD_BITS \in Bits
    BY WordAndBit
  <2>2. id >= 0 /\ id < MAX_SYSCALLS
    BY BitmapAssumption
  <2> QED BY <2>1, <2>2 DEF set_all_word, syscall_allowed, Bitmaps
<1> QED BY <1>1, <1>2

-----------------------------------------------------------------------------
(***************************************************************************)
(* The filter.  FilterInv adds to EnabledAllowed what the bitmap is before *)
(* the parsing starts and in the loop of set_all_syscall.                  *)
(***************************************************************************)

Allowed(id) == syscall_allowed(syscall_bitmap, id)

FilterInv ==
  /\ syscall_bitmap \in Bitmaps
  /\ word \in Nat
  /\ opc \in {"getopt", "filter"} =>
       syscall_bitmap = ZeroBitmap /\ enabled = {} /\ word = 0
  /\ opc = "parse" => syscall_filter_enabled
  /\ opc = "set_all" =>
       /\ ~syscall_filter_enabled
       /\ \A id \in 0 .. MAX_SYSCALLS - 1 :
            Allowed(id) <=> id \div SYSCALL_WORD_BITS < word
  /\ opc = "attach" /\ ~syscall_filter_enabled =>
       \A id \in 0 .. MAX_SYSCALLS - 1 : Allowed(id)
  /\ EnabledAllowed

\* Nothing passes a bitmap of zeros.
LEMMA ZeroAllows ==
  /\ ZeroBitmap \in Bitmaps
  /\ \A id \in 0 .. MAX_SYSCALLS - 1 : ~syscall_allowed(ZeroBitmap, id)
BY WordAndBit DEF ZeroBitmap, Bitmaps, syscall_allowed

\* FilterInv holds initially: the map is created zeroed.
LEMMA InitFilter == OInit => FilterInv
BY ZeroAllows DEF OInit, FilterInv, EnabledAllowed, Allowed

\* FilterInv is preserved: the bitmap changes in parse_add and set_all_syscall.
LEMMA NextFilter == FilterInv /\ [ONext]_ovars => FilterInv'
<1> SUFFICES ASSUME FilterInv, [ONext]_ovars PROVE FilterInv'
  OBVIOUS
<1> USE DEF FilterInv, EnabledAllowed, Allowed
<1>1. CASE Getopt
  <2>1. opc = "getopt" /\ opc' \in {"getopt", "filter", "return"}
        /\ UNCHANGED <<syscall_bitmap, enabled, word>>
    BY <1>1 DEF Getopt, opt_p, opt_c, opt_e, opt_t, opt_s, opt_h, opt_unknown,
                operand, getopt_end, Got, return, filterVars
  <2> QED BY <2>1, ZeroAllows
<1>2. CASE filter_begin
  <2>1. opc = "filter" /\ opc' \in {"parse", "set_all", "return"}
        /\ (opc' = "set_all" <=> ~syscall_filter_enabled)
        /\ UNCHANGED <<syscall_bitmap, enabled, word, syscall_filter_enabled>>
    BY <1>2 DEF filter_begin, return, cliVars, flagVars
  <2>2. \A id \in 0 .. MAX_SYSCALLS - 1 : id \div SYSCALL_WORD_BITS >= 0
    BY WordAndBit DEF Words
  <2>3. \A id \in 0 .. MAX_SYSCALLS - 1 : id \div SYSCALL_WORD_BITS \in Int
    BY WordAndBit DEF Words
  <2> QED BY <2>1, <2>2, <2>3, ZeroAllows
<1>3. CASE parse_blank \/ parse_unknown \/ parse_end \/ system_fails
  <2>1. /\ UNCHANGED <<syscall_bitmap, enabled, word, syscall_filter_enabled>>
        /\ \/ opc = "parse" /\ opc' \in {"parse", "attach"}
           \/ opc' = "return"
    BY <1>3 DEF parse_blank, parse_unknown, parse_end, system_fails, Token, return,
                cliVars, flagVars, filterVars
  <2> QED BY <2>1
<1>4. CASE parse_add
  <2>1. PICK nr \in 0 .. MAX_SYSCALLS - 1 :
          /\ syscall_bitmap' = syscall_filter_add(syscall_bitmap, nr)
          /\ enabled' = enabled \cup {nr}
    BY <1>4 DEF parse_add
  <2>2. opc = "parse" /\ UNCHANGED <<opc, word, syscall_filter_enabled>>
    BY <1>4 DEF parse_add, Token, cliVars, flagVars
  <2> QED BY <2>1, <2>2, AddAllows
<1>5. CASE set_all_syscall
  <2>1. opc = "set_all" /\ UNCHANGED <<enabled, syscall_filter_enabled>>
    BY <1>5 DEF set_all_syscall, cliVars, flagVars
  <2>2. CASE word \in Words
    <3>1. /\ syscall_bitmap' = set_all_word(syscall_bitmap, word)
          /\ word' = word + 1 /\ opc' = opc
      BY <1>5, <2>2 DEF set_all_syscall
    <3>2. ASSUME NEW id \in 0 .. MAX_SYSCALLS - 1
          PROVE  Allowed(id)' <=> id \div SYSCALL_WORD_BITS < word'
      <4>1. id \div SYSCALL_WORD_BITS \in Int
        BY WordAndBit DEF Words
      <4> QED BY <2>1, <2>2, <3>1, <4>1, SetAllAllows
    <3> QED BY <2>1, <2>2, <3>1, <3>2, SetAllAllows
  <2>3. CASE word \notin Words
    <3>1. opc' = "attach" /\ UNCHANGED <<word, syscall_bitmap>>
      BY <1>5, <2>3 DEF set_all_syscall
    <3>2. \A id \in 0 .. MAX_SYSCALLS - 1 : id \div SYSCALL_WORD_BITS < word
      BY <2>3, WordAndBit, BitmapAssumption DEF Words
    <3> QED BY <2>1, <3>1, <3>2
  <2> QED BY <2>2, <2>3
<1>6. CASE UNCHANGED ovars
  BY <1>6 DEF ovars, flagVars, filterVars
<1> QED BY <1>1, <1>2, <1>3, <1>4, <1>5, <1>6 DEF ONext, Filter

\* What "enable syscall:" reports is what trace_enter lets through.
THEOREM ReportedIsAllowed == OSafety => []EnabledAllowed
<1>1. FilterInv => EnabledAllowed
  BY DEF FilterInv
<1> QED BY <1>1, InitFilter, NextFilter, PTL DEF OSafety

\* Without -e, every system call is let through when the programs get attached.
THEOREM AllAllowed ==
  OSafety => [](opc = "attach" /\ ~syscall_filter_enabled =>
                  \A id \in 0 .. MAX_SYSCALLS - 1 : syscall_allowed(syscall_bitmap, id))
<1>1. FilterInv => (opc = "attach" /\ ~syscall_filter_enabled =>
                  \A id \in 0 .. MAX_SYSCALLS - 1 : syscall_allowed(syscall_bitmap, id))
  BY DEF FilterInv, Allowed
<1> QED BY <1>1, InitFilter, NextFilter, PTL DEF OSafety

-----------------------------------------------------------------------------
(***************************************************************************)
(* The command line.  SeenInv says of the options that getopt has returned *)
(* what CommandMeaning says of all of them.                                *)
(***************************************************************************)

Seen(n, o) == {i \in 1 .. n - 1 : argv[i].opt = o}
LastSeen(n, o) == argv[Max(Seen(n, o))]

Sees32(n) == \E i \in Seen(n, "t") : IsPrefix(<<"3", "2">>, argv[i].text)

SeenRefused == Seen(optind, "h") = {} /\ Seen(optind, "?") = {}
SeenOperand == operands <=> Seen(optind, "operand") # {}
SeenPid ==
  /\ \A i \in Seen(optind, "p") : argv[i].whole /\ argv[i].num \in 1 .. MaxPid
  /\ have_pid <=> Seen(optind, "p") # {}
  /\ target_pid = IF have_pid THEN LastSeen(optind, "p").num ELSE 0
SeenComm ==
  /\ have_comm <=> Seen(optind, "c") # {}
  /\ have_comm => target_comm = Comm(LastSeen(optind, "c").text)
SeenTarget ==
  /\ have_pid /\ ~have_comm => filter_type = FILTER_PID
  /\ have_comm /\ ~have_pid => filter_type = FILTER_COMM
SeenFilter ==
  /\ syscall_filter_enabled <=> Seen(optind, "e") # {}
  /\ syscall_filter_enabled => syscall_filter_arg = LastSeen(optind, "e").text
SeenStack == print_stack_enabled <=> Seen(optind, "s") # {}
SeenAbi   == enable_32 <=> Sees32(optind)

SeenInv == /\ SeenRefused /\ SeenOperand /\ SeenPid /\ SeenComm /\ SeenTarget
           /\ SeenFilter /\ SeenStack /\ SeenAbi

Flags == {operands, have_pid, have_comm, syscall_filter_enabled,
          print_stack_enabled, enable_32} \subseteq BOOLEAN

CommandInv ==
  /\ argv \in Seq(Option)
  /\ optind \in 1 .. Len(argv) + 1
  /\ Flags
  /\ opc = "getopt" => SeenInv
  /\ CommandMeaning

\* The option that getopt returns is the last one of its kind.
LEMMA SeenStep ==
  ASSUME argv \in Seq(Option), optind \in 1 .. Len(argv)
  PROVE  /\ Seen(optind + 1, argv[optind].opt)
               = Seen(optind, argv[optind].opt) \cup {optind}
         /\ Max(Seen(optind + 1, argv[optind].opt)) = optind
         /\ \A o : o # argv[optind].opt => Seen(optind + 1, o) = Seen(optind, o)
<1>1. Seen(optind + 1, argv[optind].opt)
               = Seen(optind, argv[optind].opt) \cup {optind}
  BY DEF Seen
<1>2. \A o : o # argv[optind].opt => Seen(optind + 1, o) = Seen(optind, o)
  BY DEF Seen
<1>3. Max(Seen(optind + 1, argv[optind].opt)) = optind
  <2> DEFINE S == Seen(optind + 1, argv[optind].opt)
  <2>1. S \in SUBSET Int /\ optind \in S /\ \A i \in S : i <= optind
    BY DEF Seen
  <2> HIDE DEF S
  <2>2. Max(S) = optind
    BY <2>1, MaxIs
  <2> QED BY <2>2 DEF S
<1> QED BY <1>1, <1>2, <1>3

\* CommandInv holds initially: no option has been returned.
LEMMA InitCommand == OInit => CommandInv
<1> SUFFICES ASSUME OInit PROVE CommandInv
  OBVIOUS
<1>1. argv \in Seq(Option) /\ optind = 1 /\ opc = "getopt"
  BY OptionsAssumption DEF OInit
<1>2. \A o : Seen(optind, o) = {}
  BY <1>1 DEF Seen
<1>3. SeenInv
  BY <1>2 DEF OInit, SeenInv, SeenRefused, SeenOperand, SeenPid, SeenComm, SeenTarget,
     SeenFilter, SeenStack, SeenAbi, Sees32
<1>4. Flags /\ CommandMeaning
  BY DEF OInit, Flags, CommandMeaning
<1> QED BY <1>1, <1>3, <1>4 DEF CommandInv

\* Nothing changes for option o.
SeenSame(o) == /\ Seen(optind, o)' = Seen(optind, o)
               /\ LastSeen(optind, o)' = LastSeen(optind, o)

\* The part of CommandInv about an option stays true while getopt returns others
\* and the variables that the option sets do not change.
LEMMA SeenKept ==
  ASSUME SeenInv, UNCHANGED argv
  PROVE  /\ SeenSame("h") /\ SeenSame("?") => SeenRefused'
         /\ SeenSame("operand") /\ UNCHANGED operands => SeenOperand'
         /\ SeenSame("p") /\ UNCHANGED <<have_pid, target_pid>> => SeenPid'
         /\ SeenSame("c") /\ UNCHANGED <<have_comm, target_comm>> => SeenComm'
         /\ UNCHANGED <<have_pid, have_comm, filter_type>> => SeenTarget'
         /\ SeenSame("e") /\ UNCHANGED <<syscall_filter_enabled, syscall_filter_arg>>
              => SeenFilter'
         /\ SeenSame("s") /\ UNCHANGED print_stack_enabled => SeenStack'
         /\ SeenSame("t") /\ UNCHANGED enable_32 => SeenAbi'
<1>1. SeenSame("h") /\ SeenSame("?") => SeenRefused'
  BY DEF SeenInv, SeenRefused, SeenSame
<1>2. SeenSame("operand") /\ UNCHANGED operands => SeenOperand'
  BY DEF SeenInv, SeenOperand, SeenSame
<1>3. SeenSame("p") /\ UNCHANGED <<have_pid, target_pid>> => SeenPid'
  BY DEF SeenInv, SeenPid, SeenSame
<1>4. SeenSame("c") /\ UNCHANGED <<have_comm, target_comm>> => SeenComm'
  BY DEF SeenInv, SeenComm, SeenSame
<1>5. UNCHANGED <<have_pid, have_comm, filter_type>> => SeenTarget'
  BY DEF SeenInv, SeenTarget
<1>6. SeenSame("e") /\ UNCHANGED <<syscall_filter_enabled, syscall_filter_arg>>
        => SeenFilter'
  BY DEF SeenInv, SeenFilter, SeenSame
<1>7. SeenSame("s") /\ UNCHANGED print_stack_enabled => SeenStack'
  BY DEF SeenInv, SeenStack, SeenSame
<1>8. SeenSame("t") /\ UNCHANGED enable_32 => SeenAbi'
  BY DEF SeenInv, SeenAbi, Sees32, SeenSame
<1> QED BY <1>1, <1>2, <1>3, <1>4, <1>5, <1>6, <1>7, <1>8

\* What it means for SeenInv that getopt returned o and main goes on.
LEMMA GotStep ==
  ASSUME CommandInv, NEW o, Got(o), UNCHANGED argv
  PROVE  /\ opc = "getopt" /\ SeenInv
         /\ argv' \in Seq(Option) /\ optind' \in 1 .. Len(argv') + 1
         /\ optind \in 1 .. Len(argv) /\ argv[optind] \in Option
         /\ Seen(optind, o)' = Seen(optind, o) \cup {optind}
         /\ LastSeen(optind, o)' = argv[optind]
         /\ \A q : q # o => SeenSame(q)
<1>1. /\ optind \in 1 .. Len(argv) /\ argv \in Seq(Option) /\ opc = "getopt"
      /\ argv[optind].opt = o /\ optind' = optind + 1 /\ SeenInv
  BY DEF Got, CommandInv
<1>2. \A q : Seen(optind, q)' = Seen(optind + 1, q)
  BY <1>1 DEF Seen
<1>3. \A q : LastSeen(optind, q)' = LastSeen(optind + 1, q)
  BY <1>2 DEF LastSeen
<1>4. Seen(optind, o)' = Seen(optind, o) \cup {optind}
  BY <1>1, <1>2, SeenStep
<1>5. LastSeen(optind, o)' = argv[optind]
  BY <1>1, <1>3, SeenStep DEF LastSeen
<1>6. \A q : q # o => SeenSame(q)
  BY <1>1, <1>2, <1>3, SeenStep DEF LastSeen, SeenSame
<1> QED BY <1>1, <1>4, <1>5, <1>6

\* CommandInv is preserved: each option changes what depends on its kind.
LEMMA NextCommand == CommandInv /\ [ONext]_ovars => CommandInv'
<1> SUFFICES ASSUME CommandInv, [ONext]_ovars PROVE CommandInv'
  OBVIOUS
<1>1. ASSUME NEW o, Got(o), opc' = "getopt", UNCHANGED argv, SeenInv', Flags'
      PROVE  CommandInv'
  BY <1>1, GotStep DEF CommandInv, CommandMeaning
<1>3. ASSUME UNCHANGED <<argv, optind, operands, targetVars, flagVars>>, opc # "getopt",
             opc' # "getopt",
             opc' \in {"filter", "parse", "set_all", "attach"} =>
               opc \in {"filter", "parse", "set_all", "attach"}
      PROVE  CommandInv'
  BY <1>3 DEF CommandInv, CommandMeaning, Flags, Given, LastGiven, targetVars, flagVars
<1>4. ASSUME Got("p") \/ Got("h") \/ Got("?"), opc' = "return",
             UNCHANGED <<argv, operands, targetVars, flagVars>>
      PROVE  CommandInv'
  BY <1>4 DEF CommandInv, CommandMeaning, Got, Flags, targetVars, flagVars
<1>5. CASE opt_p
  <2>1. CASE ~ValidPid(optarg)
    BY <1>4, <1>5, <2>1 DEF opt_p, return
  <2>2. CASE ValidPid(optarg)
    <3>1. /\ Got("p") /\ opc = "getopt" /\ opc' = "getopt" /\ UNCHANGED argv
          /\ filter_type' = FILTER_PID /\ target_pid' = argv[optind].num
          /\ have_pid' = TRUE
          /\ UNCHANGED <<operands, target_comm, have_comm, flagVars>>
      BY <1>5, <2>2 DEF opt_p, optarg, Got
    <3>2. argv[optind].whole /\ argv[optind].num \in 1 .. MaxPid
      <4>1. argv[optind] \in Option
        BY <3>1, GotStep
      <4> QED BY <2>2, <4>1, OptionsAssumption DEF ValidPid, optarg, Option
    <3>3. /\ SeenInv
          /\ Seen(optind, "p")' = Seen(optind, "p") \cup {optind}
          /\ LastSeen(optind, "p")' = argv[optind]
          /\ \A q : q # "p" => SeenSame(q)
      BY <3>1, GotStep
    <3>4. /\ SeenSame("h") /\ SeenSame("?") /\ SeenSame("operand") /\ SeenSame("c")
          /\ SeenSame("e") /\ SeenSame("s") /\ SeenSame("t")
      BY <3>3
    <3>5. SeenPid'
      BY <3>1, <3>2, <3>3 DEF SeenInv, SeenPid
    <3>6. SeenTarget'
      BY <3>1 DEF SeenTarget
    <3>7. SeenInv'
      BY <3>1, <3>3, <3>4, <3>5, <3>6, SeenKept DEF SeenInv, flagVars
    <3>8. Flags'
      BY <3>1 DEF Flags, CommandInv, flagVars
    <3> QED BY <1>1, <3>1, <3>7, <3>8
  <2> QED BY <2>1, <2>2
<1>6. CASE opt_c
  <2>1. /\ Got("c") /\ opc' = "getopt" /\ UNCHANGED argv
        /\ filter_type' = FILTER_COMM /\ target_comm' = Comm(argv[optind].text)
        /\ have_comm' = TRUE
        /\ UNCHANGED <<operands, target_pid, have_pid, syscall_filter_enabled,
                      print_stack_enabled, enable_32, syscall_filter_arg>>
    BY <1>6 DEF opt_c, Got, optarg, targetVars, flagVars
  <2>2. /\ SeenInv
        /\ Seen(optind, "c")' = Seen(optind, "c") \cup {optind}
        /\ LastSeen(optind, "c")' = argv[optind]
        /\ \A q : q # "c" => SeenSame(q)
    BY <2>1, GotStep
  <2>3. /\ SeenSame("h") /\ SeenSame("?") /\ SeenSame("operand") /\ SeenSame("p")
        /\ SeenSame("e") /\ SeenSame("s") /\ SeenSame("t")
    BY <2>2
  <2>4. SeenComm'
    BY <2>1, <2>2 DEF SeenInv, SeenComm
  <2>5. SeenTarget'
    BY <2>1 DEF SeenTarget
  <2>6. SeenInv'
    BY <2>1, <2>2, <2>3, <2>4, <2>5, SeenKept DEF SeenInv
  <2>7. Flags'
    BY <2>1 DEF Flags, CommandInv
  <2> QED BY <1>1, <2>1, <2>6, <2>7
<1>7. CASE opt_e
  <2>1. /\ Got("e") /\ opc' = "getopt" /\ UNCHANGED argv
        /\ syscall_filter_enabled' = TRUE /\ syscall_filter_arg' = argv[optind].text
        /\ UNCHANGED <<operands, filter_type, target_pid, target_comm, have_pid,
                      have_comm, print_stack_enabled, enable_32>>
    BY <1>7 DEF opt_e, Got, optarg, targetVars, flagVars
  <2>2. /\ SeenInv
        /\ Seen(optind, "e")' = Seen(optind, "e") \cup {optind}
        /\ LastSeen(optind, "e")' = argv[optind]
        /\ \A q : q # "e" => SeenSame(q)
    BY <2>1, GotStep
  <2>3. /\ SeenSame("h") /\ SeenSame("?") /\ SeenSame("operand") /\ SeenSame("p")
        /\ SeenSame("c") /\ SeenSame("s") /\ SeenSame("t")
    BY <2>2
  <2>4. SeenFilter'
    BY <2>1, <2>2 DEF SeenInv, SeenFilter
  <2>6. SeenInv'
    BY <2>1, <2>2, <2>3, <2>4, SeenKept DEF SeenInv
  <2>7. Flags'
    BY <2>1 DEF Flags, CommandInv
  <2> QED BY <1>1, <2>1, <2>6, <2>7
<1>8. CASE opt_t
  <2>1. /\ Got("t") /\ opc' = "getopt" /\ UNCHANGED argv
        /\ enable_32' = (enable_32 \/ IsPrefix(<<"3", "2">>, argv[optind].text))
        /\ UNCHANGED <<operands, filter_type, target_pid, target_comm, have_pid,
                      have_comm, syscall_filter_enabled, print_stack_enabled,
                      syscall_filter_arg>>
    BY <1>8 DEF opt_t, Got, optarg, targetVars, flagVars
  <2>2. /\ SeenInv
        /\ Seen(optind, "t")' = Seen(optind, "t") \cup {optind}
        /\ LastSeen(optind, "t")' = argv[optind]
        /\ \A q : q # "t" => SeenSame(q)
    BY <2>1, GotStep
  <2>3. /\ SeenSame("h") /\ SeenSame("?") /\ SeenSame("operand") /\ SeenSame("p")
        /\ SeenSame("c") /\ SeenSame("e") /\ SeenSame("s")
    BY <2>2
  <2>4. SeenAbi'
    BY <2>1, <2>2 DEF SeenInv, SeenAbi, Sees32
  <2>6. SeenInv'
    BY <2>1, <2>2, <2>3, <2>4, SeenKept DEF SeenInv
  <2>7. Flags'
    BY <2>1 DEF Flags, CommandInv
  <2> QED BY <1>1, <2>1, <2>6, <2>7
<1>9. CASE opt_s
  <2>1. /\ Got("s") /\ opc' = "getopt" /\ UNCHANGED argv
        /\ print_stack_enabled' = TRUE
        /\ UNCHANGED <<operands, filter_type, target_pid, target_comm, have_pid,
                      have_comm, syscall_filter_enabled, enable_32,
                      syscall_filter_arg>>
    BY <1>9 DEF opt_s, Got, optarg, targetVars, flagVars
  <2>2. /\ SeenInv
        /\ Seen(optind, "s")' = Seen(optind, "s") \cup {optind}
        /\ LastSeen(optind, "s")' = argv[optind]
        /\ \A q : q # "s" => SeenSame(q)
    BY <2>1, GotStep
  <2>3. /\ SeenSame("h") /\ SeenSame("?") /\ SeenSame("operand") /\ SeenSame("p")
        /\ SeenSame("c") /\ SeenSame("e") /\ SeenSame("t")
    BY <2>2
  <2>4. SeenStack'
    BY <2>1, <2>2 DEF SeenInv, SeenStack
  <2>6. SeenInv'
    BY <2>1, <2>2, <2>3, <2>4, SeenKept DEF SeenInv
  <2>7. Flags'
    BY <2>1 DEF Flags, CommandInv
  <2> QED BY <1>1, <2>1, <2>6, <2>7
<1>10. CASE operand
  <2>1. /\ Got("operand") /\ opc' = "getopt" /\ UNCHANGED argv
        /\ operands' = TRUE
        /\ UNCHANGED <<filter_type, target_pid, target_comm, have_pid, have_comm,
                      syscall_filter_enabled, print_stack_enabled, enable_32,
                      syscall_filter_arg>>
    BY <1>10 DEF operand, Got, optarg, targetVars, flagVars
  <2>2. /\ SeenInv
        /\ Seen(optind, "operand")' = Seen(optind, "operand") \cup {optind}
        /\ LastSeen(optind, "operand")' = argv[optind]
        /\ \A q : q # "operand" => SeenSame(q)
    BY <2>1, GotStep
  <2>3. /\ SeenSame("h") /\ SeenSame("?") /\ SeenSame("p") /\ SeenSame("c")
        /\ SeenSame("e") /\ SeenSame("s") /\ SeenSame("t")
    BY <2>2
  <2>4. SeenOperand'
    BY <2>1, <2>2 DEF SeenInv, SeenOperand
  <2>6. SeenInv'
    BY <2>1, <2>2, <2>3, <2>4, SeenKept DEF SeenInv
  <2>7. Flags'
    BY <2>1 DEF Flags, CommandInv
  <2> QED BY <1>1, <2>1, <2>6, <2>7
<1>11. CASE opt_h \/ opt_unknown
  BY <1>4, <1>11 DEF opt_h, opt_unknown, return
<1>12. CASE getopt_end
  <2>1. /\ opc = "getopt" /\ SeenInv /\ optind = Len(argv) + 1
        /\ UNCHANGED <<argv, optind, operands, targetVars, flagVars>>
        /\ (Accepted /\ opc' = "filter") \/ opc' = "return"
    BY <1>12 DEF getopt_end, CommandInv, return
  <2>2. \A o : Seen(optind, o) = Given(o) /\ LastSeen(optind, o) = LastGiven(o)
    BY <2>1 DEF Seen, Given, LastSeen, LastGiven, CommandInv
  <2>3. UNCHANGED <<Given("h"), Given("?"), Given("operand"), Given("p"), Given("c"),
                    Given("e"), Given("s"), Given("t")>>
        /\ UNCHANGED <<LastGiven("p"), LastGiven("c"), LastGiven("e")>>
    BY <2>1 DEF Given, LastGiven
  <2>4. Accepted => CommandMeaning'
    BY <2>1, <2>2, <2>3
    DEF Accepted, SeenInv, SeenRefused, SeenOperand, SeenPid, SeenComm, SeenTarget,
        SeenFilter, SeenStack, SeenAbi, Sees32, CommandMeaning, CommandInv,
        Flags, targetVars, flagVars
  <2> QED BY <2>1, <2>4 DEF CommandInv, CommandMeaning, Flags, targetVars, flagVars
<1>13. CASE Filter \/ system_fails
  BY <1>3, <1>13 DEF Filter, filter_begin, parse_blank, parse_unknown, parse_add,
     parse_end, set_all_syscall, system_fails, Token, return, cliVars
<1>14. CASE UNCHANGED ovars
  <2>1. UNCHANGED <<opc, argv, optind, operands, targetVars, flagVars>>
    BY <1>14 DEF ovars
  <2>2. CASE opc = "getopt"
    <3>1. \A o : SeenSame(o)
      BY <2>1 DEF SeenSame, Seen, LastSeen
    <3>2. SeenInv'
      BY <2>1, <2>2, <3>1, SeenKept DEF CommandInv, SeenInv, targetVars, flagVars
    <3> QED BY <2>1, <2>2, <3>2 DEF CommandInv, CommandMeaning, Flags, targetVars, flagVars
  <2>3. CASE opc # "getopt"
    BY <1>3, <2>1, <2>3
  <2> QED BY <2>2, <2>3
<1> QED BY <1>5, <1>6, <1>7, <1>8, <1>9, <1>10, <1>11, <1>12, <1>13, <1>14 DEF ONext, Getopt

\* The last option of a kind is one of its kind.
LEMMA LastIs ==
  ASSUME argv \in Seq(Option), NEW o, Given(o) # {}
  PROVE  \E i \in Given(o) : LastGiven(o) = argv[i]
<1>1. Given(o) \in SUBSET (0 .. Len(argv)) /\ Len(argv) \in Nat
  BY DEF Given
<1>2. Max(Given(o)) \in Given(o)
  BY <1>1, MaxOf
<1> QED BY <1>2 DEF LastGiven

\* When the getopt loop has accepted a command line, all of it has been seen.
LEMMA GetoptDone ==
  ASSUME CommandInv, getopt_end, opc' = "filter"
  PROVE  /\ have_pid <=> Given("p") # {}
         /\ have_comm <=> Given("c") # {}
         /\ have_pid # have_comm
         /\ filter_type = IF have_pid THEN FILTER_PID ELSE FILTER_COMM
         /\ target_pid = IF have_pid THEN LastGiven("p").num ELSE 0
         /\ have_comm => target_comm = Comm(LastGiven("c").text)
         /\ syscall_filter_enabled <=> Given("e") # {}
         /\ print_stack_enabled <=> Given("s") # {}
         /\ {have_pid, have_comm, syscall_filter_enabled, print_stack_enabled} \subseteq BOOLEAN
<1>1. SeenInv /\ optind = Len(argv) + 1 /\ Accepted
  BY DEF getopt_end, CommandInv, return
<1>2. \A o : Seen(optind, o) = Given(o) /\ LastSeen(optind, o) = LastGiven(o)
  BY <1>1 DEF Seen, Given, LastSeen, LastGiven, CommandInv
<1> QED BY <1>1, <1>2 DEF Accepted, SeenInv, SeenPid, SeenComm, SeenTarget, SeenFilter,
        SeenStack, CommandInv, Flags

\* The configuration that main writes is what the last -p, -c and -e say and what any -s
\* and any -t 32 switch on, for command lines of every length.
THEOREM CommandUnderstood == OSafety => []CommandMeaning
<1>1. CommandInv => CommandMeaning
  BY DEF CommandInv
<1> QED BY <1>1, InitCommand, NextCommand, PTL DEF OSafety

-----------------------------------------------------------------------------
(***************************************************************************)
(* parse_syscall_filter: the invariant of its loop.                        *)
(***************************************************************************)

\* The field of t from b to e - 1.
Field(t, b, e) ==
  Edge(t, b - 1) /\ Edge(t, e) /\ \A k \in b .. e - 1 : t[k] # Comma

\* The names of t that begin before b have been looked up in T, which gave S.
Done(S, T, t, b) ==
  /\ \A i \in 1 .. b - 1, j \in 1 .. Len(t) :
       IsName(t, i, j) => \E n \in S : T[n] = SubSeq(t, i, j)
  /\ \A n \in S :
       \E i \in 1 .. b - 1, j \in 1 .. Len(t) :
         IsName(t, i, j) /\ T[n] = SubSeq(t, i, j)

\* The field f begins at b, and rest is what follows it.
AtField(f, rest, t, b) ==
  \/ f = NoText /\ b = Len(t) + 1
  \/ \E e \in b + 1 .. Len(t) + 1 :
       /\ Field(t, b, e)
       /\ f = SubSeq(t, b, e - 1)
       /\ rest = SubSeq(t, e + 1, Len(t))

\* Where the loop is.
Parsed(S, T, t, f, rest) ==
  \E b \in 1 .. Len(t) + 1 : Done(S, T, t, b) /\ AtField(f, rest, t, b)

ParseInv ==
  /\ syscall_filter_enabled => syscall_filter_arg \in Seq(STRING)
  /\ count \in Nat /\ (count = 0 <=> enabled = {})
  /\ enabled \subseteq DOMAIN Table
  /\ opc \in {"getopt", "filter"} => enabled = {}
  /\ opc = "parse" =>
       syscall_filter_enabled /\ Parsed(enabled, Table, syscall_filter_arg, token, saveptr)
  /\ opc = "set_all" => ~syscall_filter_enabled
  /\ opc = "attach" /\ syscall_filter_enabled =>
       /\ enabled # {}
       /\ Done(enabled, Table, syscall_filter_arg, Len(syscall_filter_arg) + 1)

-----------------------------------------------------------------------------
(***************************************************************************)
(* Texts.                                                                  *)
(***************************************************************************)

\* Find stops at the first character it looks for, or at the end.
LEMMA FindIs ==
  ASSUME NEW s \in Seq(STRING), NEW i \in 1 .. Len(s) + 1, NEW c
  PROVE  /\ Find(s, i, c) \in i .. Len(s) + 1
         /\ \A k \in i .. Find(s, i, c) - 1 : s[k] # c
         /\ Find(s, i, c) <= Len(s) => s[Find(s, i, c)] = c
<1> DEFINE S == {j \in i .. Len(s) : s[j] = c} \cup {Len(s) + 1}
<1>1. S \in SUBSET Nat /\ S # {}
  OBVIOUS
<1>2. Min(S) \in S /\ \A y \in S : Min(S) <= y
  BY <1>1, MinOf
<1>3. Find(s, i, c) = Min(S)
  BY DEF Find
<1>4. Len(s) + 1 \in S /\ \A k \in i .. Len(s) : s[k] = c => k \in S
  OBVIOUS
<1> DEFINE m == Min(S)
<1>5. m \in i .. Len(s) + 1 /\ (m <= Len(s) => s[m] = c)
  BY <1>2
<1>6. ASSUME NEW k \in i .. m - 1 PROVE s[k] # c
  BY <1>2, <1>4, <1>5
<1> QED BY <1>3, <1>5, <1>6

\* From i on, m is the first position that does not hold c.
Skips(s, i, c, m) ==
  /\ m \in i .. Len(s) + 1
  /\ \A k \in i .. m - 1 : s[k] = c
  /\ m <= Len(s) => s[m] # c

\* Skip stops there, or at the end.
LEMMA SkipIs ==
  ASSUME NEW s \in Seq(STRING), NEW i, i \in 1 .. Len(s) + 1, NEW c
  PROVE  Skips(s, i, c, Skip(s, i, c))
<1> DEFINE S == {j \in i .. Len(s) : s[j] # c} \cup {Len(s) + 1}
<1>1. S \in SUBSET Nat /\ S # {}
  OBVIOUS
<1>2. Min(S) \in S /\ \A y \in S : Min(S) <= y
  BY <1>1, MinOf
<1>3. Skip(s, i, c) = Min(S)
  BY DEF Skip
<1>4. Len(s) + 1 \in S /\ \A k \in i .. Len(s) : s[k] # c => k \in S
  OBVIOUS
<1> DEFINE m == Min(S)
<1>5. m \in i .. Len(s) + 1 /\ (m <= Len(s) => s[m] # c)
  BY <1>2
<1>6. ASSUME NEW k \in i .. m - 1 PROVE s[k] = c
  BY <1>2, <1>4, <1>5
<1> QED BY <1>3, <1>5, <1>6 DEF Skips

\* A part of a text is a text, character by character.
LEMMA PartIs ==
  ASSUME NEW t \in Seq(STRING), NEW p \in 1 .. Len(t) + 2, NEW q \in 0 .. Len(t)
  PROVE  /\ SubSeq(t, p, q) \in Seq(STRING)
         /\ Len(SubSeq(t, p, q)) = IF p <= q THEN q - p + 1 ELSE 0
         /\ \A i \in 1 .. q - p + 1 : SubSeq(t, p, q)[i] = t[p + i - 1]
<1>1. \A i \in p .. q : t[i] \in STRING
  OBVIOUS
<1> QED BY <1>1, SubSeqProperties

\* A part of a part of a text is a part of the text.
LEMMA PartOfPart ==
  ASSUME NEW t \in Seq(STRING), NEW p \in 1 .. Len(t) + 2, NEW q \in 0 .. Len(t),
         NEW m \in Int, NEW n \in Int, 1 <= m, n <= Len(SubSeq(t, p, q))
  PROVE  SubSeq(SubSeq(t, p, q), m, n) = SubSeq(t, p + m - 1, p + n - 1)
<1> DEFINE s == SubSeq(t, p, q)
<1>1. s \in Seq(STRING) /\ Len(s) = (IF p <= q THEN q - p + 1 ELSE 0)
      /\ \A i \in 1 .. q - p + 1 : s[i] = t[p + i - 1]
  BY PartIs
<1>2. CASE n < m
  <2>1. SubSeq(s, m, n) = << >> /\ SubSeq(t, p + m - 1, p + n - 1) = << >>
    BY <1>2, SubSeqEmpty
  <2> QED BY <2>1
<1>3. CASE m <= n
  <2>1. p <= q /\ Len(s) = q - p + 1 /\ p + n - 1 <= q
    BY <1>1, <1>3
  <2>2. p \in 1 .. Len(t) /\ q \in 1 .. Len(t) /\ m \in 1 .. q - p + 1 /\ n \in 1 .. q - p + 1
    BY <1>3, <2>1
  <2> QED BY <2>2, SubSeqOfSubSeq
<1> QED BY <1>2, <1>3

\* strtok_r passes over commas and stops at a field, or at the end of the text.
LEMMA StrtokIs ==
  ASSUME NEW t \in Seq(STRING), NEW p \in 1 .. Len(t) + 2, Edge(t, p - 1),
         NEW s, s = SubSeq(t, p, Len(t))
  PROVE  /\ strtok(s).token \in Seq(STRING) \cup {NoText}
         /\ strtok(s).saveptr \in Seq(STRING)
         /\ \E b \in 1 .. Len(t) + 1 :
              /\ b = Len(t) + 1 \/ p <= b
              /\ \A k \in p .. b - 1 : t[k] = Comma
              /\ \/ strtok(s).token = NoText /\ b = Len(t) + 1
                 \/ \E e \in b + 1 .. Len(t) + 1 :
                      /\ Field(t, b, e)
                      /\ strtok(s).token = SubSeq(t, b, e - 1)
                      /\ strtok(s).saveptr = SubSeq(t, e + 1, Len(t))
<1> DEFINE N == Len(t)
           L == Len(s)
           b0 == Skip(s, 1, Comma)
           e0 == Find(s, b0, Comma)
<1>1. s \in Seq(STRING) /\ L = (IF p <= N THEN N - p + 1 ELSE 0)
      /\ \A i \in 1 .. N - p + 1 : s[i] = t[p + i - 1]
  BY PartIs
<1>2. N \in Nat /\ L \in Nat /\ 1 \in 1 .. L + 1
  BY <1>1
<1>c. \A k \in p .. N : L = N - p + 1 /\ k - p + 1 \in 1 .. L /\ s[k - p + 1] = t[k]
  <2> SUFFICES ASSUME NEW k \in p .. N
               PROVE  L = N - p + 1 /\ k - p + 1 \in 1 .. L /\ s[k - p + 1] = t[k]
    OBVIOUS
  <2>1. L = N - p + 1 /\ k - p + 1 \in 1 .. L
    BY <1>1, <1>2
  <2>2. s[k - p + 1] = t[p + (k - p + 1) - 1] /\ p + (k - p + 1) - 1 = k
    BY <1>1, <1>2, <2>1
  <2> QED BY <2>1, <2>2
<1>3. /\ b0 \in 1 .. L + 1
      /\ \A k \in 1 .. b0 - 1 : s[k] = Comma
      /\ b0 <= L => s[b0] # Comma
  <2>1. s \in Seq(STRING) /\ 1 \in 1 .. Len(s) + 1
    BY <1>1, <1>2
  <2>2. Skips(s, 1, Comma, b0)
    BY <2>1, SkipIs
  <2> HIDE DEF b0
  <2> QED BY <2>2 DEF Skips
<1>4. /\ e0 \in b0 .. L + 1
      /\ \A k \in b0 .. e0 - 1 : s[k] # Comma
      /\ e0 <= L => s[e0] = Comma
  BY <1>1, <1>2, <1>3, FindIs
<1>5. /\ strtok(s).token = IF b0 > L THEN NoText ELSE SubSeq(s, b0, e0 - 1)
      /\ strtok(s).saveptr = SubSeq(s, e0 + 1, L)
  BY DEF strtok
<1>p. p \in 1 .. N + 2
  OBVIOUS
<1>6. SubSeq(s, b0, e0 - 1) \in Seq(STRING) /\ SubSeq(s, e0 + 1, L) \in Seq(STRING)
  <2>1. b0 \in 1 .. L + 2 /\ e0 - 1 \in 0 .. L /\ e0 + 1 \in 1 .. L + 2 /\ L \in 0 .. L
    BY <1>2, <1>3, <1>4
  <2> HIDE DEF b0, e0
  <2> QED BY <1>1, <2>1, PartIs
<1> HIDE DEF N, L, b0, e0
<1>7. CASE b0 > L
  <2>1. strtok(s).token = NoText
    BY <1>5, <1>7, <1>2, <1>p, <1>3
  <2>2. \A k \in p .. N : t[k] = Comma
    <3> SUFFICES ASSUME NEW k \in p .. N PROVE t[k] = Comma
      OBVIOUS
    <3>1. k - p + 1 \in 1 .. L /\ s[k - p + 1] = t[k]
      BY <1>c
    <3>2. b0 - 1 = L
      BY <1>2, <1>3, <1>7
    <3> QED BY <1>3, <3>1, <3>2
  <2>3. N + 1 \in 1 .. N + 1 /\ \A k \in p .. N + 1 - 1 : t[k] = Comma
    BY <1>2, <1>p, <2>2
  <2>4. strtok(s).token \in Seq(STRING) \cup {NoText} /\ strtok(s).saveptr \in Seq(STRING)
    BY <1>5, <1>6, <2>1
  <2> QED BY <2>1, <2>3, <2>4 DEF N
<1>8. CASE b0 <= L
  <2> DEFINE b == p + b0 - 1
             e == p + e0 - 1
  <2>0. p <= N /\ L = N - p + 1
    BY <1>1, <1>2, <1>p, <1>3, <1>8
  <2>e. e0 > b0
    <3>1. b0 # e0
      BY <1>2, <1>3, <1>4, <1>8
    <3> QED BY <1>2, <1>3, <1>4, <3>1
  <2>1. p <= N /\ L = N - p + 1 /\ b \in p .. N /\ e \in b + 1 .. N + 1
    BY <2>0, <2>e, <1>2, <1>p, <1>3, <1>4, <1>8
  <2>2. \A k \in p .. N : k - p + 1 \in 1 .. L /\ s[k - p + 1] = t[k]
    BY <1>c
  <2>3. \A k \in p .. b - 1 : t[k] = Comma
    <3> SUFFICES ASSUME NEW k \in p .. b - 1 PROVE t[k] = Comma
      OBVIOUS
    <3>1. k \in p .. N /\ k - p + 1 \in 1 .. b0 - 1
      BY <1>2, <1>p, <1>3, <2>1
    <3> QED BY <1>3, <2>2, <3>1
  <2>4. \A k \in b .. e - 1 : t[k] # Comma
    <3> SUFFICES ASSUME NEW k \in b .. e - 1 PROVE t[k] # Comma
      OBVIOUS
    <3>1. k \in p .. N /\ k - p + 1 \in b0 .. e0 - 1
      BY <1>2, <1>p, <1>3, <1>4, <2>1
    <3> QED BY <1>4, <2>2, <3>1
  <2>5. Edge(t, e)
    <3>1. CASE e0 <= L
      <4>1. e \in p .. N /\ e - p + 1 = e0
        BY <1>2, <1>p, <1>4, <2>1, <3>1
      <4>2. t[e] = s[e0]
        BY <2>2, <4>1
      <4> QED BY <1>4, <3>1, <4>2 DEF Edge
    <3>2. CASE ~(e0 <= L)
      <4>1. e = N + 1
        BY <1>2, <1>p, <1>4, <2>1, <3>2
      <4> QED BY <4>1 DEF Edge, N
    <3> QED BY <3>1, <3>2
  <2>6. Edge(t, b - 1)
    <3>1. CASE b0 = 1
      BY <3>1, <2>1, <1>2, <1>p
    <3>2. CASE b0 # 1
      <4>1. b - 1 \in p .. b - 1
        BY <1>2, <1>p, <1>3, <2>1, <3>2
      <4> QED BY <2>3, <4>1 DEF Edge
    <3> QED BY <3>1, <3>2
  <2>7. SubSeq(s, b0, e0 - 1) = SubSeq(t, b, e - 1)
    <3>1. e0 - 1 \in Int /\ b0 \in Int /\ 1 <= b0 /\ e0 - 1 <= L
      BY <1>2, <1>p, <1>3, <1>4
    <3>2. N \in 0 .. N
      BY <1>2, <1>p
    <3>3. SubSeq(s, b0, e0 - 1) = SubSeq(t, p + b0 - 1, p + (e0 - 1) - 1)
      BY <3>1, <3>2, PartOfPart DEF N, L
    <3>4. p + (e0 - 1) - 1 = e - 1
      BY <1>2, <1>p, <1>4, <2>1
    <3> QED BY <3>3, <3>4
  <2>8. SubSeq(s, e0 + 1, L) = SubSeq(t, e + 1, N)
    <3>1. e0 + 1 \in Int /\ 1 <= e0 + 1 /\ L \in Int /\ L <= L
      BY <1>2, <1>p, <1>3, <1>4
    <3>2. N \in 0 .. N
      BY <1>2, <1>p
    <3>3. SubSeq(s, e0 + 1, L) = SubSeq(t, p + (e0 + 1) - 1, p + L - 1)
      BY <3>1, <3>2, PartOfPart DEF N, L
    <3>4. p + (e0 + 1) - 1 = e + 1 /\ p + L - 1 = N
      BY <1>2, <1>p, <1>4, <2>1
    <3> QED BY <3>3, <3>4
  <2>9. Field(t, b, e)
    BY <2>4, <2>5, <2>6 DEF Field
  <2>10. b \in 1 .. N + 1 /\ p <= b
    BY <1>2, <1>p, <2>1
  <2>11. ~(b0 > L)
    BY <1>2, <1>p, <1>3, <1>8
  <2> HIDE DEF b, e
  <2> QED BY <1>5, <1>6, <2>1, <2>3, <2>7, <2>8, <2>9, <2>10, <2>11 DEF N
<1>9. b0 > L \/ b0 <= L
  BY <1>2, <1>3
<1> QED BY <1>7, <1>8, <1>9

\* No name begins between commas and blanks.
LEMMA NoNameIn ==
  ASSUME NEW t \in Seq(STRING), NEW i \in 1 .. Len(t), NEW j \in 1 .. Len(t),
         t[i] \in {Comma, Blank}
  PROVE  ~IsName(t, i, j)
<1> SUFFICES ASSUME IsName(t, i, j) PROVE FALSE
  OBVIOUS
<1>1. i <= j /\ t[i] # Blank /\ \A k \in i .. j : t[k] # Comma
  BY DEF IsName
<1>2. i \in i .. j
  BY <1>1
<1> QED BY <1>1, <1>2

\* Between the first and the last character of a field that is no blank there is a
\* name.
LEMMA NameOfField ==
  ASSUME NEW t \in Seq(STRING), NEW b \in 1 .. Len(t), NEW e \in b + 1 .. Len(t) + 1,
         Field(t, b, e), NEW i \in b .. e - 1, NEW j \in b .. e - 1,
         t[i] # Blank, t[j] # Blank, i <= j,
         \A k \in b .. i - 1 : t[k] = Blank, \A k \in j + 1 .. e - 1 : t[k] = Blank
  PROVE  IsName(t, i, j)
<1>1. Edge(t, b - 1) /\ Edge(t, e) /\ \A k \in b .. e - 1 : t[k] # Comma
  BY DEF Field
<1>2. \A k \in i .. j : t[k] # Comma
  BY <1>1
<1>3. b - 1 \in 0 .. i - 1 /\ \A k \in (b - 1) + 1 .. i - 1 : t[k] = Blank
  OBVIOUS
<1>4. e \in j + 1 .. Len(t) + 1 /\ \A k \in j + 1 .. e - 1 : t[k] = Blank
  OBVIOUS
<1> QED BY <1>1, <1>2, <1>3, <1>4 DEF IsName

\* The field has no other name.
LEMMA OnlyName ==
  ASSUME NEW t \in Seq(STRING), NEW b \in 1 .. Len(t), NEW e \in b + 1 .. Len(t) + 1,
         Field(t, b, e), NEW i \in b .. e - 1, NEW j \in b .. e - 1,
         t[i] # Blank, t[j] # Blank, i <= j,
         \A k \in b .. i - 1 : t[k] = Blank, \A k \in j + 1 .. e - 1 : t[k] = Blank,
         NEW x \in b .. e - 1, NEW y \in 1 .. Len(t), IsName(t, x, y)
  PROVE  x = i /\ y = j
<1>0. Edge(t, b - 1) /\ Edge(t, e) /\ \A k \in b .. e - 1 : t[k] # Comma
  BY DEF Field
<1>1. x <= y /\ t[x] # Blank /\ t[y] # Blank /\ \A k \in x .. y : t[k] # Comma
  BY DEF IsName
<1>2. PICK l \in 0 .. x - 1 : Edge(t, l) /\ \A k \in l + 1 .. x - 1 : t[k] = Blank
  BY DEF IsName
<1>3. PICK r \in y + 1 .. Len(t) + 1 : Edge(t, r) /\ \A k \in y + 1 .. r - 1 : t[k] = Blank
  BY DEF IsName
<1>4. \A k \in b .. e - 1 : ~Edge(t, k)
  BY <1>0 DEF Edge
<1>5. y \in b .. e - 1
  <2>1. CASE e = Len(t) + 1
    BY <1>1, <2>1
  <2>2. CASE e # Len(t) + 1
    <3>1. t[e] = Comma
      BY <1>0, <2>2 DEF Edge
    <3>2. ~(e \in x .. y)
      BY <1>1, <3>1
    <3> QED BY <1>1, <3>2
  <2> QED BY <2>1, <2>2
<1>6. x >= i /\ y <= j
  BY <1>1, <1>5
<1>7. x = i
  <2>1. SUFFICES ASSUME i < x PROVE FALSE
    BY <1>6
  <2>2. ~(i \in l + 1 .. x - 1)
    BY <1>2
  <2>3. l \in b .. e - 1
    BY <2>1, <2>2
  <2> QED BY <1>2, <1>4, <2>3
<1>8. y = j
  <2>1. SUFFICES ASSUME y < j PROVE FALSE
    BY <1>5, <1>6
  <2>2. ~(j \in y + 1 .. r - 1)
    BY <1>3
  <2>3. r \in b .. e - 1
    BY <1>5, <2>1, <2>2
  <2> QED BY <1>3, <1>4, <2>3
<1> QED BY <1>7, <1>8

\* Trim takes the blanks off both ends.
LEMMA TrimText ==
  ASSUME NEW f \in Seq(STRING)
  PROVE  \/ Trim(f) = << >> /\ \A k \in 1 .. Len(f) : f[k] = Blank
         \/ \E i \in 1 .. Len(f), j \in 1 .. Len(f) :
              /\ i <= j /\ f[i] # Blank /\ f[j] # Blank
              /\ \A k \in 1 .. i - 1 : f[k] = Blank
              /\ \A k \in j + 1 .. Len(f) : f[k] = Blank
              /\ Trim(f) = SubSeq(f, i, j)
<1> DEFINE L == Len(f)
           i0 == Skip(f, 1, Blank)
           J == {j \in 1 .. L : f[j] # Blank} \cup {0}
           j0 == Max(J)
<1>1. L \in Nat
  OBVIOUS
<1>2. Trim(f) = SubSeq(f, i0, j0)
  BY DEF Trim
<1>3. J \in SUBSET (0 .. L) /\ J # {}
  OBVIOUS
<1>4. j0 \in J /\ \A y \in J : y <= j0
  <2> HIDE DEF J, L
  <2> QED BY <1>1, <1>3, MaxOf
<1>5. /\ i0 \in 1 .. L + 1
      /\ \A k \in 1 .. i0 - 1 : f[k] = Blank
      /\ i0 <= L => f[i0] # Blank
  <2>1. 1 \in 1 .. Len(f) + 1
    OBVIOUS
  <2>2. Skips(f, 1, Blank, i0)
    BY <2>1, SkipIs
  <2> HIDE DEF i0
  <2> QED BY <2>2 DEF Skips
<1> HIDE DEF i0, j0
<1>6. j0 \in 0 .. L /\ (j0 # 0 => f[j0] # Blank) /\ \A k \in j0 + 1 .. L : f[k] = Blank
  <2>1. j0 \in 0 .. L /\ (j0 # 0 => f[j0] # Blank)
    BY <1>3, <1>4
  <2>2. ASSUME NEW k \in j0 + 1 .. L PROVE f[k] = Blank
    <3>1. ~(k <= j0) /\ k \in 1 .. L
      BY <1>1, <2>1
    <3>2. k \notin J
      BY <1>4, <3>1
    <3> QED BY <3>1, <3>2 DEF J
  <2> QED BY <2>1, <2>2
<1> HIDE DEF J
<1>7. CASE i0 > L
  <2>1. \A k \in 1 .. L : f[k] = Blank
    BY <1>1, <1>5, <1>7
  <2>2. i0 \in Int /\ j0 \in Int /\ j0 < i0
    BY <1>1, <1>5, <1>6, <1>7
  <2>3. Trim(f) = << >>
    BY <1>2, <2>2, SubSeqEmpty
  <2> QED BY <2>1, <2>3
<1>8. CASE i0 <= L
  <2>1. j0 >= i0
    <3> SUFFICES ASSUME j0 < i0 PROVE FALSE
      BY <1>1, <1>5, <1>6
    <3>1. i0 \in j0 + 1 .. L
      BY <1>1, <1>5, <1>6, <1>8
    <3> QED BY <1>5, <1>6, <1>8, <3>1
  <2>2. i0 \in 1 .. L /\ j0 \in 1 .. L /\ i0 <= j0 /\ j0 # 0
    BY <1>1, <1>5, <1>6, <1>8, <2>1
  <2> QED BY <1>2, <1>5, <1>6, <1>8, <2>2
<1>9. i0 > L \/ i0 <= L
  BY <1>1, <1>5
<1> QED BY <1>7, <1>8, <1>9

\* f trimmed is empty and t has no name from b to e - 1, or it is the only name there.
Trimmed(f, t, b, e) ==
  \/ /\ Trim(f) = << >>
     /\ \A x \in b .. e - 1, y \in 1 .. Len(t) : ~IsName(t, x, y)
  \/ \E i \in b .. e - 1, j \in b .. e - 1 :
       /\ IsName(t, i, j)
       /\ Trim(f) = SubSeq(t, i, j) /\ Trim(f) # << >>
       /\ \A x \in b .. e - 1, y \in 1 .. Len(t) : IsName(t, x, y) => x = i /\ y = j

\* What is left of a field without its blanks is the name in it, if it has one.
LEMMA TrimIs ==
  ASSUME NEW t \in Seq(STRING), NEW b \in 1 .. Len(t), NEW e \in b + 1 .. Len(t) + 1,
         Field(t, b, e), NEW f, f = SubSeq(t, b, e - 1)
  PROVE  Trimmed(f, t, b, e)
<1> DEFINE L == Len(f)
<1>1. /\ f \in Seq(STRING) /\ L = e - b
      /\ \A k \in 1 .. L : f[k] = t[b + k - 1]
  <2>1. b \in 1 .. Len(t) + 2 /\ e - 1 \in 0 .. Len(t) /\ b <= e - 1 /\ (e - 1) - b + 1 = e - b
    OBVIOUS
  <2> QED BY <2>1, PartIs
<1>2. L \in Nat /\ L >= 1
  BY <1>1
<1>3. \A k \in b .. e - 1 : k - b + 1 \in 1 .. L /\ f[k - b + 1] = t[k]
  <2> SUFFICES ASSUME NEW k \in b .. e - 1
               PROVE  k - b + 1 \in 1 .. L /\ f[k - b + 1] = t[k]
    OBVIOUS
  <2>1. k - b + 1 \in 1 .. L /\ b + (k - b + 1) - 1 = k
    BY <1>1
  <2> QED BY <1>1, <2>1
<1>9. CASE Trim(f) = << >> /\ \A k \in 1 .. L : f[k] = Blank
  <2>1. \A k \in b .. e - 1 : t[k] = Blank
    BY <1>3, <1>9
  <2>2. \A x \in b .. e - 1, y \in 1 .. Len(t) : ~IsName(t, x, y)
    <3> SUFFICES ASSUME NEW x \in b .. e - 1, NEW y \in 1 .. Len(t) PROVE ~IsName(t, x, y)
      OBVIOUS
    <3>1. x \in 1 .. Len(t) /\ t[x] \in {Comma, Blank}
      BY <2>1
    <3> QED BY <3>1, NoNameIn
  <2> QED BY <1>9, <2>2 DEF Trimmed
<1>10. ASSUME NEW i0 \in 1 .. L, NEW j0 \in 1 .. L,
              i0 <= j0, f[i0] # Blank, f[j0] # Blank,
              \A k \in 1 .. i0 - 1 : f[k] = Blank,
              \A k \in j0 + 1 .. L : f[k] = Blank,
              Trim(f) = SubSeq(f, i0, j0)
       PROVE  \E i \in b .. e - 1, j \in b .. e - 1 :
                /\ IsName(t, i, j)
                /\ Trim(f) = SubSeq(t, i, j) /\ Trim(f) # << >>
                /\ \A x \in b .. e - 1, y \in 1 .. Len(t) :
                     IsName(t, x, y) => x = i /\ y = j
  <2> DEFINE i == b + i0 - 1
             j == b + j0 - 1
  <2>2. i \in b .. e - 1 /\ j \in b .. e - 1 /\ i <= j
        /\ i - b + 1 = i0 /\ j - b + 1 = j0 /\ j0 # 0
    BY <1>1, <1>2, <1>10
  <2>3. t[i] # Blank /\ t[j] # Blank
    <3>1. f[i0] = t[i] /\ f[j0] = t[j]
      BY <1>3, <2>2
    <3> QED BY <1>10, <3>1
  <2>4. \A k \in b .. i - 1 : t[k] = Blank
    <3> SUFFICES ASSUME NEW k \in b .. i - 1 PROVE t[k] = Blank
      OBVIOUS
    <3>1. k \in b .. e - 1 /\ k - b + 1 \in 1 .. i0 - 1
      BY <1>10, <2>2
    <3> QED BY <1>3, <1>10, <3>1
  <2>5. \A k \in j + 1 .. e - 1 : t[k] = Blank
    <3> SUFFICES ASSUME NEW k \in j + 1 .. e - 1 PROVE t[k] = Blank
      OBVIOUS
    <3>1. k \in b .. e - 1 /\ k - b + 1 \in j0 + 1 .. L
      BY <1>1, <2>2
    <3> QED BY <1>3, <1>10, <3>1
  <2>6. Trim(f) = SubSeq(t, i, j)
    <3>1. i0 \in Int /\ j0 \in Int /\ 1 <= i0 /\ j0 <= L
      BY <1>2, <1>10
    <3>2. b \in 1 .. Len(t) + 2 /\ e - 1 \in 0 .. Len(t)
      OBVIOUS
    <3>3. SubSeq(SubSeq(t, b, e - 1), i0, j0) = SubSeq(t, i, j)
      BY <3>1, <3>2, PartOfPart
    <3> QED BY <1>10, <3>3
  <2>7. Trim(f) # << >>
    <3>1. i \in 1 .. Len(t) + 2 /\ j \in 0 .. Len(t) /\ i <= j
      BY <2>2
    <3>2. Len(SubSeq(t, i, j)) = j - i + 1
      BY <3>1, PartIs
    <3> QED BY <2>2, <2>6, <3>2
  <2> HIDE DEF i, j
  <2>8. IsName(t, i, j)
    BY <2>2, <2>3, <2>4, <2>5, NameOfField
  <2>9. \A x \in b .. e - 1, y \in 1 .. Len(t) : IsName(t, x, y) => x = i /\ y = j
    <3> SUFFICES ASSUME NEW x \in b .. e - 1, NEW y \in 1 .. Len(t), IsName(t, x, y)
                 PROVE  x = i /\ y = j
      OBVIOUS
    <3> QED BY <2>2, <2>3, <2>4, <2>5, OnlyName
  <2> QED BY <2>2, <2>6, <2>7, <2>8, <2>9
<1> QED BY <1>1, <1>9, <1>10, TrimText DEF Trimmed

-----------------------------------------------------------------------------
(***************************************************************************)
(* The steps of the loop.                                                  *)
(***************************************************************************)

\* syscall_number finds the number of a name of the table, and no other.
LEMMA NumberIs ==
  ASSUME NEW m
  PROVE  /\ syscall_number(m, Table) \in 0 .. MAX_SYSCALLS - 1 =>
              /\ syscall_number(m, Table) \in DOMAIN Table
              /\ Table[syscall_number(m, Table)] = m
         /\ syscall_number(m, Table) \notin 0 .. MAX_SYSCALLS - 1 =>
              \A n \in DOMAIN Table : Table[n] # m
<1> DEFINE T == Table
           nrs == {n \in DOMAIN T : T[n] = m}
<1>1. DOMAIN T \subseteq 0 .. MAX_SYSCALLS - 1
  BY TablesAssumption DEF Table
<1>2. syscall_number(m, T) = IF nrs = {} THEN -1 ELSE Min(nrs)
  BY DEF syscall_number
<1> HIDE DEF T
<1>3. CASE nrs = {}
  BY <1>2, <1>3 DEF T
<1>4. CASE nrs # {}
  <2>1. nrs \in SUBSET Nat
    BY <1>1, BitmapAssumption
  <2>2. Min(nrs) \in nrs
    BY <1>4, <2>1, MinOf
  <2> QED BY <1>1, <1>2, <1>4, <2>2 DEF T
<1> QED BY <1>3, <1>4

\* What is done up to b is done up to c if no name begins between them.
LEMMA DoneSame ==
  ASSUME NEW S, NEW T, NEW t, NEW b \in Int, NEW c \in Int, Done(S, T, t, b),
         \A x \in Int, y \in 1 .. Len(t) : IsName(t, x, y) => (x < b <=> x < c)
  PROVE  Done(S, T, t, c)
<1>1. ASSUME NEW i \in 1 .. c - 1, NEW j \in 1 .. Len(t), IsName(t, i, j)
      PROVE  \E n \in S : T[n] = SubSeq(t, i, j)
  <2>1. i \in 1 .. b - 1
    BY <1>1
  <2> QED BY <1>1, <2>1 DEF Done
<1>2. ASSUME NEW n \in S
      PROVE  \E i \in 1 .. c - 1, j \in 1 .. Len(t) :
               IsName(t, i, j) /\ T[n] = SubSeq(t, i, j)
  <2>1. PICK i \in 1 .. b - 1, j \in 1 .. Len(t) :
               IsName(t, i, j) /\ T[n] = SubSeq(t, i, j)
    BY DEF Done
  <2>2. i \in 1 .. c - 1
    BY <2>1
  <2> QED BY <2>1, <2>2
<1> QED BY <1>1, <1>2 DEF Done

\* The next call of strtok_r passes over no name.
LEMMA NextField ==
  ASSUME NEW S, NEW T, NEW t \in Seq(STRING), NEW p \in 1 .. Len(t) + 2,
         Edge(t, p - 1), Done(S, T, t, p), NEW s, s = SubSeq(t, p, Len(t))
  PROVE  Parsed(S, T, t, strtok(s).token, strtok(s).saveptr)
<1>1. PICK b \in 1 .. Len(t) + 1 :
        /\ b = Len(t) + 1 \/ p <= b
        /\ \A k \in p .. b - 1 : t[k] = Comma
        /\ AtField(strtok(s).token, strtok(s).saveptr, t, b)
  BY StrtokIs DEF AtField
<1>2. ASSUME NEW x \in Int, NEW y \in 1 .. Len(t), IsName(t, x, y)
      PROVE  x < p <=> x < b
  <2>1. x <= y /\ x <= Len(t)
    BY <1>2 DEF IsName
  <2>2. CASE p <= b /\ x >= p /\ x < b
    <3>1. x \in 1 .. Len(t) /\ t[x] = Comma
      BY <1>1, <2>1, <2>2
    <3> QED BY <1>2, <3>1, NoNameIn
  <2> QED BY <1>1, <2>1, <2>2
<1>3. Done(S, T, t, b)
  BY <1>2, DoneSame
<1> QED BY <1>1, <1>3 DEF Parsed

\* After the field from b to e - 1, strtok_r continues at e + 1.
LEMMA AfterField ==
  ASSUME NEW S, NEW T, NEW t \in Seq(STRING), NEW e \in 1 .. Len(t) + 1,
         Edge(t, e), Done(S, T, t, e), NEW s, s = SubSeq(t, e + 1, Len(t))
  PROVE  Parsed(S, T, t, strtok(s).token, strtok(s).saveptr)
<1>1. ASSUME NEW x \in Int, NEW y \in 1 .. Len(t), IsName(t, x, y)
      PROVE  x < e <=> x < e + 1
  <2>1. x <= y /\ x <= Len(t)
    BY <1>1 DEF IsName
  <2>2. SUFFICES ASSUME x = e PROVE FALSE
    OBVIOUS
  <2>3. e \in 1 .. Len(t) /\ t[e] = Comma
    BY <2>1, <2>2 DEF Edge
  <2> QED BY <1>1, <2>2, <2>3, NoNameIn
<1>2. Done(S, T, t, e + 1)
  BY <1>1, DoneSame
<1>3. e + 1 \in 1 .. Len(t) + 2 /\ Edge(t, (e + 1) - 1)
  OBVIOUS
<1> QED BY <1>2, <1>3, NextField

\* What an iteration finds: the field that ends at e has no name, and nothing is left
\* to do, or the one that is looked up.
Found(S, T, t, f, rest, e) ==
  /\ Edge(t, e) /\ rest = SubSeq(t, e + 1, Len(t))
  /\ Trim(f) = << >> => Done(S, T, t, e)
  /\ Trim(f) # << >> =>
       /\ \E x \in 1 .. Len(t), y \in 1 .. Len(t) :
            IsName(t, x, y) /\ Trim(f) = SubSeq(t, x, y)
       /\ \A nr : T[nr] = Trim(f) => Done(S \cup {nr}, T, t, e)

\* Every field that strtok_r returns leads to that.
LEMMA Iteration ==
  ASSUME NEW S, NEW T, NEW t \in Seq(STRING), NEW f, NEW rest,
         Parsed(S, T, t, f, rest), f # NoText
  PROVE  \E e \in 1 .. Len(t) + 1 : Found(S, T, t, f, rest, e)
<1>1. PICK b \in 1 .. Len(t) + 1 : Done(S, T, t, b) /\ AtField(f, rest, t, b)
  BY DEF Parsed
<1>2. PICK e \in b + 1 .. Len(t) + 1 :
        Field(t, b, e) /\ f = SubSeq(t, b, e - 1) /\ rest = SubSeq(t, e + 1, Len(t))
  BY <1>1 DEF AtField
<1>3. b \in 1 .. Len(t) /\ e \in 1 .. Len(t) + 1 /\ Edge(t, e)
  BY <1>2 DEF Field
<1>4. CASE Trim(f) = << >> /\ \A x \in b .. e - 1, y \in 1 .. Len(t) : ~IsName(t, x, y)
  <2>1. \A x \in Int, y \in 1 .. Len(t) : IsName(t, x, y) => (x < b <=> x < e)
    BY <1>4
  <2>2. Done(S, T, t, e)
    BY <1>1, <2>1, DoneSame
  <2> QED BY <1>2, <1>3, <1>4, <2>2 DEF Found
<1>5. ASSUME NEW i \in b .. e - 1, NEW j \in b .. e - 1, IsName(t, i, j),
             Trim(f) = SubSeq(t, i, j), Trim(f) # << >>,
             \A x \in b .. e - 1, y \in 1 .. Len(t) : IsName(t, x, y) => x = i /\ y = j
      PROVE  /\ \E x \in 1 .. Len(t), y \in 1 .. Len(t) :
                  IsName(t, x, y) /\ Trim(f) = SubSeq(t, x, y)
             /\ \A nr : T[nr] = Trim(f) => Done(S \cup {nr}, T, t, e)
  <2>1. i \in 1 .. Len(t) /\ j \in 1 .. Len(t) /\ i \in 1 .. e - 1
    OBVIOUS
  <2>2. ASSUME NEW nr, T[nr] = Trim(f)
        PROVE  Done(S \cup {nr}, T, t, e)
    <3>1. ASSUME NEW x \in 1 .. e - 1, NEW y \in 1 .. Len(t), IsName(t, x, y)
          PROVE  \E n \in S \cup {nr} : T[n] = SubSeq(t, x, y)
      <4>1. CASE x < b
        <5>1. x \in 1 .. b - 1
          BY <4>1
        <5> QED BY <1>1, <3>1, <5>1 DEF Done
      <4>2. CASE ~(x < b)
        <5>1. x = i /\ y = j
          BY <1>5, <3>1, <4>2
        <5> QED BY <1>5, <2>2, <5>1
      <4> QED BY <4>1, <4>2
    <3>2. ASSUME NEW n \in S \cup {nr}
          PROVE  \E x \in 1 .. e - 1, y \in 1 .. Len(t) :
                   IsName(t, x, y) /\ T[n] = SubSeq(t, x, y)
      <4>1. CASE n \in S
        <5>1. PICK x \in 1 .. b - 1, y \in 1 .. Len(t) :
                IsName(t, x, y) /\ T[n] = SubSeq(t, x, y)
          BY <1>1, <4>1 DEF Done
        <5>2. x \in 1 .. e - 1
          OBVIOUS
        <5> QED BY <5>1, <5>2
      <4>2. CASE n = nr
        BY <1>5, <2>1, <2>2, <4>2
      <4> QED BY <4>1, <4>2
    <3> QED BY <3>1, <3>2 DEF Done
  <2> QED BY <1>5, <2>1, <2>2
<1>6. Trimmed(f, t, b, e)
  BY <1>2, <1>3, TrimIs
<1>7. CASE Trim(f) # << >>
  <2>1. /\ \E x \in 1 .. Len(t), y \in 1 .. Len(t) :
             IsName(t, x, y) /\ Trim(f) = SubSeq(t, x, y)
        /\ \A nr : T[nr] = Trim(f) => Done(S \cup {nr}, T, t, e)
    BY <1>5, <1>6, <1>7 DEF Trimmed
  <2> QED BY <1>2, <1>3, <1>7, <2>1 DEF Found
<1> QED BY <1>4, <1>6, <1>7 DEF Trimmed

\* When strtok_r returns NULL, every name has been looked up.
LEMMA AtEnd ==
  ASSUME NEW S, NEW T, NEW t \in Seq(STRING), NEW f, f = NoText, NEW rest,
         Parsed(S, T, t, f, rest)
  PROVE  Done(S, T, t, Len(t) + 1)
<1>1. PICK b \in 1 .. Len(t) + 1 : Done(S, T, t, b) /\ AtField(f, rest, t, b)
  BY DEF Parsed
<1>2. ASSUME NEW e \in b + 1 .. Len(t) + 1, f = SubSeq(t, b, e - 1) PROVE FALSE
  <2>1. b \in 1 .. Len(t) + 2 /\ e - 1 \in 0 .. Len(t)
    OBVIOUS
  <2>2. f \in Seq(STRING)
    BY <1>2, <2>1, PartIs
  <2> QED BY <2>2, OptionsAssumption
<1>3. b = Len(t) + 1
  BY <1>1, <1>2 DEF AtField
<1> QED BY <1>1, <1>3

\* Names has what stands from i to j.
LEMMA NameIn ==
  ASSUME NEW t, NEW i \in 1 .. Len(t), NEW j \in 1 .. Len(t), IsName(t, i, j)
  PROVE  SubSeq(t, i, j) \in Names(t)
<1> DEFINE q == <<i, j>>
<1>1. q \in (1 .. Len(t)) \X (1 .. Len(t)) /\ q[1] = i /\ q[2] = j
  OBVIOUS
<1> HIDE DEF q
<1>2. q \in {p \in (1 .. Len(t)) \X (1 .. Len(t)) : IsName(t, p[1], p[2])}
  BY <1>1
<1>3. SubSeq(t, i, j) = SubSeq(t, q[1], q[2])
  BY <1>1
<1> QED BY <1>2, <1>3, Zenon DEF Names

\* Then the names of the text are those of the numbers found.
LEMMA AllNames ==
  ASSUME NEW S, NEW T, NEW t \in Seq(STRING), Done(S, T, t, Len(t) + 1)
  PROVE  /\ \A m \in Names(t) : m \in Seq(STRING) /\ \E n \in S : T[n] = m
         /\ \A n \in S : T[n] \in Names(t)
<1>1. ASSUME NEW m \in Names(t) PROVE m \in Seq(STRING) /\ \E n \in S : T[n] = m
  <2>1. PICK i \in 1 .. Len(t), j \in 1 .. Len(t) : IsName(t, i, j) /\ m = SubSeq(t, i, j)
    BY DEF Names
  <2>2. i \in 1 .. (Len(t) + 1) - 1 /\ i \in 1 .. Len(t) + 2 /\ j \in 0 .. Len(t)
    OBVIOUS
  <2> QED BY <2>1, <2>2, PartIs DEF Done
<1>2. ASSUME NEW n \in S PROVE T[n] \in Names(t)
  <2>1. PICK i \in 1 .. (Len(t) + 1) - 1, j \in 1 .. Len(t) :
          IsName(t, i, j) /\ T[n] = SubSeq(t, i, j)
    BY DEF Done
  <2>2. i \in 1 .. Len(t)
    OBVIOUS
  <2> QED BY <2>1, <2>2, NameIn
<1> QED BY <1>1, <1>2

-----------------------------------------------------------------------------
(***************************************************************************)
(* ParseInv is inductive.                                                  *)
(***************************************************************************)

\* ParseInv holds initially: nothing has been looked up.
LEMMA InitParse == OInit => ParseInv
  BY DEF OInit, ParseInv

\* getopt leaves the filter alone, but for its argument.
LEMMA GetoptParse == CommandInv /\ ParseInv /\ Getopt => ParseInv'
<1> SUFFICES ASSUME CommandInv, ParseInv, Getopt PROVE ParseInv'
  OBVIOUS
<1>1. /\ opc = "getopt" /\ opc' \in {"getopt", "filter", "return"}
      /\ UNCHANGED <<count, enabled>> /\ enabled = {}
  BY DEF Getopt, opt_p, opt_c, opt_e, opt_t, opt_s, opt_h, opt_unknown,
         operand, getopt_end, Got, return, filterVars, ParseInv
<1>2. syscall_filter_enabled' => syscall_filter_arg' \in Seq(STRING)
  <2>1. CASE opt_e
    <3>1. Got("e") /\ UNCHANGED argv /\ syscall_filter_arg' = argv[optind].text
      BY <2>1 DEF opt_e, optarg
    <3>2. argv[optind] \in Option
      BY <3>1, GotStep
    <3> QED BY <3>1, <3>2 DEF Option
  <2>2. CASE ~opt_e
    <3>1. UNCHANGED <<syscall_filter_enabled, syscall_filter_arg>>
      BY <2>2 DEF Getopt, opt_p, opt_c, opt_t, opt_s, opt_h, opt_unknown,
                  operand, getopt_end, flagVars
    <3> QED BY <3>1 DEF ParseInv
  <2> QED BY <2>1, <2>2
<1> QED BY <1>1, <1>2 DEF ParseInv

\* The steps of the filter: the loop goes from field to field.
LEMMA FilterParse == ParseInv /\ (Filter \/ system_fails) => ParseInv'
<1> SUFFICES ASSUME ParseInv, Filter \/ system_fails PROVE ParseInv'
  OBVIOUS
<1> DEFINE t == syscall_filter_arg
<1>1. UNCHANGED <<syscall_filter_enabled, syscall_filter_arg, enable_32>>
  BY DEF Filter, filter_begin, parse_blank, parse_unknown, parse_add, parse_end,
         set_all_syscall, system_fails, cliVars, flagVars
<1>2. Table' = Table
  BY <1>1 DEF Table
<1>3. ASSUME UNCHANGED <<count, enabled>>, opc' \in {"return", "set_all"},
             opc' = "set_all" => ~syscall_filter_enabled
      PROVE  ParseInv'
  BY <1>1, <1>2, <1>3 DEF ParseInv
<1>4. CASE filter_begin
  <2>1. CASE syscall_filter_enabled /\ t # << >>
    <3>1. /\ opc = "filter" /\ opc' = "parse" /\ UNCHANGED <<count, enabled>>
          /\ token' = strtok(t).token /\ saveptr' = strtok(t).saveptr
      BY <1>4, <2>1 DEF filter_begin, next_token
    <3>2. t \in Seq(STRING) /\ enabled = {}
      BY <2>1, <3>1 DEF ParseInv
    <3>3. Done(enabled, Table, t, 1) /\ Edge(t, 1 - 1)
      BY <3>2 DEF Done, Edge
    <3>4. t = SubSeq(t, 1, Len(t))
      BY <3>2, SubSeqFull
    <3>5. PICK p \in 1 .. Len(t) + 2 : p = 1
      BY <3>2
    <3>6. Parsed(enabled, Table, t, strtok(t).token, strtok(t).saveptr)
      BY <3>2, <3>3, <3>4, <3>5, NextField
    <3> QED BY <1>1, <1>2, <2>1, <3>1, <3>6 DEF ParseInv
  <2>2. CASE ~(syscall_filter_enabled /\ t # << >>)
    <3>1. /\ opc' \in {"return", "set_all"} /\ UNCHANGED <<count, enabled>>
          /\ (opc' = "set_all" => ~syscall_filter_enabled)
      BY <1>4, <2>2 DEF filter_begin, return
    <3> QED BY <1>3, <3>1
  <2> QED BY <2>1, <2>2
<1>5. CASE parse_blank \/ parse_add
  <2>1. /\ opc = "parse" /\ opc' = "parse" /\ token # NoText
        /\ token' = strtok(saveptr).token /\ saveptr' = strtok(saveptr).saveptr
    BY <1>5 DEF parse_blank, parse_add, Token, next_token
  <2>2. /\ syscall_filter_enabled /\ t \in Seq(STRING)
        /\ Parsed(enabled, Table, t, token, saveptr)
    BY <2>1 DEF ParseInv
  <2>3. PICK e \in 1 .. Len(t) + 1 : Found(enabled, Table, t, token, saveptr, e)
    BY <2>1, <2>2, Iteration
  <2>4. CASE parse_blank
    <3>1. Trim(token) = << >> /\ UNCHANGED <<count, enabled>>
      BY <2>4 DEF parse_blank, name
    <3>2. Parsed(enabled, Table, t, strtok(saveptr).token, strtok(saveptr).saveptr)
      BY <2>2, <2>3, <3>1, AfterField DEF Found
    <3> QED BY <1>1, <1>2, <2>1, <2>2, <3>1, <3>2 DEF ParseInv
  <2>5. CASE parse_add
    <3> DEFINE nr == syscall_number(Trim(token), Table)
    <3>1. /\ Trim(token) # << >> /\ nr \in 0 .. MAX_SYSCALLS - 1
          /\ enabled' = enabled \cup {nr} /\ count' = count + 1
      BY <2>5 DEF parse_add, name
    <3>2. nr \in DOMAIN Table /\ Table[nr] = Trim(token)
      BY <3>1, NumberIs
    <3> HIDE DEF nr
    <3>3. Done(enabled', Table, t, e)
      BY <2>3, <3>1, <3>2 DEF Found
    <3>4. Parsed(enabled', Table, t, strtok(saveptr).token, strtok(saveptr).saveptr)
      BY <2>2, <2>3, <3>3, AfterField DEF Found
    <3>5. count' \in Nat /\ count' # 0 /\ enabled' # {} /\ enabled' \subseteq DOMAIN Table
      BY <3>1, <3>2 DEF ParseInv
    <3> QED BY <1>1, <1>2, <2>1, <2>2, <3>4, <3>5 DEF ParseInv
  <2> QED BY <1>5, <2>4, <2>5
<1>6. CASE parse_end
  <2>1. /\ opc = "parse" /\ token = NoText /\ UNCHANGED <<count, enabled>>
        /\ opc' = IF count = 0 THEN "return" ELSE "attach"
    BY <1>6 DEF parse_end, Token, return, filterVars
  <2>2. /\ syscall_filter_enabled /\ t \in Seq(STRING)
        /\ Parsed(enabled, Table, t, token, saveptr)
    BY <2>1 DEF ParseInv
  <2>3. Done(enabled, Table, t, Len(t) + 1)
    BY <2>1, <2>2, AtEnd
  <2> QED BY <1>1, <1>2, <2>1, <2>2, <2>3 DEF ParseInv
<1>7. CASE parse_unknown \/ system_fails
  BY <1>3, <1>7 DEF parse_unknown, system_fails, return, filterVars
<1>8. CASE set_all_syscall
  <2>1. /\ opc = "set_all" /\ opc' \in {"set_all", "attach"} /\ UNCHANGED <<count, enabled>>
    BY <1>8 DEF set_all_syscall
  <2> QED BY <1>1, <1>2, <2>1 DEF ParseInv
<1> QED BY <1>4, <1>5, <1>6, <1>7, <1>8 DEF Filter

\* ParseInv is preserved.
LEMMA NextParse == CommandInv /\ ParseInv /\ [ONext]_ovars => ParseInv'
<1>1. ParseInv /\ UNCHANGED ovars => ParseInv'
  BY DEF ovars, flagVars, filterVars, ParseInv, Table
<1> QED BY <1>1, GetoptParse, FilterParse DEF ONext

\* The three invariants together are inductive.
OptionsInv == CommandInv /\ FilterInv /\ ParseInv

\* OptionsInv holds initially.
LEMMA InitOptions == OInit => OptionsInv
  BY InitCommand, InitFilter, InitParse DEF OptionsInv

\* OptionsInv is preserved.
LEMMA NextOptions == OptionsInv /\ [ONext]_ovars => OptionsInv'
  BY NextCommand, NextFilter, NextParse DEF OptionsInv

\* OptionsInv holds always.
LEMMA OptionsAlways == OSafety => []OptionsInv
  BY InitOptions, NextOptions, PTL DEF OSafety

-----------------------------------------------------------------------------
(***************************************************************************)
(* The filter that gets attached.                                          *)
(***************************************************************************)

\* After the getopt loop the table and the text are those of the command line.
LEMMA Meaning ==
  ASSUME CommandInv, opc \in {"filter", "parse", "set_all", "attach"}
  PROVE  /\ NamedTable = Table
         /\ syscall_filter_enabled <=> Given("e") # {}
         /\ syscall_filter_enabled => LastGiven("e").text = syscall_filter_arg
<1>1. CommandMeaning /\ Flags
  BY DEF CommandInv
<1>2. NamedTable = Table
  BY <1>1 DEF CommandMeaning, NamedTable, Table, Flags
<1> QED BY <1>1, <1>2 DEF CommandMeaning, Flags

\* What has been looked up when main goes on to attach is what the command line names.
LEMMA WhitelistHolds == OptionsInv => Whitelist
<1> SUFFICES ASSUME OptionsInv, opc = "attach",
                    NEW id \in -1 .. MAX_SYSCALLS
             PROVE  syscall_allowed(syscall_bitmap, id) <=> id \in Wanted
  BY DEF Whitelist
<1>0. CommandInv /\ FilterInv /\ ParseInv
  BY DEF OptionsInv
<1>1. /\ NamedTable = Table /\ (syscall_filter_enabled <=> Given("e") # {})
      /\ (syscall_filter_enabled => LastGiven("e").text = syscall_filter_arg)
  BY <1>0, Meaning
<1>2. DOMAIN Table \subseteq 0 .. MAX_SYSCALLS - 1
      /\ \A m, n \in DOMAIN Table : Table[m] = Table[n] => m = n \/ Table[m] = NoText
  BY TablesAssumption DEF Table
<1>3. CASE ~syscall_filter_enabled
  <2>1. Wanted = 0 .. MAX_SYSCALLS - 1
    BY <1>1, <1>3 DEF Wanted
  <2>2. id \in 0 .. MAX_SYSCALLS - 1 => syscall_allowed(syscall_bitmap, id)
    BY <1>0, <1>3 DEF FilterInv, Allowed
  <2>3. syscall_allowed(syscall_bitmap, id) => id \in 0 .. MAX_SYSCALLS - 1
    BY BitmapAssumption DEF syscall_allowed
  <2> QED BY <2>1, <2>2, <2>3
<1>4. CASE syscall_filter_enabled
  <2> DEFINE t == syscall_filter_arg
  <2>1. Wanted = {n \in DOMAIN Table : Table[n] \in Names(t)}
    BY <1>1, <1>4 DEF Wanted
  <2>2. t \in Seq(STRING) /\ Done(enabled, Table, t, Len(t) + 1)
        /\ enabled \subseteq DOMAIN Table
    BY <1>0, <1>4 DEF ParseInv
  <2>3. /\ \A m \in Names(t) : m \in Seq(STRING) /\ \E n \in enabled : Table[n] = m
        /\ \A n \in enabled : Table[n] \in Names(t)
    BY <2>2, AllNames
  <2>4. \A x \in 0 .. MAX_SYSCALLS - 1 : syscall_allowed(syscall_bitmap, x) <=> x \in enabled
    BY <1>0, <1>4 DEF FilterInv, EnabledAllowed
  <2>5. syscall_allowed(syscall_bitmap, id) => id \in 0 .. MAX_SYSCALLS - 1
    BY BitmapAssumption DEF syscall_allowed
  <2> HIDE DEF t
  <2>6. ASSUME id \in enabled PROVE id \in Wanted
    BY <2>1, <2>2, <2>3, <2>6
  <2>7. ASSUME id \in Wanted PROVE id \in enabled
    <3>1. id \in DOMAIN Table /\ Table[id] \in Names(t)
      BY <2>1, <2>7
    <3>2. PICK n \in enabled : Table[n] = Table[id] /\ Table[id] \in Seq(STRING)
      BY <2>3, <3>1
    <3>3. n = id
      BY <1>2, <2>2, <3>1, <3>2, OptionsAssumption
    <3> QED BY <3>2, <3>3
  <2>8. id \in Wanted => id \in 0 .. MAX_SYSCALLS - 1
    BY <1>2, <2>1
  <2> QED BY <2>4, <2>5, <2>6, <2>7, <2>8
<1> QED BY <1>3, <1>4

\* The filter that trace_enter finds in the bitmap is the one that the command line
\* names, for every text of -e, every table and every size of the bitmap.
THEOREM FilterAsNamed == OSafety => []Whitelist
  BY WhitelistHolds, OptionsAlways, PTL

-----------------------------------------------------------------------------
(***************************************************************************)
(* The command lines that main refuses.                                    *)
(***************************************************************************)

\* What goes on to attach is valid.
LEMMA AttachValid == CommandInv /\ ParseInv => (opc = "attach" => Valid)
<1> SUFFICES ASSUME CommandInv, ParseInv, opc = "attach" PROVE Valid
  OBVIOUS
<1>1. /\ Given("h") \cup Given("?") \cup Given("operand") = {}
      /\ \A i \in Given("p") : argv[i].whole /\ argv[i].num \in 1 .. MaxPid
      /\ (Given("p") = {}) # (Given("c") = {})
  BY DEF CommandInv, CommandMeaning
<1>2. ASSUME Given("e") # {}
      PROVE  /\ Names(LastGiven("e").text) # {}
             /\ \A m \in Names(LastGiven("e").text) :
                  \E n \in DOMAIN NamedTable : NamedTable[n] = m
  <2> DEFINE t == syscall_filter_arg
  <2>1. syscall_filter_enabled /\ NamedTable = Table /\ LastGiven("e").text = t
    BY <1>2, Meaning
  <2>2. /\ t \in Seq(STRING) /\ enabled \subseteq DOMAIN Table /\ enabled # {}
        /\ Done(enabled, Table, t, Len(t) + 1)
    BY <2>1 DEF ParseInv
  <2>3. /\ \A m \in Names(t) : \E n \in enabled : Table[n] = m
        /\ \A n \in enabled : Table[n] \in Names(t)
    BY <2>2, AllNames
  <2> QED BY <2>1, <2>2, <2>3
<1> QED BY <1>1, <1>2 DEF Valid

\* The filter returns early only if it finds a name that is not in the table, or no name.
LEMMA FilterRefuses ==
  ASSUME CommandInv, ParseInv, Filter, opc' = "return" PROVE ~Valid
<1> DEFINE t == syscall_filter_arg
<1> SUFFICES /\ Given("e") # {}
             /\ \/ Names(LastGiven("e").text) = {}
                \/ \E m \in Names(LastGiven("e").text) :
                     \A n \in DOMAIN NamedTable : NamedTable[n] # m
  BY DEF Valid
<1>1. CASE filter_begin
  <2>1. opc = "filter" /\ syscall_filter_enabled /\ t = << >>
    BY <1>1 DEF filter_begin
  <2>2. Given("e") # {} /\ LastGiven("e").text = << >>
    BY <2>1, Meaning
  <2>3. Names(<< >>) = {}
    BY DEF Names
  <2> QED BY <2>2, <2>3
<1>2. CASE parse_unknown
  <2>1. /\ opc = "parse" /\ token # NoText /\ Trim(token) # << >>
        /\ syscall_number(Trim(token), Table) \notin 0 .. MAX_SYSCALLS - 1
    BY <1>2 DEF parse_unknown, Token, name
  <2>2. /\ syscall_filter_enabled /\ t \in Seq(STRING)
        /\ Parsed(enabled, Table, t, token, saveptr)
    BY <2>1 DEF ParseInv
  <2>3. Given("e") # {} /\ LastGiven("e").text = t /\ NamedTable = Table
    BY <2>1, <2>2, Meaning
  <2>4. PICK e \in 1 .. Len(t) + 1 : Found(enabled, Table, t, token, saveptr, e)
    BY <2>1, <2>2, Iteration
  <2>5. Trim(token) \in Names(t)
    <3>1. PICK x \in 1 .. Len(t), y \in 1 .. Len(t) :
            IsName(t, x, y) /\ Trim(token) = SubSeq(t, x, y)
      BY <2>1, <2>4 DEF Found
    <3> QED BY <3>1, NameIn
  <2>6. \A n \in DOMAIN Table : Table[n] # Trim(token)
    BY <2>1, NumberIs
  <2> QED BY <2>3, <2>5, <2>6
<1>3. CASE parse_end
  <2>1. opc = "parse" /\ token = NoText /\ count = 0
    BY <1>3 DEF parse_end, Token
  <2>2. /\ syscall_filter_enabled /\ t \in Seq(STRING) /\ enabled = {}
        /\ Parsed(enabled, Table, t, token, saveptr)
    BY <2>1 DEF ParseInv
  <2>3. Given("e") # {} /\ LastGiven("e").text = t
    BY <2>1, <2>2, Meaning
  <2>4. Done(enabled, Table, t, Len(t) + 1)
    BY <2>1, <2>2, AtEnd
  <2>5. \A m \in Names(t) : \E n \in enabled : Table[n] = m
    BY <2>2, <2>4, AllNames
  <2>6. Names(t) = {}
    BY <2>2, <2>5
  <2> QED BY <2>3, <2>6
<1>4. ~parse_blank /\ ~parse_add /\ ~set_all_syscall
  BY DEF parse_blank, parse_add, set_all_syscall, Token
<1> QED BY <1>1, <1>2, <1>3, <1>4 DEF Filter

\* getopt and the checks after it refuse only what is not valid.
LEMMA GetoptRefuses ==
  ASSUME CommandInv, Getopt, opc' = "return" PROVE ~Valid
<1>1. \A i \in 1 .. Len(argv) : i \in Given(argv[i].opt)
  BY DEF Given
<1>2. CASE opt_h \/ opt_unknown
  <2>1. Got("h") \/ Got("?")
    BY <1>2 DEF opt_h, opt_unknown
  <2>2. optind \in Given("h") \cup Given("?")
    BY <1>1, <2>1 DEF Got, CommandInv
  <2> QED BY <2>2 DEF Valid
<1>3. CASE opt_p
  <2>1. Got("p") /\ ~ValidPid(argv[optind]) /\ UNCHANGED argv
    BY <1>3 DEF opt_p, Got, optarg
  <2>2. optind \in Given("p")
    BY <1>1, <2>1 DEF Got, CommandInv
  <2>3. ~(argv[optind].whole /\ argv[optind].num \in 1 .. MaxPid)
    BY <2>1, OptionsAssumption DEF ValidPid
  <2> QED BY <2>2, <2>3 DEF Valid
<1>4. CASE getopt_end
  <2>1. opc = "getopt" /\ optind = Len(argv) + 1 /\ ~Accepted /\ SeenInv
    BY <1>4 DEF getopt_end, CommandInv
  <2>2. \A o : Seen(optind, o) = Given(o)
    BY <2>1 DEF Seen, Given, CommandInv
  <2>3. /\ operands <=> Given("operand") # {}
        /\ have_pid <=> Given("p") # {}
        /\ have_comm <=> Given("c") # {}
    BY <2>1, <2>2 DEF SeenInv, SeenOperand, SeenPid, SeenComm
  <2>4. have_pid = have_comm \/ operands
    BY <2>1 DEF Accepted
  <2>5. (Given("p") = {}) = (Given("c") = {}) \/ Given("operand") # {}
    BY <2>3, <2>4 DEF CommandInv, Flags
  <2> QED BY <2>5 DEF Valid
<1>5. ~opt_c /\ ~opt_e /\ ~opt_t /\ ~opt_s /\ ~operand
  BY DEF opt_c, opt_e, opt_t, opt_s, operand, Got
<1> QED BY <1>2, <1>3, <1>4, <1>5 DEF Getopt

\* main attaches for valid command lines only, and refuses one only if a call of the
\* system fails: for command lines of any length.
THEOREM ValidIffAccepted == OSafety => []ValidAccepted
<1> DEFINE Refused == opc = "return" /\ ~broken => ~Valid
<1>1. OInit => Refused
  BY DEF OInit
<1>2. CommandInv /\ ParseInv /\ Refused /\ [ONext]_ovars => Refused'
  <2> SUFFICES ASSUME CommandInv, ParseInv, Refused, [ONext]_ovars,
                      opc' = "return", ~broken'
               PROVE  ~Valid'
    OBVIOUS
  <2>1. UNCHANGED argv /\ ~broken
    BY DEF ONext, Getopt, opt_p, opt_c, opt_e, opt_t, opt_s, opt_h, opt_unknown, operand,
           getopt_end, Filter, filter_begin, parse_blank, parse_unknown, parse_add,
           parse_end, set_all_syscall, system_fails, cliVars, ovars
  <2>2. \A o : Given(o)' = Given(o) /\ LastGiven(o)' = LastGiven(o)
    BY <2>1 DEF Given, LastGiven
  <2>3. Valid' <=> Valid
    BY <2>1, <2>2 DEF Valid, NamedTable
  <2>4. CASE Getopt
    BY <2>3, <2>4, GetoptRefuses
  <2>5. CASE Filter
    BY <2>3, <2>5, FilterRefuses
  <2>6. CASE UNCHANGED ovars
    BY <2>1, <2>3, <2>6 DEF ovars
  <2>7. ~system_fails
    BY DEF system_fails
  <2> QED BY <2>4, <2>5, <2>6, <2>7 DEF ONext
<1>3. CommandInv /\ ParseInv /\ Refused => ValidAccepted
  BY AttachValid DEF ValidAccepted
<1>4. OptionsInv => CommandInv /\ ParseInv
  BY DEF OptionsInv
<1> QED BY <1>1, <1>2, <1>3, <1>4, OptionsAlways, PTL DEF OSafety

-----------------------------------------------------------------------------
(***************************************************************************)
(* Type correctness.                                                       *)
(***************************************************************************)

\* The name that -c keeps fits into the array with its NUL.
LEMMA CommFits ==
  ASSUME NEW t \in Seq(STRING)
  PROVE  Comm(t) \in Seq(STRING) /\ Len(Comm(t)) < COMM_LEN
<1>1. COMM_LEN \in Nat \ {0} /\ Len(t) \in Nat
  BY OptionsAssumption
<1>2. CASE Len(t) < COMM_LEN
  BY <1>2 DEF Comm
<1>3. CASE ~(Len(t) < COMM_LEN) /\ IsPrefix(<<"c", "o", "m", ".">>, t)
  <2> DEFINE m == Len(t) - (COMM_LEN - 1) + 1
  <2>1. m \in 1 .. Len(t) + 2 /\ Len(t) \in 0 .. Len(t)
    BY <1>1, <1>3
  <2>2. Comm(t) = SubSeq(t, m, Len(t))
    BY <1>3 DEF Comm
  <2>3. SubSeq(t, m, Len(t)) \in Seq(STRING)
        /\ Len(SubSeq(t, m, Len(t))) = IF m <= Len(t) THEN Len(t) - m + 1 ELSE 0
    <3> HIDE DEF m
    <3> QED BY <2>1, PartIs
  <2> QED BY <1>1, <2>2, <2>3
<1>4. CASE ~(Len(t) < COMM_LEN) /\ ~IsPrefix(<<"c", "o", "m", ".">>, t)
  <2>1. 1 \in 1 .. Len(t) + 2 /\ COMM_LEN - 1 \in 0 .. Len(t)
    BY <1>1, <1>4
  <2>2. Comm(t) = SubSeq(t, 1, COMM_LEN - 1)
    BY <1>4 DEF Comm
  <2>3. PICK u \in 1 .. Len(t) + 2 : u = 1
    BY <2>1
  <2>4. SubSeq(t, u, COMM_LEN - 1) \in Seq(STRING)
        /\ Len(SubSeq(t, u, COMM_LEN - 1))
             = IF u <= COMM_LEN - 1 THEN (COMM_LEN - 1) - u + 1 ELSE 0
    BY <2>1, <2>3, PartIs
  <2> QED BY <1>1, <2>2, <2>3, <2>4
<1> QED BY <1>2, <1>3, <1>4

\* strtok_r splits a text into texts.
LEMMA StrtokTypes ==
  ASSUME NEW s \in Seq(STRING)
  PROVE  strtok(s).token \in Seq(STRING) \cup {NoText} /\ strtok(s).saveptr \in Seq(STRING)
<1>1. PICK p \in 1 .. Len(s) + 2 : p = 1
  OBVIOUS
<1>2. s = SubSeq(s, p, Len(s)) /\ Edge(s, p - 1)
  BY <1>1, SubSeqFull DEF Edge
<1>3. strtok(s).token \in Seq(STRING) \cup {NoText}
  BY <1>2, StrtokIs
<1>4. strtok(s).saveptr \in Seq(STRING)
  BY <1>2, StrtokIs
<1> QED BY <1>3, <1>4

\* The parts of OTypeOK that the other invariants do not give.
OwnTypes ==
  /\ opc \in {"getopt", "filter", "parse", "set_all", "attach", "return"}
  /\ filter_type \in {FILTER_NONE, FILTER_PID, FILTER_COMM}
  /\ target_pid \in 0 .. MaxPid
  /\ target_comm \in Seq(STRING) /\ Len(target_comm) < COMM_LEN
  /\ broken \in BOOLEAN
  /\ syscall_filter_arg \in Seq(STRING) \cup {NoText}
  /\ token \in Seq(STRING) \cup {NoText} /\ saveptr \in Seq(STRING)
  /\ status \in {0, 1}

\* OwnTypes holds initially.
LEMMA InitTypes == OInit => OwnTypes
<1>1. << >> \in Seq(STRING) /\ Len(<< >>) = 0 /\ COMM_LEN > 0 /\ 0 \in 0 .. MaxPid
  BY OptionsAssumption
<1> QED BY <1>1 DEF OInit, OwnTypes

\* OwnTypes is preserved: -p and -c check and cut, and strtok_r returns texts.
LEMMA NextTypes == CommandInv /\ ParseInv /\ OwnTypes /\ [ONext]_ovars => OwnTypes'
<1> SUFFICES ASSUME CommandInv, ParseInv, OwnTypes, [ONext]_ovars PROVE OwnTypes'
  OBVIOUS
<1>1. CASE opt_p
  <2>1. Got("p") /\ UNCHANGED argv
    BY <1>1 DEF opt_p
  <2>2. argv[optind] \in Option
    BY <2>1, GotStep
  <2>3. ValidPid(optarg) => optarg.num \in 0 .. MaxPid
    BY <2>2, OptionsAssumption DEF ValidPid, optarg, Option
  <2> QED BY <1>1, <2>3 DEF opt_p, Got, return, targetVars, flagVars, filterVars, OwnTypes
<1>2. CASE opt_c
  <2>1. Got("c") /\ UNCHANGED argv
    BY <1>2 DEF opt_c
  <2>2. argv[optind] \in Option
    BY <2>1, GotStep
  <2>3. optarg.text \in Seq(STRING)
    BY <2>2 DEF optarg, Option
  <2>4. target_comm' \in Seq(STRING) /\ Len(target_comm') < COMM_LEN
    BY <1>2, <2>3, CommFits DEF opt_c
  <2> QED BY <1>2, <2>4 DEF opt_c, flagVars, filterVars, OwnTypes
<1>3. CASE opt_e
  <2>1. Got("e") /\ UNCHANGED argv
    BY <1>3 DEF opt_e
  <2>2. argv[optind] \in Option
    BY <2>1, GotStep
  <2>3. syscall_filter_arg' \in Seq(STRING)
    BY <1>3, <2>2 DEF opt_e, optarg, Option
  <2> QED BY <1>3, <2>3 DEF opt_e, targetVars, filterVars, OwnTypes
<1>4. CASE opt_t \/ opt_s \/ opt_h \/ opt_unknown \/ operand \/ getopt_end
  BY <1>4 DEF opt_t, opt_s, opt_h, opt_unknown, operand, getopt_end, return, targetVars,
              flagVars, filterVars, OwnTypes
<1>5. CASE filter_begin
  <2>1. opc = "filter" /\ opc' \in {"return", "parse", "set_all"} /\ status' \in {0, 1}
        /\ UNCHANGED <<cliVars, broken>>
    BY <1>5 DEF filter_begin, return, OwnTypes
  <2>2. token' \in Seq(STRING) \cup {NoText} /\ saveptr' \in Seq(STRING)
    <3>1. CASE UNCHANGED <<token, saveptr>>
      BY <3>1 DEF OwnTypes
    <3>2. CASE syscall_filter_enabled /\ next_token(syscall_filter_arg)
      <4>1. syscall_filter_arg \in Seq(STRING)
        BY <3>2 DEF ParseInv
      <4> QED BY <3>2, <4>1, StrtokTypes DEF next_token
    <3> QED BY <1>5, <3>1, <3>2 DEF filter_begin
  <2> QED BY <2>1, <2>2 DEF cliVars, targetVars, flagVars, OwnTypes
<1>6. CASE parse_blank \/ parse_add
  <2>1. token' \in Seq(STRING) \cup {NoText} /\ saveptr' \in Seq(STRING)
    BY <1>6, StrtokTypes DEF parse_blank, parse_add, next_token, OwnTypes
  <2> QED BY <1>6, <2>1 DEF parse_blank, parse_add, cliVars, targetVars, flagVars, OwnTypes
<1>7. CASE parse_unknown \/ parse_end \/ set_all_syscall \/ system_fails
  BY <1>7 DEF parse_unknown, parse_end, set_all_syscall, system_fails, return, cliVars,
              targetVars, flagVars, filterVars, OwnTypes
<1>8. CASE UNCHANGED ovars
  BY <1>8 DEF ovars, targetVars, flagVars, filterVars, OwnTypes
<1> QED BY <1>1, <1>2, <1>3, <1>4, <1>5, <1>6, <1>7, <1>8 DEF ONext, Getopt, Filter

\* Every variable of the command line keeps its type; in particular target_comm never
\* fills its array, and parse_syscall_filter enables numbers of the bitmap only.
THEOREM OptionsTypes == OSafety => []OTypeOK
<1>1. CommandInv /\ FilterInv /\ ParseInv /\ OwnTypes => OTypeOK
  <2> SUFFICES ASSUME CommandInv, FilterInv, ParseInv, OwnTypes PROVE OTypeOK
    OBVIOUS
  <2>1. enabled \subseteq 0 .. MAX_SYSCALLS - 1
    BY TablesAssumption DEF ParseInv, Table
  <2>2. {operands, have_pid, have_comm, syscall_filter_enabled,
         print_stack_enabled, enable_32, broken} \subseteq BOOLEAN
    BY DEF CommandInv, Flags, OwnTypes
  <2> QED BY <2>1, <2>2 DEF CommandInv, FilterInv, ParseInv, OwnTypes, OTypeOK
<1>2. OptionsInv => CommandInv /\ FilterInv /\ ParseInv
  BY DEF OptionsInv
<1> QED BY <1>1, <1>2, InitTypes, NextTypes, OptionsAlways, PTL DEF OSafety
=============================================================================
