------------------------------- MODULE Options -------------------------------
(***************************************************************************)
(* What main of src/src/mini_etrace.c makes of its command line: the       *)
(* getopt loop, the checks after it, and the filling of syscall_bitmap     *)
(* from the argument of -e (parse_syscall_filter) or with ones             *)
(* (set_all_syscall).  The calls made in between are Etrace's.             *)
(*                                                                         *)
(* A text is a sequence of characters; Blank stands for space and tab.     *)
(* getopt is the one of the C library, which takes the options first and   *)
(* leaves the operands for last.                                           *)
(***************************************************************************)
EXTENDS SyscallBitmap, SequencesExt

CONSTANTS
  Argvs,      \* the command lines: sequences of Option
  Comma, Blank,
  COMM_LEN,   \* 16 in the code
  MaxPid,     \* 0x7fffffff in the code
  syscall_tables_64, syscall_tables_32,  \* number -> name
  NoText      \* a null pointer

\* An option with its argument as getopt returns it: "?" is an unknown option or
\* a missing argument.  num and whole are what strtol makes of the argument of
\* -p: the number, and whether all of the argument was a number in range.
Option == [opt : {"p", "c", "e", "t", "s", "h", "?", "operand"},
           text : Seq(STRING), num : Int, whole : BOOLEAN]

ASSUME OptionsAssumption ==
  /\ NoText \notin Seq(STRING)
  /\ COMM_LEN \in Nat \ {0}
  /\ MaxPid \in Nat
  /\ \A a \in Argvs : a \in Seq(Option)
  /\ Comma # Blank

\* The generated tables fit into the bitmap, and no name stands twice in one.
ASSUME TablesAssumption ==
  \A table \in {syscall_tables_64, syscall_tables_32} :
    /\ DOMAIN table \subseteq 0 .. MAX_SYSCALLS - 1
    /\ \A m, n \in DOMAIN table : table[m] = table[n] => m = n \/ table[m] = NoText

VARIABLES
  opc,              \* where main is: see OTypeOK
  argv, optind,     \* optind: the next element of argv to look at
  operands,         \* an operand was seen: optind # argc after the loop
  filter_type, target_pid, target_comm, syscall_filter_enabled,
  print_stack_enabled, enable_32,
  have_pid, have_comm, syscall_filter_arg,
  token, saveptr,   \* of strtok_r: a field, and the text that is not split yet
  count,
  word,             \* the variable i of set_all_syscall
  syscall_bitmap,
  enabled,          \* the numbers reported by "enable syscall:"
  broken,           \* history: a call of the system failed
  status            \* what main returns

targetVars == <<filter_type, target_pid, target_comm, have_pid, have_comm>>
flagVars   == <<syscall_filter_enabled, print_stack_enabled, enable_32,
                syscall_filter_arg>>
filterVars == <<token, saveptr, count, word, syscall_bitmap, enabled>>
ovars == <<opc, argv, optind, operands, targetVars, flagVars, filterVars,
           broken, status>>

FILTER_NONE == 0
FILTER_PID  == 1
FILTER_COMM == 2

-----------------------------------------------------------------------------
(***************************************************************************)
(* The getopt loop.                                                        *)
(***************************************************************************)

\* getopt returns o.
Got(o) ==
  /\ opc = "getopt"
  /\ optind <= Len(argv)
  /\ argv[optind].opt = o
  /\ optind' = optind + 1

optarg == argv[optind]

return(s) == opc' = "return" /\ status' = s

ValidPid(a) == a.whole /\ a.num > 0 /\ a.num <= MaxPid

opt_p ==
  /\ Got("p")
  /\ \/ /\ ValidPid(optarg)
        /\ filter_type' = FILTER_PID
        /\ target_pid' = optarg.num
        /\ have_pid' = TRUE
        /\ UNCHANGED <<opc, status, target_comm, have_comm>>
     \/ /\ ~ValidPid(optarg)
        /\ return(1)
        /\ UNCHANGED targetVars
  /\ UNCHANGED <<argv, operands, flagVars, filterVars, broken>>

\* Mutant: as many characters as the array has are kept.
CommFull(t) == IF Len(t) >= COMM_LEN THEN SubSeq(t, 1, COMM_LEN) ELSE t

\* The text kept of a name: a long one loses its end, or its beginning if it is
\* the name of an Android package.
Comm(t) ==
  IF Len(t) < COMM_LEN THEN t
  ELSE IF IsPrefix(<<"c", "o", "m", ".">>, t)
       THEN SubSeq(t, Len(t) - (COMM_LEN - 1) + 1, Len(t))
       ELSE SubSeq(t, 1, COMM_LEN - 1)

opt_c ==
  /\ Got("c")
  /\ filter_type' = FILTER_COMM
  /\ target_comm' = Comm(optarg.text)
  /\ have_comm' = TRUE
  /\ UNCHANGED <<opc, argv, operands, target_pid, have_pid, flagVars,
                 filterVars, broken, status>>

opt_e ==
  /\ Got("e")
  /\ syscall_filter_enabled' = TRUE
  /\ syscall_filter_arg' = optarg.text
  /\ UNCHANGED <<opc, argv, operands, targetVars, print_stack_enabled, enable_32,
                 filterVars, broken, status>>

opt_t ==
  /\ Got("t")
  /\ enable_32' = (enable_32 \/ IsPrefix(<<"3", "2">>, optarg.text))
  /\ UNCHANGED <<opc, argv, operands, targetVars, syscall_filter_enabled,
                 print_stack_enabled, syscall_filter_arg, filterVars, broken,
                 status>>

opt_s ==
  /\ Got("s")
  /\ print_stack_enabled' = TRUE
  /\ UNCHANGED <<opc, argv, operands, targetVars, syscall_filter_enabled, enable_32,
                 syscall_filter_arg, filterVars, broken, status>>

opt_h ==
  /\ Got("h")
  /\ return(0)
  /\ UNCHANGED <<argv, operands, targetVars, flagVars, filterVars, broken>>

opt_unknown ==
  /\ Got("?")
  /\ return(1)
  /\ UNCHANGED <<argv, operands, targetVars, flagVars, filterVars, broken>>

\* getopt passes over an operand.
operand ==
  /\ Got("operand")
  /\ operands' = TRUE
  /\ UNCHANGED <<opc, argv, targetVars, flagVars, filterVars, broken, status>>

\* Mutant: one of -p and -c is enough.
AcceptedEither == (have_pid \/ have_comm) /\ ~operands

Accepted == have_pid # have_comm /\ ~operands

\* getopt returns -1: the checks that follow the loop.
getopt_end ==
  /\ opc = "getopt"
  /\ optind > Len(argv)
  /\ IF Accepted THEN opc' = "filter" /\ UNCHANGED status ELSE return(1)
  /\ UNCHANGED <<argv, optind, operands, targetVars, flagVars, filterVars, broken>>

-----------------------------------------------------------------------------
(***************************************************************************)
(* The filter.  err < 0 leads to cleanup, and to the status 1.             *)
(***************************************************************************)

cliVars == <<argv, optind, operands, targetVars, flagVars>>

\* A system call or an allocation fails, and main gives up.
system_fails ==
  /\ opc \in {"filter", "parse", "set_all"}
  /\ broken' = TRUE
  /\ return(1)
  /\ UNCHANGED <<cliVars, filterVars>>

\* The position of the first character of s from i on that is c, or is not, or the
\* position after the last one.
Find(s, i, c) == Min({j \in i .. Len(s) : s[j] = c} \cup {Len(s) + 1})
Skip(s, i, c) == Min({j \in i .. Len(s) : s[j] # c} \cup {Len(s) + 1})

\* strtok_r: the field after the leading commas, or NULL, and what follows its comma.
strtok(s) ==
  LET b == Skip(s, 1, Comma)
      e == Find(s, b, Comma)
  IN [token |-> IF b > Len(s) THEN NoText ELSE SubSeq(s, b, e - 1),
      saveptr |-> SubSeq(s, e + 1, Len(s))]

next_token(s) == LET f == strtok(s) IN token' = f.token /\ saveptr' = f.saveptr

Trim(s) ==
  SubSeq(s, Skip(s, 1, Blank), Max({j \in 1 .. Len(s) : s[j] # Blank} \cup {0}))

\* Mutant: the names are always those of the 64-bit table.
Table64 == syscall_tables_64

Table == IF enable_32 THEN syscall_tables_32 ELSE syscall_tables_64

\* The lowest number with that name, or -1.
syscall_number(name, table) ==
  LET nrs == {n \in DOMAIN table : table[n] = name}
  IN IF nrs = {} THEN -1 ELSE Min(nrs)

\* Enter parse_syscall_filter, up to its loop, or set_all_syscall.
filter_begin ==
  /\ opc = "filter"
  /\ \/ /\ syscall_filter_enabled
        /\ syscall_filter_arg = <<>>
        /\ return(1)
        /\ UNCHANGED <<token, saveptr>>
     \/ /\ syscall_filter_enabled
        /\ syscall_filter_arg # <<>>
        /\ opc' = "parse"
        /\ next_token(syscall_filter_arg)
        /\ UNCHANGED status
     \/ /\ ~syscall_filter_enabled
        /\ opc' = "set_all"
        /\ UNCHANGED <<token, saveptr, status>>
  /\ UNCHANGED <<cliVars, count, word, syscall_bitmap, enabled, broken>>

\* In the loop; the name in the field.
Token == opc = "parse" /\ token # NoText
name  == Trim(token)

\* Mutant: continue without taking the next field.
parse_blank_stuck ==
  /\ Token
  /\ name = <<>>
  /\ UNCHANGED ovars

parse_blank ==
  /\ Token
  /\ name = <<>>
  /\ next_token(saveptr)
  /\ UNCHANGED <<opc, cliVars, count, word, syscall_bitmap, enabled, broken, status>>

parse_unknown ==
  /\ Token
  /\ name # <<>>
  /\ syscall_number(name, Table) \notin 0 .. MAX_SYSCALLS - 1
  /\ return(1)
  /\ UNCHANGED <<cliVars, filterVars, broken>>

parse_add ==
  LET nr == syscall_number(name, Table) IN
  /\ Token
  /\ name # <<>>
  /\ nr \in 0 .. MAX_SYSCALLS - 1
  /\ syscall_bitmap' = syscall_filter_add(syscall_bitmap, nr)
  /\ enabled' = enabled \cup {nr}
  /\ count' = count + 1
  /\ next_token(saveptr)
  /\ UNCHANGED <<opc, cliVars, word, broken, status>>

\* Mutant: the count is not looked at.
parse_end_uncounted ==
  /\ opc = "parse"
  /\ ~Token
  /\ opc' = "attach"
  /\ UNCHANGED <<cliVars, filterVars, broken, status>>

parse_end ==
  /\ opc = "parse"
  /\ ~Token
  /\ IF count = 0 THEN return(1) ELSE opc' = "attach" /\ UNCHANGED status
  /\ UNCHANGED <<cliVars, filterVars, broken>>

set_all_syscall ==
  /\ opc = "set_all"
  /\ \/ /\ word \in Words
        /\ syscall_bitmap' = set_all_word(syscall_bitmap, word)
        /\ word' = word + 1
        /\ UNCHANGED opc
     \/ /\ word \notin Words
        /\ opc' = "attach"
        /\ UNCHANGED <<word, syscall_bitmap>>
  /\ UNCHANGED <<cliVars, token, saveptr, count, enabled, broken, status>>

-----------------------------------------------------------------------------
OInit ==
  /\ opc = "getopt"
  /\ argv \in Argvs
  /\ optind = 1
  /\ operands = FALSE
  /\ filter_type = FILTER_NONE
  /\ target_pid = 0
  /\ target_comm = <<>>
  /\ have_pid = FALSE /\ have_comm = FALSE
  /\ syscall_filter_enabled = FALSE
  /\ print_stack_enabled = FALSE
  /\ enable_32 = FALSE
  /\ syscall_filter_arg = NoText
  /\ token = NoText /\ saveptr = <<>>
  /\ count = 0
  /\ word = 0
  /\ syscall_bitmap = ZeroBitmap
  /\ enabled = {}
  /\ broken = FALSE
  /\ status = 0

Getopt == \/ opt_p \/ opt_c \/ opt_e \/ opt_t \/ opt_s \/ opt_h
          \/ opt_unknown \/ operand \/ getopt_end
Filter == \/ filter_begin \/ parse_blank \/ parse_unknown \/ parse_add
          \/ parse_end \/ set_all_syscall

ONext == Getopt \/ Filter \/ system_fails

OSafety == OInit /\ [][ONext]_ovars

\* main is one thread that runs until it returns or goes on to attach.
OSpec == OSafety /\ WF_ovars(Getopt \/ Filter)

-----------------------------------------------------------------------------
(***************************************************************************)
(* Properties.                                                             *)
(***************************************************************************)

\* Type correctness; target_comm is an array of COMM_LEN characters that ends
\* with a NUL, so the name in it is shorter (the strncpy and strcpy of -c).
OTypeOK ==
  /\ opc \in {"getopt", "filter", "parse", "set_all", "attach", "return"}
  /\ argv \in Seq(Option)
  /\ optind \in 1 .. Len(argv) + 1
  /\ filter_type \in {FILTER_NONE, FILTER_PID, FILTER_COMM}
  /\ target_pid \in 0 .. MaxPid
  /\ target_comm \in Seq(STRING) /\ Len(target_comm) < COMM_LEN
  /\ {operands, have_pid, have_comm, syscall_filter_enabled,
      print_stack_enabled, enable_32, broken} \subseteq BOOLEAN
  /\ syscall_filter_arg \in Seq(STRING) \cup {NoText}
  /\ token \in Seq(STRING) \cup {NoText} /\ saveptr \in Seq(STRING)
  /\ count \in Nat
  /\ word \in Nat
  /\ syscall_bitmap \in Bitmaps
  /\ enabled \subseteq 0 .. MAX_SYSCALLS - 1
  /\ status \in {0, 1}

Given(o) == {i \in 1 .. Len(argv) : argv[i].opt = o}
LastGiven(o) == argv[Max(Given(o))]

\* Once main goes on to the filter, the command line had exactly one kind of
\* target ("exactly one of -p or -c must be specified"), every pid on it was one,
\* and there was nothing on it that main refuses.  In whatever order the options
\* came, the last -p, -c and -e decide on the target and the list; -s and -t 32
\* only switch something on (mini_etrace.c:440-447), so one of them anywhere is
\* enough, and no -t after it takes it back.
CommandMeaning ==
  opc \in {"filter", "parse", "set_all", "attach"} =>
    /\ Given("h") \cup Given("?") \cup Given("operand") = {}
    /\ \A i \in Given("p") : argv[i].whole /\ argv[i].num \in 1 .. MaxPid
    /\ (Given("p") = {}) <=> (Given("c") # {})
    /\ Given("p") # {} =>
         filter_type = FILTER_PID /\ target_pid = LastGiven("p").num
    /\ Given("c") # {} =>
         filter_type = FILTER_COMM /\ target_comm = Comm(LastGiven("c").text)
    /\ IF Given("e") = {}
       THEN ~syscall_filter_enabled
       ELSE syscall_filter_enabled /\ syscall_filter_arg = LastGiven("e").text
    /\ print_stack_enabled <=> Given("s") # {}
    /\ enable_32 <=> \E i \in Given("t") : IsPrefix(<<"3", "2">>, argv[i].text)

\* The names a text lists: what stands between commas, or the ends of the text,
\* without the blanks around it.
Edge(t, i) == i \in {0, Len(t) + 1} \/ t[i] = Comma
IsName(t, i, j) ==
  /\ i <= j
  /\ t[i] # Blank /\ t[j] # Blank
  /\ \A k \in i .. j : t[k] # Comma
  /\ \E l \in 0 .. i - 1 :
       Edge(t, l) /\ \A k \in l + 1 .. i - 1 : t[k] = Blank
  /\ \E r \in j + 1 .. Len(t) + 1 :
       Edge(t, r) /\ \A k \in j + 1 .. r - 1 : t[k] = Blank
Names(t) ==
  {SubSeq(t, q[1], q[2]) :
     q \in {p \in (1 .. Len(t)) \X (1 .. Len(t)) : IsName(t, p[1], p[2])}}

\* The calls a command line asks for; -t 32 counts wherever it stands.
NamedTable ==
  IF \E i \in Given("t") : IsPrefix(<<"3", "2">>, argv[i].text)
  THEN syscall_tables_32 ELSE syscall_tables_64
Wanted ==
  IF Given("e") = {} THEN 0 .. MAX_SYSCALLS - 1
  ELSE {n \in DOMAIN NamedTable : NamedTable[n] \in Names(LastGiven("e").text)}

\* When the programs get attached, trace_enter lets exactly the calls through
\* that the command line names (parse_syscall_filter and set_all_syscall against
\* syscall_allowed of the BPF program).
Whitelist ==
  opc = "attach" =>
    \A id \in -1 .. MAX_SYSCALLS :
      syscall_allowed(syscall_bitmap, id) <=> id \in Wanted

\* At any time of the parsing, the calls reported with "enable syscall:" are the
\* calls that trace_enter would let through.
EnabledAllowed ==
  syscall_filter_enabled =>
    \A id \in 0 .. MAX_SYSCALLS - 1 :
      syscall_allowed(syscall_bitmap, id) <=> id \in enabled

\* A command line that asks for a trace and makes sense.
Valid ==
  /\ Given("h") \cup Given("?") \cup Given("operand") = {}
  /\ \A i \in Given("p") : argv[i].whole /\ argv[i].num \in 1 .. MaxPid
  /\ (Given("p") = {}) # (Given("c") = {})
  /\ Given("e") # {} =>
       LET names == Names(LastGiven("e").text)
       IN /\ names # {}
          /\ \A m \in names : \E n \in DOMAIN NamedTable : NamedTable[n] = m

\* main attaches for no other command line, and refuses a valid one only if the
\* system fails: a name that is unknown and a list without names are errors, an
\* empty field is not.
ValidAccepted ==
  /\ opc = "attach" => Valid
  /\ opc = "return" /\ ~broken => ~Valid

\* main gets through any command line (the loops of getopt, strtok_r and
\* set_all_syscall end).
OptionsEnd == <>(opc \in {"attach", "return"})
=============================================================================
