---------------------------- MODULE TracerProofs ----------------------------
(***************************************************************************)
(* From the command line to the screen: main as a whole implements Probes, *)
(* and shows nothing but what its options ask for.                         *)
(***************************************************************************)
EXTENDS Tracer, EtraceProofs

\* The lemmas about the command line, for the command line of the tracer.
OP == INSTANCE OptionsProofs

USE DEF optionVars, mainVars, perfVars, Opened, optVars

-----------------------------------------------------------------------------
(***************************************************************************)
(* OptionsProofs speaks of the operators of its own instance of Options.   *)
(***************************************************************************)

\* The constants and the meaning of a command line.
LEMMA SameCommand ==
  /\ OP!Option = O!Option
  /\ \A o : OP!Given(o) = O!Given(o) /\ OP!LastGiven(o) = O!LastGiven(o)
  /\ \A t : OP!Comm(t) = O!Comm(t)
  /\ \A t : OP!Names(t) = O!Names(t)
  /\ OP!Wanted = O!Wanted
  /\ OP!Bitmaps = Bitmaps /\ OP!ZeroBitmap = ZeroBitmap
  /\ \A bm, id : OP!syscall_allowed(bm, id) = syscall_allowed(bm, id)
<1>a. \A S : OP!Max(S) = O!Max(S)
  BY DEF OP!Max, O!Max
<1>b. \A p, t : OP!IsPrefix(p, t) = O!IsPrefix(p, t)
  BY DEF OP!IsPrefix, O!IsPrefix
<1>1. OP!Option = O!Option
  BY DEF OP!Option, O!Option
<1>2. \A o : OP!Given(o) = O!Given(o) /\ OP!LastGiven(o) = O!LastGiven(o)
  BY <1>a DEF OP!Given, O!Given, OP!LastGiven, O!LastGiven
<1>3. \A t : OP!Comm(t) = O!Comm(t)
  BY <1>b DEF OP!Comm, O!Comm
<1>4. \A t : OP!Names(t) = O!Names(t)
  <2>1. \A t, i, j : OP!IsName(t, i, j) = O!IsName(t, i, j)
    BY DEF OP!IsName, O!IsName, OP!Edge, O!Edge
  <2> QED BY <2>1 DEF OP!Names, O!Names
<1>5. OP!Wanted = O!Wanted
  <2>1. OP!NamedTable = O!NamedTable
    BY <1>2, <1>b DEF OP!NamedTable, O!NamedTable
  <2> QED BY <1>2, <1>4, <2>1 DEF OP!Wanted, O!Wanted
<1>6. OP!Bitmaps = Bitmaps /\ OP!ZeroBitmap = ZeroBitmap
  BY DEF OP!Bitmaps, Bitmaps, OP!ZeroBitmap, ZeroBitmap, OP!Words, Words, OP!Bits, Bits
<1>7. \A bm, id : OP!syscall_allowed(bm, id) = syscall_allowed(bm, id)
  BY DEF OP!syscall_allowed, syscall_allowed
<1> QED BY <1>1, <1>2, <1>3, <1>4, <1>5, <1>6, <1>7

\* The assumptions of Options, for the tracer.
LEMMA OPAssumptions ==
  /\ /\ MAX_SYSCALLS \in Nat
     /\ SYSCALL_WORD_BITS \in Nat \ {0}
     /\ MAX_SYSCALLS = SYSCALL_WORD_BITS * (MAX_SYSCALLS \div SYSCALL_WORD_BITS)
  /\ /\ NoText \notin Seq(STRING)
     /\ COMM_LEN \in Nat \ {0}
     /\ MaxPid \in Nat
     /\ \A a \in Argvs : a \in Seq(OP!Option)
     /\ Comma # Blank
  /\ \A table \in {syscall_tables_64, syscall_tables_32} :
       /\ DOMAIN table \subseteq 0 .. MAX_SYSCALLS - 1
       /\ \A m, n \in DOMAIN table : table[m] = table[n] => m = n \/ table[m] = NoText
BY BitmapAssumption, CommandLineAssumption, NumbersAssumption, SameCommand

\* The same for the initial states and the steps.
LEMMA SameOptions ==
  /\ O!OInit => OP!OInit
  /\ O!Getopt => OP!Getopt
  /\ O!Filter => OP!Filter
  /\ O!system_fails => OP!system_fails
  /\ UNCHANGED <<optVars, syscall_bitmap>> => UNCHANGED OP!ovars
<1> USE DEF O!targetVars, OP!targetVars, O!flagVars, OP!flagVars, O!filterVars,
            OP!filterVars, O!cliVars, OP!cliVars, O!optarg, OP!optarg, O!return, OP!return,
            O!FILTER_NONE, OP!FILTER_NONE, O!FILTER_PID, OP!FILTER_PID, O!FILTER_COMM,
            OP!FILTER_COMM
<1>1. O!OInit => OP!OInit
  BY DEF O!OInit, OP!OInit, O!ZeroBitmap, OP!ZeroBitmap, O!Words, OP!Words
<1>2. /\ \A p, t : O!IsPrefix(p, t) = OP!IsPrefix(p, t)
      /\ \A S : O!Min(S) = OP!Min(S)
      /\ \A S : O!Max(S) = OP!Max(S)
  BY DEF O!IsPrefix, OP!IsPrefix, O!Min, OP!Min, O!Max, OP!Max
<1>3. \A o : O!Got(o) <=> OP!Got(o)
  BY DEF O!Got, OP!Got
<1>4. /\ O!opt_p => OP!opt_p
      /\ O!opt_c => OP!opt_c
      /\ O!opt_e => OP!opt_e
      /\ O!opt_t => OP!opt_t
      /\ O!opt_s => OP!opt_s
      /\ O!opt_h => OP!opt_h
      /\ O!opt_unknown => OP!opt_unknown
      /\ O!operand => OP!operand
      /\ O!getopt_end => OP!getopt_end
  <2>1. O!opt_p => OP!opt_p
    BY <1>3 DEF O!opt_p, OP!opt_p, O!ValidPid, OP!ValidPid
  <2>2. O!opt_c => OP!opt_c
    BY <1>3, SameCommand DEF O!opt_c, OP!opt_c
  <2>3. O!opt_e => OP!opt_e
    BY <1>3 DEF O!opt_e, OP!opt_e
  <2>4. O!opt_t => OP!opt_t
    BY <1>2, <1>3 DEF O!opt_t, OP!opt_t
  <2>5. O!opt_s => OP!opt_s
    BY <1>3 DEF O!opt_s, OP!opt_s
  <2>6. /\ O!opt_h => OP!opt_h
        /\ O!opt_unknown => OP!opt_unknown
        /\ O!operand => OP!operand
    BY <1>3 DEF O!opt_h, OP!opt_h, O!opt_unknown, OP!opt_unknown, O!operand, OP!operand
  <2>7. O!getopt_end => OP!getopt_end
    BY DEF O!getopt_end, OP!getopt_end, O!Accepted, OP!Accepted
  <2> QED BY <2>1, <2>2, <2>3, <2>4, <2>5, <2>6, <2>7
<1>5. O!Getopt => OP!Getopt
  BY <1>4 DEF O!Getopt, OP!Getopt
<1>6. /\ \A t : O!strtok(t) = OP!strtok(t) /\ O!Trim(t) = OP!Trim(t)
      /\ \A t, x : O!syscall_number(t, x) = OP!syscall_number(t, x)
  <2>1. \A t, i, x : O!Find(t, i, x) = OP!Find(t, i, x) /\ O!Skip(t, i, x) = OP!Skip(t, i, x)
    BY <1>2 DEF O!Find, OP!Find, O!Skip, OP!Skip
  <2>2. \A t : O!strtok(t) = OP!strtok(t)
    BY <2>1 DEF O!strtok, OP!strtok
  <2>3. \A t : O!Trim(t) = OP!Trim(t)
    BY <1>2, <2>1 DEF O!Trim, OP!Trim
  <2>4. \A t, x : O!syscall_number(t, x) = OP!syscall_number(t, x)
    BY <1>2 DEF O!syscall_number, OP!syscall_number
  <2> QED BY <2>2, <2>3, <2>4
<1>7. /\ O!Table = OP!Table
      /\ O!Token <=> OP!Token
      /\ O!name = OP!name
      /\ \A t : O!next_token(t) <=> OP!next_token(t)
  BY <1>6 DEF O!Table, OP!Table, O!Token, OP!Token, O!name, OP!name, O!next_token, OP!next_token
<1>8. /\ O!filter_begin => OP!filter_begin
      /\ O!parse_blank => OP!parse_blank
      /\ O!parse_unknown => OP!parse_unknown
      /\ O!parse_add => OP!parse_add
      /\ O!parse_end => OP!parse_end
      /\ O!set_all_syscall => OP!set_all_syscall
  <2>1. O!filter_begin => OP!filter_begin
    BY <1>7 DEF O!filter_begin, OP!filter_begin
  <2>2. O!parse_blank => OP!parse_blank
    BY <1>7 DEF O!parse_blank, OP!parse_blank
  <2>3. O!parse_unknown => OP!parse_unknown
    BY <1>6, <1>7 DEF O!parse_unknown, OP!parse_unknown
  <2>4. O!parse_add => OP!parse_add
    BY <1>6, <1>7 DEF O!parse_add, OP!parse_add, O!syscall_filter_add, OP!syscall_filter_add
  <2>5. O!parse_end => OP!parse_end
    BY <1>7 DEF O!parse_end, OP!parse_end
  <2>6. O!set_all_syscall => OP!set_all_syscall
    BY DEF O!set_all_syscall, OP!set_all_syscall, O!set_all_word, OP!set_all_word,
           O!Words, OP!Words, O!Bits, OP!Bits
  <2> QED BY <2>1, <2>2, <2>3, <2>4, <2>5, <2>6
<1>9. O!Filter => OP!Filter
  BY <1>8 DEF O!Filter, OP!Filter
<1>10. O!system_fails => OP!system_fails
  BY DEF O!system_fails, OP!system_fails
<1>11. UNCHANGED <<optVars, syscall_bitmap>> => UNCHANGED OP!ovars
  BY DEF OP!ovars
<1> QED BY <1>1, <1>5, <1>9, <1>10, <1>11

-----------------------------------------------------------------------------
(***************************************************************************)
(* The command line.                                                       *)
(***************************************************************************)

\* A step that main has in common with Etrace leaves the bitmap alone: filling it is
\* what the options do.
LEMMA RestLeavesBitmap ==
  ASSUME main_rest \/ main_fails \/ main_signal
  PROVE  UNCHANGED <<syscall_bitmap, config, wanted>>
<1> USE DEF vars, configVars
<1>1. CASE main_rest
  <2>1. mpc # "bitmap" /\ Progress
    BY <1>1 DEF main_rest, InEtrace
  <2>2. ~setup_bitmap
    BY <2>1 DEF setup_bitmap
  <2>3. CASE setup_config \/ setup_attach("enter") \/ setup_attach("exit")
    BY <2>3 DEF setup_config, setup_attach, write_config, attach
  <2>4. CASE bpf_link_destroy
    BY <2>4 DEF bpf_link_destroy, destroy_link, destroy
  <2>5. CASE setup_plain \/ setup_perf \/ check_exiting \/ poll_ready \/ poll_timeout
             \/ poll_drain \/ poll_return \/ perf_buffer_free \/ bpf_object_close
    BY <2>5 DEF setup_plain, setup_perf, check_exiting, poll_ready, poll_timeout,
       poll_drain, poll_return, perf_buffer_free, bpf_object_close
  <2> QED BY <2>1, <2>2, <2>3, <2>4, <2>5 DEF Progress
<1>2. CASE main_fails \/ main_signal
  BY <1>2 DEF main_fails, main_signal, setup_fails, poll_fails, sig_handler
<1> QED BY <1>1, <1>2

\* Every step of the tracer is a step of Options or leaves its variables alone.
LEMMA StepOptions ==
  ASSUME [TNext]_tvars
  PROVE  [OP!ONext]_OP!ovars
<1>1. CASE main_options
  BY <1>1, SameOptions DEF main_options, OP!ONext
<1>2. CASE main_filter \/ main_filter_fails
  BY <1>2, SameOptions DEF main_filter, main_filter_fails, OP!ONext
<1>3. CASE main_rlimit
  BY <1>3, SameOptions DEF main_rlimit, vars, configVars
<1>4. CASE main_rest \/ main_fails \/ main_signal
  <2>1. UNCHANGED <<optVars, syscall_bitmap>>
    BY <1>4, RestLeavesBitmap DEF main_rest, main_fails, main_signal
  <2> QED BY <2>1, SameOptions
<1>5. ASSUME NEW k \in Keys, kernel_step(k) \/ kernel_output(k), UNCHANGED optVars
      PROVE  UNCHANGED OP!ovars
  <2>1. Task(k) \/ trace_enter(k) \/ trace_exit(k)
    BY <1>5 DEF kernel_step, kernel_output, trace_exit
  <2>2. syscall_bitmap' = syscall_bitmap
    BY <2>1, KernelLeavesUser
  <2> QED BY <1>5, <2>2, SameOptions
<1>6. CASE UNCHANGED tvars
  BY <1>6, SameOptions DEF tvars, evars, vars, configVars
<1> QED BY <1>1, <1>2, <1>3, <1>4, <1>5, <1>6 DEF TNext, TProgress

\* What OptionsProofs shows of the command line holds in the tracer.
LEMMA OptionsHold ==
  /\ TInit => OP!OptionsInv
  /\ OP!OptionsInv /\ [TNext]_tvars => OP!OptionsInv'
<1>1. TInit => OP!OptionsInv
  BY OPAssumptions, SameOptions, OP!InitOptions DEF TInit
<1>2. OP!OptionsInv /\ [TNext]_tvars => OP!OptionsInv'
  BY OPAssumptions, StepOptions, OP!NextOptions
<1> QED BY <1>1, <1>2

\* The command line is read and not written, so it asks for the same throughout.
LEMMA CommandKept ==
  ASSUME [TNext]_tvars
  PROVE  /\ UNCHANGED argv
         /\ O!Wanted' = O!Wanted
         /\ \A o : O!Given(o)' = O!Given(o) /\ O!LastGiven(o)' = O!LastGiven(o)
<1>1. UNCHANGED argv
  <2>1. [OP!ONext]_OP!ovars
    BY StepOptions
  <2> QED BY <2>1 DEF OP!ONext, OP!Getopt, OP!opt_p, OP!opt_c, OP!opt_e, OP!opt_t, OP!opt_s,
      OP!opt_h, OP!opt_unknown, OP!operand, OP!getopt_end, OP!Filter, OP!filter_begin,
      OP!parse_blank, OP!parse_unknown, OP!parse_add, OP!parse_end, OP!set_all_syscall,
      OP!system_fails, OP!cliVars, OP!ovars
<1>2. \A o : O!Given(o)' = O!Given(o) /\ O!LastGiven(o)' = O!LastGiven(o)
  BY <1>1 DEF O!Given, O!LastGiven
<1>3. O!Wanted' = O!Wanted
  BY <1>1, <1>2 DEF O!Wanted, O!NamedTable
<1> QED BY <1>1, <1>2, <1>3

\* The configuration that the command line asks for is one that may be written.
LEMMA AskedConfigIs ==
  ASSUME argv \in Argvs, Targeted
  PROVE  AskedConfig \in Configs
<1>1. argv \in Seq(OP!Option) /\ MaxPid \in Nat
  BY OPAssumptions
<1>2. \A o : O!Given(o) # {} => \E i \in O!Given(o) : O!LastGiven(o) = argv[i]
  BY <1>1, OPAssumptions, OP!LastIs, SameCommand
<1>3. AskedConfig.target_pid \in 0 .. MaxPid
  <2>1. CASE O!Given("p") = {}
    BY <1>1, <2>1 DEF AskedConfig
  <2>2. CASE O!Given("p") # {}
    <3>1. PICK i \in O!Given("p") : O!LastGiven("p") = argv[i]
      BY <1>2, <2>2
    <3>2. O!ValidPid(argv[i]) /\ argv[i] \in OP!Option
      BY <1>1 DEF Targeted, O!Given
    <3>3. argv[i].num \in 0 .. MaxPid
      BY <1>1, <3>2 DEF O!ValidPid, OP!Option
    <3> QED BY <2>2, <3>1, <3>3 DEF AskedConfig
  <2> QED BY <2>1, <2>2
<1>4. AskedConfig.target_comm \in TargetComms
  <2>1. CASE O!Given("c") = {}
    BY <2>1 DEF AskedConfig, TargetComms
  <2>2. CASE O!Given("c") # {}
    <3>1. PICK i \in O!Given("c") : O!LastGiven("c") = argv[i]
      BY <1>2, <2>2
    <3>2. i \in {j \in 1 .. Len(argv) : argv[j].opt = "c"}
      BY DEF O!Given
    <3>3. O!Comm(argv[i].text) \in TargetComms
      BY <3>2 DEF TargetComms
    <3> QED BY <2>2, <3>1, <3>3 DEF AskedConfig
  <2> QED BY <2>1, <2>2
<1>5. AskedConfig \in CommandConfigs
  BY <1>3, <1>4 DEF AskedConfig, CommandConfigs
<1> QED BY <1>5, DescribedAssumption

\* When the getopt loop is over and main goes on, config is what the options ask for.
LEMMA GetoptAsked ==
  ASSUME OP!OptionsInv, OP!OptionsInv', main_options, opc' = "filter"
  PROVE  Targeted' /\ config' = AskedConfig'
<1>0. OP!CommandInv /\ OP!CommandInv'
  BY DEF OP!OptionsInv
<1>1. OP!getopt_end
  <2>1. OP!Getopt
    BY SameOptions DEF main_options
  <2> QED BY <2>1 DEF OP!Getopt, OP!opt_p, OP!opt_c, OP!opt_e, OP!opt_t, OP!opt_s, OP!opt_h,
      OP!opt_unknown, OP!operand, OP!Got, OP!return
<1>2. /\ have_pid <=> O!Given("p") # {}
      /\ have_comm <=> O!Given("c") # {}
      /\ have_pid # have_comm
      /\ filter_type = IF have_pid THEN FILTER_PID ELSE FILTER_COMM
      /\ target_pid = IF have_pid THEN O!LastGiven("p").num ELSE 0
      /\ have_comm => target_comm = O!Comm(O!LastGiven("c").text)
      /\ syscall_filter_enabled <=> O!Given("e") # {}
      /\ print_stack_enabled <=> O!Given("s") # {}
      /\ {have_pid, have_comm, syscall_filter_enabled, print_stack_enabled} \subseteq BOOLEAN
  BY <1>0, <1>1, OPAssumptions, OP!GetoptDone, SameCommand
  DEF OP!FILTER_PID, FILTER_PID, OP!FILTER_COMM, FILTER_COMM
<1>3. TheConfig = AskedConfig
  BY <1>2 DEF TheConfig, AskedConfig
<1>4. \A o : O!Given(o)' = O!Given(o) /\ O!LastGiven(o)' = O!LastGiven(o)
  BY CommandKept DEF TNext, TProgress
<1>5. config' = AskedConfig'
  BY <1>3, <1>4 DEF main_options, AskedConfig
<1>6. Targeted'
  <2>1. OP!CommandMeaning'
    BY <1>0 DEF OP!CommandInv
  <2>2. \A o : OP!Given(o)' = O!Given(o)'
    BY DEF OP!Given, O!Given
  <2>3. /\ (O!Given("h") \cup O!Given("?") \cup O!Given("operand"))' = {}
        /\ \A i \in O!Given("p")' : argv'[i].whole /\ argv'[i].num \in 1 .. MaxPid
        /\ (O!Given("p")' = {}) <=> (O!Given("c")' # {})
    BY <2>1, <2>2 DEF OP!CommandMeaning
  <2> QED BY <2>3, CommandLineAssumption DEF Targeted, O!ValidPid
<1> QED BY <1>5, <1>6

\* When main goes on to attach, the bitmap is the one of the calls that the options
\* ask for.
LEMMA FilterAsked == OP!OptionsInv => (opc = "attach" => syscall_bitmap = BitmapOf(O!Wanted))
<1> SUFFICES ASSUME OP!OptionsInv, opc = "attach"
             PROVE  syscall_bitmap = BitmapOf(O!Wanted)
  OBVIOUS
<1>1. OP!Whitelist
  BY OPAssumptions, OP!WhitelistHolds
<1>2. syscall_bitmap \in OP!Bitmaps
  BY DEF OP!OptionsInv, OP!FilterInv
<1>3. ASSUME NEW w \in Words, NEW b \in Bits
      PROVE  syscall_allowed(syscall_bitmap, w * SYSCALL_WORD_BITS + b)
               <=> w * SYSCALL_WORD_BITS + b \in O!Wanted
  <2> DEFINE id == w * SYSCALL_WORD_BITS + b
  <2>1. w \in OP!Words /\ b \in OP!Bits
    BY DEF Words, Bits, OP!Words, OP!Bits
  <2>2. id \in 0 .. MAX_SYSCALLS - 1
    BY <2>1, OPAssumptions, OP!NumberOfBit
  <2> HIDE DEF id
  <2>3. id \in -1 .. MAX_SYSCALLS
    BY <2>2, BitmapAssumption
  <2>4. syscall_allowed(syscall_bitmap, id) <=> id \in O!Wanted
    BY <1>1, <2>3, SameCommand DEF OP!Whitelist
  <2> QED BY <2>4 DEF id
<1>4. syscall_bitmap = [w \in Words |-> {b \in Bits :
                          syscall_allowed(syscall_bitmap, w * SYSCALL_WORD_BITS + b)}]
  <2>1. syscall_bitmap = [w \in OP!Words |-> {b \in OP!Bits :
                            OP!syscall_allowed(syscall_bitmap, w * SYSCALL_WORD_BITS + b)}]
    BY <1>2, OPAssumptions, OP!BitmapIs
  <2>2. OP!Words = Words /\ OP!Bits = Bits
    BY DEF Words, Bits, OP!Words, OP!Bits
  <2> QED BY <2>1, <2>2, SameCommand
<1> QED BY <1>3, <1>4 DEF BitmapOf

-----------------------------------------------------------------------------
(***************************************************************************)
(* The order of the calls of main.                                         *)
(***************************************************************************)

\* The calls before the filter, from the filter to the end of the loop, and after it.
Before == {"open", "load", "config"}
After  == {"enter", "exit", "events", "perf", "loop", "poll", "drain"}
Ending == {"free", "unlink_exit", "unlink_enter", "close", "done"}

\* How main gets on outside of the options.
LEMMA MainMoves ==
  ASSUME TypeOK, mpc \in MainPc, main_rest \/ main_fails \/ main_signal
  PROVE  /\ mpc \in Before => mpc' \in Before \cup {"bitmap"} \cup Ending
         /\ mpc = "bitmap" => mpc' = "bitmap"
         /\ mpc \in After => mpc' \in After \cup Ending
         /\ mpc \in Ending => mpc' \in Ending
         /\ link'["enter"] # "none" => link["enter"] # "none" \/ mpc = "enter"
<1> USE DEF vars, Before, After, Ending
<1>1. CASE main_rest
  <2>1. mpc # "bitmap" /\ Progress
    BY <1>1 DEF main_rest, InEtrace
  <2>2. CASE setup_plain \/ setup_config \/ setup_perf
    BY <2>1, <2>2, ProceedNext DEF setup_plain, setup_config, setup_perf, write_config
  <2>3. ~setup_bitmap
    BY <2>1 DEF setup_bitmap
  <2>4. CASE setup_attach("enter") \/ setup_attach("exit")
    BY <2>4, ProceedNext DEF setup_attach, attach, TypeOK
  <2>5. CASE bpf_link_destroy
    BY <2>5 DEF bpf_link_destroy, destroy_link, destroy, TypeOK
  <2>6. CASE check_exiting \/ poll_ready \/ poll_timeout \/ poll_drain \/ poll_return
             \/ perf_buffer_free \/ bpf_object_close
    BY <2>6 DEF check_exiting, poll_ready, poll_timeout, poll_drain, poll_return,
       perf_buffer_free, bpf_object_close
  <2> QED BY <2>1, <2>2, <2>3, <2>4, <2>5, <2>6 DEF Progress
<1>2. CASE main_fails
  BY <1>2 DEF main_fails, InEtrace, setup_fails, poll_fails, Cleanup
<1>3. CASE main_signal
  BY <1>3 DEF main_signal, sig_handler
<1> QED BY <1>1, <1>2, <1>3

\* CommandOrder holds at first.
LEMMA InitCommandOrder == TInit => CommandOrder
<1> SUFFICES ASSUME TInit PROVE CommandOrder
  OBVIOUS
<1>1. opc = "getopt" /\ argv \in Argvs
  BY DEF TInit, O!OInit
<1> QED BY <1>1 DEF TInit, Init, CommandOrder, Unattached

\* Every step of main is a step of Probes or leaves its variables alone, and keeps
\* CommandOrder.
LEMMA StepTracer ==
  ASSUME IInv, CommandOrder, OP!OptionsInv, OP!OptionsInv', [TNext]_tvars
  PROVE  [Next]_vars /\ CommandOrder'
<1> USE DEF Unattached
<1>1. /\ argv' \in Argvs /\ O!Wanted' = O!Wanted
      /\ Targeted' = Targeted /\ AskedConfig' = AskedConfig
  BY CommandKept DEF CommandOrder, Targeted, AskedConfig
<1>2. wanted \in Filters
  <2>1. BitmapOf(O!Wanted) \in Bitmaps
    BY DEF BitmapOf, Bitmaps
  <2> QED BY <2>1, DescribedAssumption DEF CommandOrder
<1>3. TypeOK
  BY DEF IInv
<1>4. CASE main_options
  <2>1. /\ mpc = "getopt" /\ opc = "getopt" /\ opc' \in {"getopt", "filter", "return"}
        /\ UNCHANGED <<vars, wanted>>
    <3>1. OP!Getopt
      BY <1>4, SameOptions DEF main_options
    <3>2. opc = "getopt" /\ opc' \in {"getopt", "filter", "return"} /\ UNCHANGED syscall_bitmap
      BY <3>1 DEF OP!Getopt, OP!opt_p, OP!opt_c, OP!opt_e, OP!opt_t, OP!opt_s, OP!opt_h,
        OP!opt_unknown, OP!operand, OP!getopt_end, OP!Got, OP!return, OP!filterVars
    <3> QED BY <1>4, <3>2 DEF main_options, restVars, vars, configVars
  <2>2. CASE opc' = "filter"
    <3>1. mpc' = "rlimit" /\ config' = AskedConfig' /\ Targeted'
      BY <1>4, <2>2, GetoptAsked DEF main_options
    <3>2. config' \in Configs
      BY <1>1, <3>1, AskedConfigIs DEF CommandOrder
    <3>3. OrderInv'
      BY <1>2, <2>1, <3>1, <3>2 DEF OrderInv, CommandOrder, vars
    <3> QED BY <1>1, <2>1, <2>2, <3>1, <3>3 DEF CommandOrder, vars
  <2>3. CASE opc' = "getopt"
    BY <1>1, <1>4, <2>1, <2>3 DEF main_options, CommandOrder, vars
  <2>4. CASE opc' = "return"
    BY <1>1, <1>4, <2>1, <2>4 DEF main_options, CommandOrder, vars
  <2> QED BY <2>1, <2>2, <2>3, <2>4
<1>5. CASE main_rlimit
  <2>1. mpc = "rlimit" /\ mpc' \in {"open", "refused"} /\ UNCHANGED <<vars, config, wanted, opc>>
    BY <1>5 DEF main_rlimit
  <2>2. OrderInv'
    BY <2>1 DEF OrderInv, CommandOrder, vars
  <2> QED BY <1>1, <2>1, <2>2 DEF CommandOrder, MainPc, vars
<1>6. CASE main_filter \/ main_filter_fails
  <2>1. /\ mpc = "bitmap" /\ opc \in {"filter", "parse", "set_all"} /\ FilterDone
        /\ UNCHANGED <<restVars, config, wanted>>
    BY <1>6 DEF main_filter, main_filter_fails, FilterDone, CommandOrder
  <2>2. opc' \in {"filter", "parse", "set_all", "attach", "return"}
    <3>1. OP!Filter \/ OP!system_fails
      BY <1>6, SameOptions DEF main_filter, main_filter_fails
    <3> QED BY <3>1 DEF OP!Filter, OP!filter_begin, OP!parse_blank, OP!parse_unknown,
        OP!parse_add, OP!parse_end, OP!set_all_syscall, OP!system_fails, OP!return, OP!Token
  <2>3. [Next]_vars
    <3>1. syscall_bitmap' \in Filters
      BY SameCommand, DescribedAssumption DEF OP!OptionsInv, OP!FilterInv
    <3>2. write_bitmap(syscall_bitmap')
      BY <2>1 DEF write_bitmap, restVars
    <3>3. Unattached
      BY <2>1 DEF CommandOrder, OrderInv
    <3> QED BY <3>1, <3>2, <3>3 DEF Next, User
  <2>4. link' = link /\ config_map' = config_map /\ opened' = opened
    BY <2>1 DEF restVars, FilterDone
  <2>5. OrderInv /\ Targeted /\ config = AskedConfig
    BY <2>1 DEF CommandOrder
  <2>6. CASE opc' = "attach"
    <3>1. mpc' = "enter"
      BY <2>1, <2>6 DEF FilterDone
    <3>2. syscall_bitmap' = wanted'
      <4>1. (opc = "attach" => syscall_bitmap = BitmapOf(O!Wanted))'
        BY FilterAsked, PTL
      <4>2. syscall_bitmap' = BitmapOf(O!Wanted)'
        BY <2>6, <4>1
      <4>3. BitmapOf(O!Wanted)' = BitmapOf(O!Wanted)
        BY <1>1 DEF BitmapOf
      <4> QED BY <2>1, <4>2, <4>3 DEF CommandOrder
    <3>3. OrderInv'
      BY <2>1, <2>4, <2>5, <3>1, <3>2 DEF OrderInv
    <3> QED BY <1>1, <2>1, <2>3, <2>4, <2>5, <2>6, <3>1, <3>3 DEF CommandOrder, MainPc, BitmapOf
  <2>7. CASE opc' = "return"
    <3>1. mpc' = "free"
      BY <2>1, <2>7 DEF FilterDone, Cleanup
    <3>2. OrderInv'
      BY <2>1, <2>4, <2>5, <3>1 DEF OrderInv
    <3> QED BY <1>1, <2>1, <2>3, <2>4, <2>5, <2>7, <3>1, <3>2
        DEF CommandOrder, OrderInv, MainPc, BitmapOf
  <2>8. CASE opc' \in {"filter", "parse", "set_all"}
    <3>1. mpc' = "bitmap"
      BY <2>1, <2>8 DEF FilterDone
    <3>2. OrderInv'
      BY <2>1, <2>4, <2>5, <3>1 DEF OrderInv
    <3> QED BY <1>1, <2>1, <2>3, <2>4, <2>5, <2>8, <3>1, <3>2
        DEF CommandOrder, OrderInv, MainPc, BitmapOf
  <2> QED BY <2>2, <2>6, <2>7, <2>8
<1>7. CASE main_rest \/ main_fails \/ main_signal
  <2>1. mpc \in MainPc /\ mpc \notin {"getopt", "rlimit", "refused"} /\ [ENext]_evars
    BY <1>7 DEF main_rest, main_fails, main_signal, InEtrace, ENext, Main, CommandOrder
  <2>2. OrderInv /\ Targeted /\ config = AskedConfig
    BY <2>1 DEF CommandOrder
  <2>3. [Next]_vars /\ OrderInv'
    BY <1>3, <2>1, <2>2, StepImplements
  <2>4. UNCHANGED <<config, wanted, opc>>
    BY <1>7, RestLeavesBitmap DEF main_rest, main_fails, main_signal
  <2>5. mpc \in Before \cup {"bitmap"} \cup After \cup Ending
    BY <2>1 DEF MainPc, Before, After, Ending
  <2>6. /\ mpc \in Before => mpc' \in Before \cup {"bitmap"} \cup Ending
        /\ mpc = "bitmap" => mpc' = "bitmap"
        /\ mpc \in After => mpc' \in After \cup Ending
        /\ mpc \in Ending => mpc' \in Ending
        /\ link'["enter"] # "none" => link["enter"] # "none" \/ mpc = "enter"
    BY <1>3, <1>7, <2>1, MainMoves
  <2>7. (link["enter"] # "none" \/ mpc \in After) => opc = "attach"
    BY DEF CommandOrder, After
  <2>8. mpc' \in MainPc /\ mpc' \notin {"getopt", "rlimit", "refused"}
    BY <2>5, <2>6 DEF MainPc, Before, After, Ending
  <2>9. (link'["enter"] # "none" \/ mpc' \in After) => opc' = "attach"
    BY <2>4, <2>5, <2>6, <2>7 DEF Before, After, Ending
  <2>10. /\ mpc' \in Before => opc' = "filter"
         /\ mpc' = "bitmap" => opc' \in {"filter", "parse", "set_all"}
         /\ opc' # "getopt"
    BY <2>1, <2>4, <2>5, <2>6 DEF CommandOrder, Before, After, Ending
  <2> QED BY <1>1, <2>2, <2>3, <2>4, <2>8, <2>9, <2>10 DEF CommandOrder, Before, After, BitmapOf
<1>8. ASSUME NEW k \in Keys, kernel_step(k) \/ kernel_output(k), UNCHANGED optVars
      PROVE  [Next]_vars /\ CommandOrder'
  <2>1. Task(k) \/ trace_enter(k) \/ trace_exit(k)
    BY <1>8 DEF kernel_step, kernel_output, trace_exit
  <2>2. UNCHANGED <<mpc, config, wanted, opc>>
    BY <1>8 DEF kernel_step, kernel_output
  <2>3. link' = link
    BY <2>1, KernelLeavesUser
  <2>4. OrderInv => OrderInv'
    BY <1>3, <1>8, StepImplements DEF ENext
  <2> QED BY <1>1, <2>1, <2>2, <2>3, <2>4 DEF Next, CommandOrder, BitmapOf
<1>9. CASE UNCHANGED tvars
  <2>1. UNCHANGED <<mpc, config, wanted, opc, link>> /\ UNCHANGED evars
    BY <1>9 DEF tvars, evars, vars
  <2>2. OrderInv => OrderInv'
    BY <1>3, <2>1, StepImplements
  <2> QED BY <1>1, <1>9, <2>1, <2>2 DEF CommandOrder, BitmapOf, tvars, evars
<1> QED BY <1>4, <1>5, <1>6, <1>7, <1>8, <1>9 DEF TNext, TProgress

\* The options leave the rings alone.
LEMMA StepRings ==
  ASSUME IInv, DeliveryInv, [TNext]_tvars
  PROVE  DeliveryInv'
<1>1. CASE main_options \/ main_rlimit \/ main_filter \/ main_filter_fails
  <2>1. sent' = sent /\ UNCHANGED perfVars /\ mpc \notin Opened
    BY <1>1 DEF main_options, main_rlimit, main_filter, main_filter_fails, FilterDone,
       restVars, vars, histVars
  <2> QED BY <2>1, StutterDelivery
<1>2. CASE \/ main_rest \/ main_fails \/ main_signal \/ UNCHANGED tvars
           \/ \E k \in Keys : kernel_step(k) \/ kernel_output(k)
  <2>1. [ENext]_evars
    BY <1>2 DEF main_rest, main_fails, main_signal, ENext, Main, tvars
  <2> QED BY <2>1, StepDelivery
<1> QED BY <1>1, <1>2 DEF TNext, TProgress

\* The initial states and the steps together.
TracerInv == IInv /\ CommandOrder /\ OP!OptionsInv /\ DeliveryInv

\* TracerInv holds initially.
LEMMA InitTracer == TInit => TracerInv
<1>1. TInit => DeliveryInv
  <2>1. TInit => PBP!PBInv
    BY PBAssumptions, SameRings, PBP!InitInv DEF TInit
  <2>2. TInit => RingsInv
    BY DEF TInit, PB!PBInit, RingsInv
  <2> QED BY <2>1, <2>2 DEF DeliveryInv
<1>2. TInit => IInv
  BY InitIInv DEF TInit
<1> QED BY <1>1, <1>2, InitCommandOrder, OptionsHold DEF TracerInv

\* TracerInv is preserved, by steps that are steps of Probes or no steps to it.
LEMMA NextTracer == TracerInv /\ [TNext]_tvars => TracerInv' /\ [Next]_vars
<1> SUFFICES ASSUME TracerInv, [TNext]_tvars PROVE TracerInv' /\ [Next]_vars
  OBVIOUS
<1>1. OP!OptionsInv /\ OP!OptionsInv'
  BY OptionsHold DEF TracerInv
<1>2. [Next]_vars /\ CommandOrder'
  BY <1>1, StepTracer DEF TracerInv
<1>3. IInv'
  BY <1>2, NextIInv DEF TracerInv
<1>4. DeliveryInv'
  BY StepRings DEF TracerInv
<1> QED BY <1>1, <1>2, <1>3, <1>4 DEF TracerInv

\* So it holds always.
LEMMA TracerAlways == TSafety => []TracerInv /\ [][Next]_vars
  BY InitTracer, NextTracer, PTL DEF TSafety

\* main with its command line implements Probes: whatever the options and whatever
\* fails, parse_syscall_filter and set_all_syscall change the bitmap bit by bit only
\* while nothing is attached, and what is attached finds a configuration and a filter
\* that the options describe.  So the theorems of ProbesProofs hold of all of main.
THEOREM TracerImplementsProbes == TSafety => Spec
<1>1. TInit => Init
  BY DEF TInit
<1> QED BY <1>1, TracerAlways, PTL DEF TSafety, Spec

\* Every call reported passed the filter when it was entered, under every command line.
THEOREM TracerFilters == TSafety => []FilterRespected
  BY TracerImplementsProbes, FilterHolds, PTL

\* Every event shown is a call that the command line asks for: of its process or its
\* name, and with a number that the last -e names, for every command line, every table
\* and every number of tasks and CPUs.
THEOREM ShowsWhatIsAsked == TSafety => []ShownAsked
<1>1. TracerInv => ShownAsked
  <2> SUFFICES ASSUME TracerInv, NEW e \in Shown PROVE Asked(info[e.args])
    BY DEF ShownAsked
  <2> DEFINE i == info[e.args]
  <2>1. e \in sent
    BY ShownSent DEF TracerInv
  <2>2. e.args \in recorded /\ e.args \in Calls
    BY <2>1 DEF TracerInv, IInv, TypeOK, EventFaithful
  <2>3. link["enter"] # "none" /\ opc = "attach"
    BY <2>2 DEF TracerInv, IInv, LinkInv, CommandOrder
  <2>4. config = AskedConfig /\ OrderInv
    BY <2>3 DEF TracerInv, CommandOrder, Unattached
  <2>5. config_map = AskedConfig /\ syscall_bitmap = wanted
    BY <2>3, <2>4 DEF OrderInv
  <2>6. Admitted(AskedConfig, syscall_bitmap, i.key[1], i.comm, i.id) /\ i.id \in Int
    BY <2>2, <2>5, SyscallsAssumption DEF TracerInv, IInv, HistInv, TypeOK, CallInfo
  <2>7. ASSUME syscall_allowed(syscall_bitmap, i.id) PROVE i.id \in O!Wanted
    <3>1. i.id \in -1 .. MAX_SYSCALLS
      BY <2>6, <2>7, BitmapAssumption DEF syscall_allowed
    <3>2. OP!Whitelist
      BY OPAssumptions, OP!WhitelistHolds DEF TracerInv
    <3> QED BY <2>3, <2>7, <3>1, <3>2, SameCommand DEF OP!Whitelist
  <2>8. (O!Given("p") = {}) # (O!Given("c") = {})
    BY <2>3 DEF TracerInv, CommandOrder, Targeted, Unattached
  <2> HIDE DEF i
  <2>9. Asked(i)
    BY <2>6, <2>7, <2>8 DEF Admitted, AskedConfig, Asked, FILTER_PID, FILTER_COMM
  <2> QED BY <2>9 DEF i
<1> QED BY <1>1, TracerAlways, PTL

-----------------------------------------------------------------------------
(***************************************************************************)
(* main implements Etrace.                                                 *)
(***************************************************************************)

\* What a step does to the rings it does to the rings of Etrace.
LEMMA SameRingSteps ==
  /\ PB!PBInit => E!PB!PBInit
  /\ \A c, e : PB!output(c, e) => E!PB!output(c, e)
  /\ \A c : PB!open_cpu_buf(c) => E!PB!open_cpu_buf(c)
  /\ \A c : PB!read_begin(c) => E!PB!read_begin(c)
  /\ PB!read_record => E!PB!read_record
  /\ PB!read_end => E!PB!read_end
  /\ PB!epoll_wait => E!PB!epoll_wait
  /\ PB!free => E!PB!free
<1> USE DEF PB!readerVars, E!PB!readerVars, PB!ringVars, E!PB!ringVars, PB!Slot, E!PB!Slot
<1>1. \A c, e : PB!output(c, e) => E!PB!output(c, e)
  BY DEF PB!output, E!PB!output, PB!Room, E!PB!Room, PB!Need, E!PB!Need, PB!Write,
         E!PB!Write, PB!Lost, E!PB!Lost, PB!Sample, E!PB!Sample
<1>2. \A c : PB!open_cpu_buf(c) => E!PB!open_cpu_buf(c)
  BY DEF PB!open_cpu_buf, E!PB!open_cpu_buf
<1>3. \A c : PB!read_begin(c) => E!PB!read_begin(c)
  BY DEF PB!read_begin, E!PB!read_begin
<1>4. PB!read_record => E!PB!read_record
  BY DEF PB!read_record, E!PB!read_record
<1>5. PB!read_end => E!PB!read_end
  BY DEF PB!read_end, E!PB!read_end
<1>6. PB!epoll_wait => E!PB!epoll_wait
  BY DEF PB!epoll_wait, E!PB!epoll_wait
<1>7. PB!free => E!PB!free
  BY DEF PB!free, E!PB!free
<1>8. PB!PBInit => E!PB!PBInit
  BY DEF PB!PBInit, E!PB!PBInit
<1> QED BY <1>1, <1>2, <1>3, <1>4, <1>5, <1>6, <1>7, <1>8

\* The steps of the tasks and of the programs.  The bitmap is looked at by trace_enter
\* only, and when that is attached the filter is complete.
LEMMA KernelStep ==
  ASSUME CommandOrder, NEW k \in Keys, kernel_step(k) \/ kernel_output(k),
         UNCHANGED <<EtracePc, EtraceErr, EtraceConfig, EtraceBitmap>>
  PROVE  E!kernel_step(k) \/ E!kernel_output(k)
<1> USE DEF configVars, taskVars, mapVars, histVars, E!configVars, E!taskVars, E!mapVars,
            E!histVars, E!mainVars, E!optionVars, E!perfVars
<1>1. \A n, o : Ends(n, o) <=> E!Ends(n, o)
  BY DEF Ends, E!Ends
<1>2. \A id, n : Begin(k, id, n) <=> E!Begin(k, id, n)
  BY DEF Begin, E!Begin
<1>3. Task(k) => E!Task(k)
  <2>1. \A m : /\ task_create(k, m) => E!task_create(k, m)
               /\ task_rename(k, m) => E!task_rename(k, m)
    BY KernelLeavesUser DEF task_create, E!task_create, task_rename, E!task_rename, Live, E!Live
  <2>2. \A m : task_exec(k, m) => E!task_exec(k, m)
    BY <1>1 DEF task_exec, E!task_exec, Live, E!Live
  <2>3. /\ task_killed(k) => E!task_killed(k)
        /\ task_exit(k) => E!task_exit(k)
        /\ sys_exit_untraced(k) => E!sys_exit_untraced(k)
    BY <1>1 DEF task_killed, E!task_killed, task_exit, E!task_exit, sys_exit_untraced,
       E!sys_exit_untraced, Returning, E!Returning
  <2>4. \A id, n : sys_enter_untraced(k, id, n) => E!sys_enter_untraced(k, id, n)
    BY <1>2 DEF sys_enter_untraced, E!sys_enter_untraced
  <2> QED BY <2>1, <2>2, <2>3, <2>4 DEF Task, E!Task
<1>4. trace_enter(k) => E!trace_enter(k)
  <2>1. link["enter"] = "attached" => \A id : Passes(k, id) <=> E!Passes(k, id)
    BY DEF CommandOrder, EtraceBitmap, Passes, E!Passes, Admitted, E!Admitted,
       syscall_allowed, E!syscall_allowed, FILTER_PID, E!FILTER_PID, FILTER_COMM, E!FILTER_COMM
  <2>2. \A id, n : trace_enter_return(k, id, n) => E!trace_enter_return(k, id, n)
    BY <1>2, <2>1 DEF trace_enter_return, E!trace_enter_return
  <2>3. \A id, n, c : trace_enter_fill(k, id, n, c) => E!trace_enter_fill(k, id, n, c)
    <3>1. \A c : Free(c) <=> E!Free(c)
      BY DEF Free, E!Free
    <3>2. \A n, c : StackRead(c, n) = E!StackRead(c, n)
      BY DEF StackRead, E!StackRead
    <3>3. SUFFICES ASSUME NEW id, NEW n, NEW c, trace_enter_fill(k, id, n, c)
                   PROVE  E!trace_enter_fill(k, id, n, c)
      OBVIOUS
    <3>4. \E s \in E!StackRead(c, n) :
            in_map' = [in_map EXCEPT ![c] =
              [pid |-> k[1], tid |-> k[2], syscall_id |-> id, args |-> n,
               stack_size |-> s[1], user_stack |-> s[2]]]
      BY <3>2, <3>3 DEF trace_enter_fill
    <3>5. E!Begin(k, id, n) /\ link["enter"] = "attached" /\ E!Passes(k, id) /\ E!Free(c)
      BY <1>2, <2>1, <3>1, <3>3 DEF trace_enter_fill
    <3> QED BY <3>3, <3>4, <3>5 DEF trace_enter_fill, E!trace_enter_fill
  <2>4. trace_enter_update(k) => E!trace_enter_update(k)
    <3>1. E!Cardinality(Used) = Cardinality(Used)
      BY DEF E!Cardinality, Cardinality
    <3>2. E!Used = Used
      BY DEF Used, E!Used
    <3> QED BY <3>1, <3>2 DEF trace_enter_update, E!trace_enter_update
  <2> QED BY <2>2, <2>3, <2>4 DEF trace_enter, E!trace_enter
<1>5. /\ trace_exit_return(k) => E!trace_exit_return(k)
      /\ \A c : trace_exit_fill(k, c) => E!trace_exit_fill(k, c)
      /\ trace_exit_delete(k) => E!trace_exit_delete(k)
      /\ trace_exit_output(k) => E!trace_exit_output(k)
  <2>1. trace_exit_return(k) => E!trace_exit_return(k)
    BY <1>1 DEF trace_exit_return, E!trace_exit_return, Returning, E!Returning
  <2>2. \A c : trace_exit_fill(k, c) => E!trace_exit_fill(k, c)
    BY DEF trace_exit_fill, E!trace_exit_fill, Returning, E!Returning, Free, E!Free
  <2>3. trace_exit_delete(k) => E!trace_exit_delete(k)
    BY <1>1 DEF trace_exit_delete, E!trace_exit_delete
  <2>4. trace_exit_output(k) => E!trace_exit_output(k)
    BY DEF trace_exit_output, E!trace_exit_output
  <2> QED BY <2>1, <2>2, <2>3, <2>4
<1>6. CASE kernel_step(k)
  BY <1>3, <1>4, <1>5, <1>6 DEF kernel_step, E!kernel_step
<1>7. CASE kernel_output(k)
  BY <1>5, <1>7, SameRingSteps DEF kernel_output, E!kernel_output
<1> QED BY <1>6, <1>7

\* The steps of main that Etrace has.
LEMMA MainStep ==
  ASSUME TypeOK, CommandOrder, main_rest \/ main_fails \/ main_signal
  PROVE  E!Main \/ E!sig_handler
<1> USE DEF vars, configVars, taskVars, mapVars, histVars, E!vars, E!configVars, E!taskVars,
            E!mapVars, E!histVars, E!mainVars, E!optionVars, E!perfVars
<1>1. mpc \in MainPc
  BY DEF main_rest, main_fails, main_signal, InEtrace, CommandOrder
<1>2. mpc' \in MainPc
  BY <1>1, MainMoves DEF MainPc, Before, After, Ending
<1>3. EtracePc = mpc /\ EtraceErr = err /\ EtraceConfig = config
  BY <1>1 DEF MainPc, EtracePc, EtraceErr, EtraceConfig
<1>4. EtracePc' = mpc' /\ EtraceErr' = err' /\ EtraceConfig' = config'
  BY <1>2 DEF MainPc, EtracePc, EtraceErr, EtraceConfig
<1>5. EtraceBitmap' = EtraceBitmap
  BY RestLeavesBitmap DEF EtraceBitmap, main_rest, main_fails, main_signal
<1>6. Proceed => E!Proceed
  BY <1>3, <1>4 DEF Proceed, E!Proceed, Setup, E!Setup
<1>7. \A x : Cleanup(x) => E!Cleanup(x)
  BY <1>4 DEF Cleanup, E!Cleanup
<1> USE <1>3, <1>4, <1>5, <1>6
<1>8. CASE main_rest
  <2>1. mpc # "bitmap" /\ Progress
    BY <1>8 DEF main_rest, InEtrace
  <2>2. setup_plain => E!setup_plain
    BY DEF setup_plain, E!setup_plain
  <2>3. setup_config => E!setup_config
    BY DEF setup_config, E!setup_config, write_config, E!write_config
  <2>4. ~setup_bitmap
    BY <2>1 DEF setup_bitmap
  <2>5. \A l : setup_attach(l) => E!setup_attach(l)
    BY DEF setup_attach, E!setup_attach, attach, E!attach
  <2>6. setup_perf => E!setup_perf
    BY SameRingSteps DEF setup_perf, E!setup_perf
  <2>7. check_exiting => E!check_exiting
    BY DEF check_exiting, E!check_exiting
  <2>8. poll_ready => E!poll_ready
    <3>1. E!Cardinality(wake) = Cardinality(wake)
      BY DEF E!Cardinality, Cardinality
    <3> QED BY <3>1, SameRingSteps DEF poll_ready, E!poll_ready
  <2>9. poll_timeout => E!poll_timeout
    BY DEF poll_timeout, E!poll_timeout
  <2>10. poll_drain => E!poll_drain
    BY SameRingSteps DEF poll_drain, E!poll_drain
  <2>11. poll_return => E!poll_return
    BY DEF poll_return, E!poll_return
  <2>12. perf_buffer_free => E!perf_buffer_free
    BY SameRingSteps DEF perf_buffer_free, E!perf_buffer_free
  <2>13. bpf_link_destroy => E!bpf_link_destroy
    <3>1. \A l : destroy_link(l) => E!destroy_link(l)
      BY DEF destroy_link, E!destroy_link, destroy, E!destroy
    <3> QED BY <3>1 DEF bpf_link_destroy, E!bpf_link_destroy
  <2>14. bpf_object_close => E!bpf_object_close
    BY DEF bpf_object_close, E!bpf_object_close
  <2> QED
    BY <2>1, <2>2, <2>3, <2>4, <2>5, <2>6, <2>7, <2>8, <2>9, <2>10, <2>11, <2>12, <2>13, <2>14
    DEF Progress, E!Progress, E!Main
<1>9. CASE main_fails
  <2>1. setup_fails => E!setup_fails
    BY <1>7, SameRingSteps DEF setup_fails, E!setup_fails, Setup, E!Setup
  <2>2. poll_fails => E!poll_fails
    BY <1>7 DEF poll_fails, E!poll_fails
  <2> QED BY <1>9, <2>1, <2>2 DEF main_fails, E!Main
<1>10. CASE main_signal
  BY <1>10 DEF main_signal, sig_handler, E!sig_handler
<1> QED BY <1>8, <1>9, <1>10

\* The configuration that Etrace expects is the one that main arrives at.
LEMMA ConfigExpected == CommandOrder => EtraceConfig = ExpectedConfig
  BY DEF CommandOrder, EtraceConfig, ExpectedConfig

\* A step that refuses the command line is a failure of the first call.
LEMMA RefusedStep ==
  ASSUME EtracePc \in {"open", "bitmap"}, EtracePc' = "free", EtraceErr' = -1,
         UNCHANGED <<restVars, EtraceBitmap, EtraceConfig, wanted, exiting, perfVars>>
  PROVE  E!setup_fails
<1>1. \E i \in 1 .. Len(E!Setup) - 1 : EtracePc = E!Setup[i]
  BY DEF E!Setup
<1>2. E!Cleanup(-1) /\ UNCHANGED <<E!vars, exiting, E!optionVars, E!perfVars>>
  BY DEF E!Cleanup, restVars, taskVars, mapVars, histVars, E!vars, E!configVars, E!taskVars,
     E!mapVars, E!histVars, E!optionVars, E!perfVars
<1>3. EtracePc # "perf"
  OBVIOUS
<1> QED BY <1>1, <1>2, <1>3 DEF E!setup_fails

\* The steps of the options.
LEMMA OptionStep ==
  ASSUME IInv, CommandOrder, CommandOrder', [TNext]_tvars,
         main_options \/ main_rlimit \/ main_filter \/ main_filter_fails
  PROVE  [E!ENext]_E!evars
<1> USE DEF restVars, taskVars, mapVars, histVars, E!vars, E!configVars, E!taskVars,
            E!mapVars, E!histVars, E!mainVars, E!optionVars, E!perfVars
<1>1. EtraceConfig' = EtraceConfig
  <2>1. (EtraceConfig = ExpectedConfig)'
    BY ConfigExpected, PTL
  <2>2. Targeted' = Targeted /\ AskedConfig' = AskedConfig
    BY CommandKept DEF Targeted, AskedConfig
  <2> QED BY <2>1, <2>2, ConfigExpected DEF ExpectedConfig
<1>2. CASE main_options
  <2>1. /\ mpc = "getopt" /\ opc = "getopt" /\ mpc' \in {"getopt", "rlimit", "refused"}
        /\ opc' # "attach" /\ UNCHANGED <<restVars, err, exiting, wanted, perfVars>>
    BY <1>2 DEF main_options, CommandOrder
  <2>2. EtracePc = "open" /\ EtraceErr = err /\ EtraceBitmap' = EtraceBitmap
    BY <2>1 DEF EtracePc, EtraceErr, EtraceBitmap
  <2>3. CASE mpc' = "refused"
    <3>1. EtracePc' = "free" /\ EtraceErr' = -1
      BY <2>3 DEF EtracePc, EtraceErr
    <3> QED BY <1>1, <2>1, <2>2, <3>1, RefusedStep DEF E!ENext, E!Main
  <2>4. CASE mpc' # "refused"
    <3>1. EtracePc' = "open" /\ EtraceErr' = err
      BY <2>1, <2>4 DEF EtracePc, EtraceErr
    <3> QED BY <1>1, <2>1, <2>2, <3>1 DEF E!evars
  <2> QED BY <2>3, <2>4
<1>3. CASE main_rlimit
  <2>1. /\ mpc = "rlimit" /\ mpc' \in {"open", "refused"}
        /\ UNCHANGED <<vars, opc, err, exiting, wanted, perfVars>>
    BY <1>3 DEF main_rlimit
  <2>2. EtracePc = "open" /\ EtraceErr = err /\ EtraceBitmap' = EtraceBitmap
    BY <2>1 DEF EtracePc, EtraceErr, EtraceBitmap, vars, configVars
  <2>3. UNCHANGED restVars
    BY <2>1 DEF vars, configVars
  <2>4. CASE mpc' = "refused"
    <3>1. EtracePc' = "free" /\ EtraceErr' = -1
      BY <2>4 DEF EtracePc, EtraceErr
    <3> QED BY <1>1, <2>1, <2>2, <2>3, <3>1, RefusedStep DEF E!ENext, E!Main
  <2>5. CASE mpc' = "open"
    <3>1. EtracePc' = "open" /\ EtraceErr' = err
      BY <2>1, <2>5 DEF EtracePc, EtraceErr
    <3> QED BY <1>1, <2>1, <2>2, <2>3, <3>1 DEF E!evars
  <2> QED BY <2>1, <2>4, <2>5
<1>4. CASE main_filter \/ main_filter_fails
  <2>1. /\ mpc = "bitmap" /\ opc # "attach" /\ FilterDone
        /\ UNCHANGED <<restVars, exiting, wanted, perfVars>>
    BY <1>4 DEF main_filter, main_filter_fails, FilterDone, CommandOrder
  <2>2. EtracePc = "bitmap" /\ EtraceErr = err /\ EtraceBitmap = ZeroBitmap
    BY <2>1 DEF EtracePc, EtraceErr, EtraceBitmap
  <2>3. mpc' \in {"enter", "free", "bitmap"} => EtracePc' = mpc' /\ EtraceErr' = err'
    BY DEF EtracePc, EtraceErr
  <2>4. CASE opc' = "attach" /\ mpc' = "enter" /\ err' = 0
    <3>1. EtraceBitmap' = wanted
      <4>1. syscall_bitmap' = wanted'
        BY <2>4 DEF CommandOrder, OrderInv
      <4> QED BY <2>1, <2>4, <4>1 DEF EtraceBitmap
    <3>2. E!write_bitmap(wanted)
      BY <2>1, <3>1 DEF E!write_bitmap
    <3>3. E!Proceed
      BY <2>2, <2>3, <2>4 DEF E!Proceed, E!Setup
    <3>4. E!setup_bitmap
      BY <1>1, <2>1, <2>2, <3>2, <3>3 DEF E!setup_bitmap
    <3> QED BY <3>4 DEF E!ENext, E!Main, E!Progress
  <2>5. CASE opc' = "return" /\ Cleanup(-1)
    <3>1. EtracePc' = "free" /\ EtraceErr' = -1 /\ EtraceBitmap' = EtraceBitmap
      BY <2>2, <2>3, <2>5 DEF Cleanup, EtraceBitmap
    <3> QED BY <1>1, <2>1, <2>2, <3>1, RefusedStep DEF E!ENext, E!Main
  <2>6. CASE opc' \notin {"attach", "return"} /\ UNCHANGED <<mpc, err>>
    <3>1. EtracePc' = "bitmap" /\ EtraceErr' = err /\ EtraceBitmap' = EtraceBitmap
      BY <2>1, <2>2, <2>3, <2>6 DEF EtraceBitmap
    <3> QED BY <1>1, <2>1, <2>2, <3>1 DEF E!evars
  <2> QED BY <2>1, <2>4, <2>5, <2>6 DEF FilterDone
<1> QED BY <1>2, <1>3, <1>4

\* main with its command line implements Etrace, for which the configuration and the
\* filter are given and written in one step each: whatever options come in whatever
\* order, both are complete, and those of the command line, before the first program is
\* attached, and a command line that is refused attaches nothing.
THEOREM TracerRefinement == TSafety => ImplementsEtrace
<1>1. TInit => E!EInit
  <2> SUFFICES ASSUME TInit PROVE E!EInit
    OBVIOUS
  <2>1. CommandOrder /\ mpc = "getopt" /\ opc = "getopt"
    BY InitCommandOrder DEF TInit, O!OInit
  <2>2. EtracePc = "open" /\ EtraceErr = 0 /\ EtraceBitmap = ZeroBitmap
    BY <2>1 DEF TInit, EtracePc, EtraceErr, EtraceBitmap
  <2>3. EtraceConfig \in Configs
    <3>1. CASE Targeted
      BY <2>1, <3>1, ConfigExpected, AskedConfigIs DEF CommandOrder, ExpectedConfig
    <3>2. CASE ~Targeted
      <4>1. 0 \in 0 .. MaxPid /\ None \in TargetComms
        BY CommandLineAssumption DEF TargetComms
      <4>2. [filter_type |-> FILTER_PID, target_pid |-> 0, target_comm |-> None,
             syscall_filter_enabled |-> FALSE, print_stack_enabled |-> FALSE] \in CommandConfigs
        BY <4>1 DEF CommandConfigs
      <4>3. Configs # {}
        BY <4>2, DescribedAssumption
      <4> QED BY <2>1, <3>2, <4>3, ConfigExpected DEF ExpectedConfig
    <3> QED BY <3>1, <3>2
  <2>4. wanted \in Filters
    <3>1. BitmapOf(O!Wanted) \in Bitmaps
      BY DEF BitmapOf, Bitmaps
    <3> QED BY <3>1, DescribedAssumption DEF TInit
  <2>5. E!Init
    BY <2>2 DEF TInit, Init, E!Init, ZeroConfig, E!ZeroConfig, ZeroBitmap, E!ZeroBitmap, Words,
       E!Words, ZeroIn, E!ZeroIn, ZeroEvent, E!ZeroEvent, FILTER_NONE, E!FILTER_NONE
  <2> QED BY <2>2, <2>3, <2>4, <2>5, SameRingSteps DEF TInit, E!EInit
<1>2. TracerInv /\ TracerInv' /\ [TNext]_tvars => [E!ENext]_E!evars
  <2> SUFFICES ASSUME TracerInv, TracerInv', [TNext]_tvars PROVE [E!ENext]_E!evars
    OBVIOUS
  <2>1. TypeOK /\ IInv /\ CommandOrder /\ CommandOrder'
    BY DEF TracerInv, IInv
  <2>2. CASE main_options \/ main_rlimit \/ main_filter \/ main_filter_fails
    BY <2>1, <2>2, OptionStep
  <2>3. CASE main_rest \/ main_fails \/ main_signal
    BY <2>1, <2>3, MainStep DEF E!ENext
  <2>4. ASSUME UNCHANGED optVars, UNCHANGED <<mpc, err, config, syscall_bitmap>>
        PROVE  UNCHANGED <<EtracePc, EtraceErr, EtraceConfig, EtraceBitmap>>
    <3>1. Targeted' = Targeted /\ AskedConfig' = AskedConfig
      BY CommandKept DEF Targeted, AskedConfig
    <3> QED BY <2>4, <3>1 DEF EtracePc, EtraceErr, EtraceConfig, ExpectedConfig, EtraceBitmap
  <2>5. ASSUME NEW k \in Keys, kernel_step(k) \/ kernel_output(k), UNCHANGED optVars
        PROVE  E!ENext
    <3>1. UNCHANGED <<mpc, err, config, syscall_bitmap>>
      <4>1. Task(k) \/ trace_enter(k) \/ trace_exit(k)
        BY <2>5 DEF kernel_step, kernel_output, trace_exit
      <4>2. syscall_bitmap' = syscall_bitmap
        BY <4>1, KernelLeavesUser
      <4> QED BY <2>5, <4>2 DEF kernel_step, kernel_output
    <3> QED BY <2>1, <2>4, <2>5, <3>1, KernelStep DEF E!ENext
  <2>6. CASE UNCHANGED tvars
    <3>1. UNCHANGED <<mpc, err, config, syscall_bitmap, exiting, wanted, restVars, perfVars>>
          /\ UNCHANGED optVars
      BY <2>6 DEF tvars, evars, vars, configVars, restVars
    <3> QED BY <2>4, <3>1 DEF restVars, taskVars, mapVars, histVars, E!evars, E!vars,
        E!configVars, E!taskVars, E!mapVars, E!histVars, E!mainVars, E!optionVars, E!perfVars
  <2> QED BY <2>2, <2>3, <2>5, <2>6 DEF TNext, TProgress
<1> QED BY <1>1, <1>2, TracerAlways, PTL DEF TSafety, ImplementsEtrace, E!ESafety
=============================================================================
