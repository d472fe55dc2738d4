------------------------------- MODULE Tracer -------------------------------
(***************************************************************************)
(* main of src/src/mini_etrace.c from its first line to its return: the    *)
(* command line (Options) decides what is written into the maps, and the   *)
(* rest is the tracer of Etrace.  syscall_bitmap is the map the options    *)
(* fill bit by bit and trace_enter reads.                                  *)
(***************************************************************************)
EXTENDS Etrace

CONSTANTS
  Argvs, Comma, Blank, COMM_LEN, MaxPid,          \* see Options
  syscall_tables_64, syscall_tables_32, NoText

VARIABLES opc, argv, optind, operands, filter_type, target_pid, target_comm,
          syscall_filter_enabled, print_stack_enabled, enable_32, have_pid, have_comm,
          syscall_filter_arg, token, saveptr, count, word, enabled, broken, status

O == INSTANCE Options

optVars == <<opc, argv, optind, operands, filter_type, target_pid, target_comm,
             syscall_filter_enabled, print_stack_enabled, enable_32, have_pid, have_comm,
             syscall_filter_arg, token, saveptr, count, word, enabled, broken, status>>
tvars   == <<evars, optVars>>

\* What Options assumes of the command lines and of the tables.
ASSUME CommandLineAssumption ==
  /\ NoText \notin Seq(STRING)
  /\ COMM_LEN \in Nat \ {0}
  /\ MaxPid \in Nat
  /\ \A a \in Argvs : a \in Seq(O!Option)
  /\ Comma # Blank
ASSUME NumbersAssumption ==
  \A table \in {syscall_tables_64, syscall_tables_32} :
    /\ DOMAIN table \subseteq 0 .. MAX_SYSCALLS - 1
    /\ \A m, n \in DOMAIN table : table[m] = table[n] => m = n \/ table[m] = NoText

\* Configs and Filters have all that the command lines may describe.
TargetComms ==
  {None} \cup UNION {{O!Comm(a[i].text) : i \in {j \in 1 .. Len(a) : a[j].opt = "c"}} :
                     a \in Argvs}
CommandConfigs ==
  [filter_type : {FILTER_PID, FILTER_COMM}, target_pid : 0 .. MaxPid,
   target_comm : TargetComms, syscall_filter_enabled : BOOLEAN,
   print_stack_enabled : BOOLEAN]
ASSUME DescribedAssumption == CommandConfigs \subseteq Configs /\ Bitmaps \subseteq Filters

\* Everything of Probes but the map the options fill.
restVars == <<config_map, link, taskVars, mapVars, histVars>>

-----------------------------------------------------------------------------
\* The struct config that the getopt loop has filled.  Without -c its array is zeroed
\* and not looked at.
TheConfig ==
  [filter_type |-> filter_type, target_pid |-> target_pid,
   target_comm |-> IF have_comm THEN target_comm ELSE None,
   syscall_filter_enabled |-> syscall_filter_enabled,
   print_stack_enabled |-> print_stack_enabled]

\* The getopt loop and the checks: main returns, or goes on with config filled.
main_options ==
  /\ mpc = "getopt"
  /\ O!Getopt
  /\ mpc' = CASE opc' = "filter" -> "rlimit" [] opc' = "return" -> "refused" [] OTHER -> mpc
  /\ config' = IF opc' = "filter" THEN TheConfig ELSE config
  /\ UNCHANGED <<restVars, err, exiting, wanted, perfVars>>

\* bump_memlock_rlimit.
main_rlimit ==
  /\ mpc = "rlimit"
  /\ mpc' \in {"open", "refused"}
  /\ UNCHANGED <<vars, err, exiting, optionVars, perfVars, optVars>>

\* What becomes of main after a step of the filter.
FilterDone ==
  /\ \/ opc' = "attach" /\ mpc' = "enter" /\ err' = 0
     \/ opc' = "return" /\ Cleanup(-1)
     \/ opc' \notin {"attach", "return"} /\ UNCHANGED <<mpc, err>>
  /\ UNCHANGED <<restVars, exiting, optionVars, perfVars>>

\* parse_syscall_filter or set_all_syscall, step by step.
main_filter == mpc = "bitmap" /\ O!Filter /\ FilterDone

\* A call that one of the two makes fails.
main_filter_fails == mpc = "bitmap" /\ O!system_fails /\ FilterDone

\* The steps of main that Etrace has.
InEtrace == mpc \notin {"getopt", "rlimit", "bitmap", "refused"}

main_rest  == InEtrace /\ Progress /\ UNCHANGED optVars
main_fails == InEtrace /\ (setup_fails \/ poll_fails) /\ UNCHANGED optVars

\* A signal is caught from "open" on.
main_signal ==
  /\ mpc \notin {"getopt", "rlimit", "refused"}
  /\ sig_handler
  /\ UNCHANGED optVars

\* The map that lets exactly the calls of S through.
BitmapOf(S) == [w \in Words |-> {b \in Bits : w * SYSCALL_WORD_BITS + b \in S}]

TInit ==
  /\ Init
  /\ O!OInit
  /\ mpc = "getopt" /\ err = 0 /\ exiting = FALSE
  /\ config = ZeroConfig
  /\ wanted = BitmapOf(O!Wanted)
  /\ PB!PBInit

\* main gets on.
TProgress == main_options \/ main_rlimit \/ main_filter \/ main_rest

TNext ==
  \/ TProgress \/ main_filter_fails \/ main_fails \/ main_signal
  \/ (\E k \in Keys : kernel_step(k) \/ kernel_output(k)) /\ UNCHANGED optVars

TSafety == TInit /\ [][TNext]_tvars

\* main is one thread that is scheduled, and epoll_wait has a timeout.  Nothing is
\* assumed of the tasks, and no call has to fail.
TSpec == TSafety /\ WF_tvars(TProgress)

-----------------------------------------------------------------------------
(***************************************************************************)
(* Properties.                                                             *)
(***************************************************************************)

\* A call that the command line asks for: of the process with the pid of the last
\* -p, or a task with the name of the last -c, with the number of a call that the
\* last -e names, or with any number if there is no -e.
Asked(i) ==
  /\ O!Given("p") # {} => i.key[1] = O!LastGiven("p").num
  /\ O!Given("c") # {} => i.comm = O!Comm(O!LastGiven("c").text)
  /\ O!Given("e") # {} => i.id \in O!Wanted

\* From the command line to the screen: every event shown is a call that the command
\* line asks for, although its options are read, the maps filled and the programs
\* attached one step after the other while the tasks run (main, trace_enter,
\* trace_exit, handle_event).
ShownAsked == \A e \in Shown : Asked(info[e.args])

\* What the options of a command line with one target say.
Targeted ==
  /\ O!Given("h") \cup O!Given("?") \cup O!Given("operand") = {}
  /\ \A i \in O!Given("p") : O!ValidPid(argv[i])
  /\ (O!Given("p") = {}) # (O!Given("c") = {})
AskedConfig ==
  [filter_type |-> IF O!Given("p") # {} THEN FILTER_PID ELSE FILTER_COMM,
   target_pid |-> IF O!Given("p") # {} THEN O!LastGiven("p").num ELSE 0,
   target_comm |-> IF O!Given("c") # {} THEN O!Comm(O!LastGiven("c").text) ELSE None,
   syscall_filter_enabled |-> O!Given("e") # {},
   print_stack_enabled |-> O!Given("s") # {}]

\* Etrace knows from the beginning what the command line will say, writes the bitmap
\* in one step, and takes a refused command line for a failure of its first call.
EtracePc ==
  CASE mpc \in {"getopt", "rlimit"} -> "open"
    [] mpc = "refused" -> "free"
    [] OTHER -> mpc
EtraceErr == IF mpc = "refused" THEN -1 ELSE err
ExpectedConfig == IF Targeted THEN AskedConfig ELSE CHOOSE c \in Configs : TRUE
EtraceConfig == IF mpc \in {"getopt", "refused"} THEN ExpectedConfig ELSE config
EtraceBitmap == IF opc = "attach" THEN syscall_bitmap ELSE ZeroBitmap

E == INSTANCE Etrace WITH mpc <- EtracePc, err <- EtraceErr, config <- EtraceConfig,
                          syscall_bitmap <- EtraceBitmap

\* The whole of main implements Etrace: whatever options come in whatever order, the
\* configuration and the filter are complete, and those of the command line, before
\* the first program is attached, and a command line main refuses attaches nothing.
ImplementsEtrace == E!ESafety

\* main gets through any command line, the empty fields of -e included, and through
\* its setup: it ends up waiting for events, or it returns (getopt loop, strtok_r
\* loop, set_all_syscall, perf_buffer__new).
Started == <>(mpc \in {"poll", "done", "refused"})

-----------------------------------------------------------------------------
(***************************************************************************)
(* The inductive invariant of main with its command line (TracerProofs).   *)
(***************************************************************************)

\* Where the options are when main is about to make a call; what main has written is
\* what they say; and whatever gets attached got through the filter.
CommandOrder ==
  /\ mpc \in {"getopt", "rlimit", "refused"} \cup MainPc
  /\ mpc = "getopt" <=> opc = "getopt"
  /\ mpc \in {"rlimit", "open", "load", "config"} => opc = "filter"
  /\ mpc = "bitmap" => opc \in {"filter", "parse", "set_all"}
  /\ mpc \in {"enter", "exit", "events", "perf", "loop", "poll", "drain"}
       \/ link["enter"] # "none" => opc = "attach"
  /\ argv \in Argvs /\ wanted = BitmapOf(O!Wanted)
  /\ mpc \in {"getopt", "rlimit", "refused"} => Unattached
  /\ mpc \notin {"getopt", "refused"} => Targeted /\ config = AskedConfig /\ OrderInv
=============================================================================
