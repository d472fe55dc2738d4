------------------------------- MODULE Etrace -------------------------------
(***************************************************************************)
(* The whole tracer: main of src/src/mini_etrace.c from                    *)
(* bpf_object__open_file to its return, the programs it attaches (Probes)  *)
(* and the perf buffer between them (PerfBuffer).                          *)
(*                                                                         *)
(* Every library call may fail.  A signal may come at any time.  The       *)
(* command line has been accepted: config is the struct trace_config it    *)
(* describes, wanted the bits that go into syscall_bitmap.                 *)
(***************************************************************************)
EXTENDS Probes, Sequences

CONSTANTS
  RingCpus,  \* the CPUs perf_buffer__new opens a ring for: online, below 16
  Slots      \* records per ring

ASSUME RingCpusAssumption == RingCpus \subseteq Cpus
ASSUME RingSlotsAssumption == Slots \in Nat \ {0, 1}
ASSUME CpusAssumption == IsFiniteSet(Cpus)
ASSUME NoneEventAssumption == None \notin SyscallEvent

VARIABLES
  mpc,       \* the call main is about to make
  err, exiting,
  config,    \* the global variable of mini_etrace.c
  wanted,
  opened, ring, head, tail, lost, wake, ready, reading, rd, stop, handled, produced

PB == INSTANCE PerfBuffer WITH Events <- SyscallEvent, MaxOutput <- Cardinality(Calls)

perfVars   == <<opened, ring, head, tail, lost, wake, ready, reading, rd, stop,
                handled, produced>>
optionVars == <<config, wanted>>
mainVars   == <<mpc, err, exiting, optionVars>>
evars      == <<vars, mainVars, perfVars>>

-----------------------------------------------------------------------------
(***************************************************************************)
(* main, up to the loop.                                                   *)
(***************************************************************************)

\* Mutant: the configuration is written after trace_enter has been attached.
SetupLate == <<"open", "load", "bitmap", "enter", "config", "exit", "events", "perf", "loop">>

\* The calls in the order main makes them.  "events" stands for the lookup of
\* the map and the creation of the symbolizer and the parser.
Setup == <<"open", "load", "config", "bitmap", "enter", "exit", "events", "perf", "loop">>

\* The call made when the one that main is at has succeeded.
Proceed == \E i \in 1 .. Len(Setup) - 1 :
             /\ mpc = Setup[i]
             /\ mpc' = Setup[i + 1]
             /\ err' = 0

\* Mutant: err = -errno is missing, err keeps the result of the call before.
CleanupKeepsErr(e) == UNCHANGED err /\ mpc' = "free"

\* goto cleanup; a negative err stands for all of them.
Cleanup(e) == err' = e /\ mpc' = "free"

setup_plain ==
  /\ mpc \in {"open", "load", "events"}
  /\ Proceed
  /\ UNCHANGED <<vars, exiting, optionVars, perfVars>>

setup_config ==
  /\ mpc = "config"
  /\ write_config(config)
  /\ Proceed
  /\ UNCHANGED <<exiting, optionVars, perfVars>>

\* parse_syscall_filter or set_all_syscall.
setup_bitmap ==
  /\ mpc = "bitmap"
  /\ write_bitmap(wanted)
  /\ Proceed
  /\ UNCHANGED <<exiting, optionVars, perfVars>>

setup_attach(l) ==
  /\ mpc = l
  /\ attach(l)
  /\ Proceed
  /\ UNCHANGED <<exiting, optionVars, perfVars>>

\* perf_buffer__new opens one ring after the other.
setup_perf ==
  /\ mpc = "perf"
  /\ \/ /\ \E c \in RingCpus : PB!open_cpu_buf(c)
        /\ UNCHANGED <<mpc, err>>
     \/ /\ opened = RingCpus
        /\ Proceed
        /\ UNCHANGED perfVars
  /\ UNCHANGED <<vars, exiting, optionVars>>

\* A call fails: libbpf and blazesym undo what they have done, main goes to
\* cleanup.  (What parse_syscall_filter had written when it failed is of no
\* consequence, because nothing gets attached.)
setup_fails ==
  /\ \E i \in 1 .. Len(Setup) - 1 : mpc = Setup[i]
  /\ Cleanup(-1)
  /\ IF mpc = "perf" THEN PB!free ELSE UNCHANGED perfVars
  /\ UNCHANGED <<vars, exiting, optionVars>>

-----------------------------------------------------------------------------
(***************************************************************************)
(* The loop.                                                               *)
(***************************************************************************)

check_exiting ==
  /\ mpc = "loop"
  /\ mpc' = IF exiting THEN "free" ELSE "poll"
  /\ UNCHANGED <<vars, err, exiting, optionVars, perfVars>>

\* epoll_wait reports rings; perf_buffer__poll will return their number.
poll_ready ==
  /\ mpc = "poll"
  /\ PB!epoll_wait
  /\ err' = Cardinality(wake)
  /\ mpc' = "drain"
  /\ UNCHANGED <<vars, exiting, optionVars>>

\* Mutant: no timeout, perf_buffer__poll(pb, -1).
poll_timeout_never == FALSE

poll_timeout ==
  /\ mpc = "poll"
  /\ wake = {}
  /\ err' = 0
  /\ mpc' = "loop"
  /\ UNCHANGED <<vars, exiting, optionVars, perfVars>>

poll_fails ==
  /\ mpc = "poll"
  /\ Cleanup(-1)
  /\ UNCHANGED <<vars, exiting, optionVars, perfVars>>

\* The records of the rings reported go to handle_event and handle_lost.
poll_drain ==
  /\ mpc = "drain"
  /\ (\E c \in Cpus : PB!read_begin(c)) \/ PB!read_record \/ PB!read_end
  /\ UNCHANGED <<vars, mainVars>>

poll_return ==
  /\ mpc = "drain"
  /\ ready = {} /\ reading = None
  /\ mpc' = "loop"
  /\ UNCHANGED <<vars, err, exiting, optionVars, perfVars>>

\* A signal.  If main sleeps in epoll_wait, that returns EINTR and err is set
\* to 0; a signal that comes before the sleep does not end it.
sig_handler ==
  /\ mpc # "done"
  /\ ~exiting
  /\ exiting' = TRUE
  /\ \/ UNCHANGED <<mpc, err>>
     \/ mpc = "poll" /\ mpc' = "loop" /\ err' = 0
  /\ UNCHANGED <<vars, optionVars, perfVars>>

-----------------------------------------------------------------------------
(***************************************************************************)
(* cleanup.  The calls do nothing for a pointer that is NULL.              *)
(***************************************************************************)

perf_buffer_free ==
  /\ mpc = "free"
  /\ PB!free
  /\ mpc' = "unlink_exit"
  /\ UNCHANGED <<vars, err, exiting, optionVars>>

\* Mutant: the links are destroyed only if both were made.
destroy_link_both(l) ==
  IF link["enter"] = "attached" /\ link["exit"] = "attached" THEN destroy(l)
  ELSE UNCHANGED vars

destroy_link(l) == IF link[l] = "attached" THEN destroy(l) ELSE UNCHANGED vars

bpf_link_destroy ==
  /\ \/ mpc = "unlink_exit" /\ destroy_link("exit") /\ mpc' = "unlink_enter"
     \/ mpc = "unlink_enter" /\ destroy_link("enter") /\ mpc' = "close"
  /\ UNCHANGED <<err, exiting, optionVars, perfVars>>

\* bpf_object__close, and return err != 0.
bpf_object_close ==
  /\ mpc = "close"
  /\ mpc' = "done"
  /\ UNCHANGED <<vars, err, exiting, optionVars, perfVars>>

\* main gets on; and what main does, failing calls included.
Progress ==
  \/ setup_plain \/ setup_config \/ setup_bitmap
  \/ setup_attach("enter") \/ setup_attach("exit") \/ setup_perf
  \/ check_exiting
  \/ poll_ready \/ poll_timeout \/ poll_drain \/ poll_return
  \/ perf_buffer_free \/ bpf_link_destroy \/ bpf_object_close

Main == Progress \/ setup_fails \/ poll_fails

-----------------------------------------------------------------------------
\* A step of task k or of the program it runs, other than the output.
kernel_step(k) ==
  /\ \/ Task(k)
     \/ trace_enter(k)
     \/ trace_exit_return(k)
     \/ \E c \in Cpus : trace_exit_fill(k, c)
     \/ trace_exit_delete(k)
  /\ UNCHANGED <<mainVars, perfVars>>

kernel_output(k) ==
  /\ trace_exit_output(k)
  /\ PB!output(cpu[k], event_map[cpu[k]])
  /\ UNCHANGED mainVars

EInit ==
  /\ Init
  /\ mpc = "open" /\ err = 0 /\ exiting = FALSE
  /\ config \in Configs
  /\ wanted \in Filters
  /\ PB!PBInit

ENext ==
  \/ \E k \in Keys : kernel_step(k) \/ kernel_output(k)
  \/ Main
  \/ sig_handler

ESafety == EInit /\ [][ENext]_evars

\* main is scheduled: it takes its next step sooner or later, and epoll_wait
\* returns after 100 ms at the latest.  Nothing is assumed of the tasks, and no
\* call has to fail.
ESpec == ESafety /\ WF_evars(Progress)

-----------------------------------------------------------------------------
(***************************************************************************)
(* Properties.                                                             *)
(***************************************************************************)

MainPc == {"open", "load", "config", "bitmap", "enter", "exit", "events", "perf",
           "loop", "poll", "drain", "free", "unlink_exit", "unlink_enter",
           "close", "done"}

ETypeOK ==
  /\ mpc \in MainPc
  /\ err \in -1 .. Cardinality(Cpus)
  /\ exiting \in BOOLEAN
  /\ config \in Configs /\ wanted \in Filters

\* The events given to handle_event.
Shown ==
  (UNION {{handled[c][i].event : i \in DOMAIN handled[c]} : c \in Cpus}) \ {None}

\* Whatever is shown was asked for on the command line: the call passed the
\* filter the options describe, although main writes the maps, attaches the
\* programs and opens the rings one after the other while the tasks run.
ShownWanted ==
  \A e \in Shown :
    LET i == info[e.args] IN
    Admitted(config, wanted, i.key[1], i.comm, i.id)

\* On every way out, failures of any call included, nothing is left behind: the
\* programs are detached and the rings are closed.
NothingLeft ==
  mpc = "done" => opened = {} /\ \A l \in {"enter", "exit"} : link[l] # "attached"

\* The tracer is an implementation of Probes: main writes the maps, attaches and
\* detaches in the order that Probes takes for granted, on every path.
ImplementsProbes == Spec

\* The comment "SIGINT 导致 EINTR 不算程序错误" (mini_etrace.c:661) and the line
\* "Press Ctrl-C to stop." (647): being stopped by a signal is not an error, so
\* unless a call failed (err < 0) the exit status err != 0 would be 0.
StopIsNoError == mpc = "done" /\ err >= 0 => err = 0

\* Status 0 is only for a tracer that ran: both programs were attached until main
\* detached them, and a signal asked it to stop.  A call that fails anywhere between
\* bpf_object__open_file and the loop, or in it, is reported by the status, although
\* err is overwritten by every call that succeeds (mini_etrace.c:488-675).
SuccessIsComplete ==
  mpc = "done" /\ err = 0 => exiting /\ \A l \in {"enter", "exit"} : link[l] = "destroyed"

\* A signal ends the tracer.
StopsOnSignal == exiting ~> mpc = "done"

\* A record does not stay in a ring for ever while the tracer runs.
EventuallyRead ==
  \A c \in Cpus :
    (c \in opened /\ head[c] # tail[c]) ~> (c \notin opened \/ head[c] = tail[c])

-----------------------------------------------------------------------------
(***************************************************************************)
(* The inductive invariant of main (EtraceProofs).                         *)
(***************************************************************************)

\* What main has done to the programs when it is about to make a call.
OrderInv ==
  /\ config \in Configs /\ wanted \in Filters
  /\ mpc \in {"open", "load", "config", "bitmap", "enter"} => Unattached
  /\ mpc \in {"bitmap", "enter"} => config_map = config
  /\ mpc = "enter" => syscall_bitmap = wanted
  /\ mpc = "exit" => link["enter"] = "attached"
  /\ mpc \in {"unlink_enter", "close", "done"} => link["exit"] # "attached"
  /\ mpc \in {"close", "done"} => link["enter"] # "attached"
  /\ mpc \in {"unlink_exit", "unlink_enter", "close", "done"} => opened = {}
  /\ link["enter"] # "none" => config_map = config /\ syscall_bitmap = wanted

\* The loop is reached with both programs attached; with err = 0 main leaves it for
\* a signal only, and detaches first the one, then the other.
StatusInv ==
  /\ mpc \in {"exit", "events", "perf", "loop", "poll", "drain"} => link["enter"] = "attached"
  /\ mpc \in {"events", "perf", "loop", "poll", "drain"} => link["exit"] = "attached"
  /\ mpc \in {"free", "unlink_exit", "unlink_enter", "close", "done"} /\ err = 0 =>
       /\ exiting
       /\ link["exit"] = IF mpc \in {"free", "unlink_exit"} THEN "attached" ELSE "destroyed"
       /\ link["enter"] = IF mpc \in {"close", "done"} THEN "destroyed" ELSE "attached"

\* A ring is new when perf_buffer__new opens it (from Opened on that is over), and
\* what the kernel was given for a ring was sent by trace_exit.
Opened == {"loop", "poll", "drain", "free", "unlink_exit", "unlink_enter", "close", "done"}
RingsInv ==
  /\ mpc \notin Opened => \A c \in Cpus \ opened : head[c] = 0
  /\ \A c \in Cpus : \A i \in 1 .. Len(produced[c]) : produced[c][i] \in sent

=============================================================================
