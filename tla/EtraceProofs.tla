---------------------------- MODULE EtraceProofs ----------------------------
(***************************************************************************)
(* The tracer as a whole implements Probes, whatever fails and whenever it *)
(* is stopped, and leaves nothing attached.                                *)
(***************************************************************************)
EXTENDS Etrace, ProbesProofs, FiniteSetTheorems

\* The lemmas about the rings, for the rings of the tracer.
PBP == INSTANCE PerfBufferProofs WITH Events <- SyscallEvent, MaxOutput <- Cardinality(Calls)

USE DEF optionVars, mainVars, perfVars, Opened

-----------------------------------------------------------------------------
\* OrderInv holds at first: nothing is attached.
LEMMA InitOrder == EInit => OrderInv
  BY DEF EInit, Init, OrderInv, Unattached

\* Proceed goes to the next call of Setup.
LEMMA ProceedNext ==
  ASSUME Proceed
  PROVE  /\ mpc = "open" => mpc' = "load"
         /\ mpc = "load" => mpc' = "config"
         /\ mpc = "config" => mpc' = "bitmap"
         /\ mpc = "bitmap" => mpc' = "enter"
         /\ mpc = "enter" => mpc' = "exit"
         /\ mpc = "exit" => mpc' = "events"
         /\ mpc = "events" => mpc' = "perf"
         /\ mpc = "perf" => mpc' = "loop"
  BY DEF Proceed, Setup

\* A step of the tasks or of the programs leaves the maps that main writes, and
\* the links, alone.
LEMMA KernelLeavesUser ==
  ASSUME NEW k \in Keys, Task(k) \/ trace_enter(k) \/ trace_exit(k)
  PROVE  UNCHANGED <<config_map, syscall_bitmap, link>>
<1> USE DEF configVars
<1>1. CASE Task(k)
  BY <1>1 DEF Task, task_create, task_rename, task_exec, task_killed, task_exit,
              sys_enter_untraced, sys_exit_untraced
<1>2. CASE trace_enter(k)
  BY <1>2 DEF trace_enter, trace_enter_return, trace_enter_fill, trace_enter_update
<1>3. CASE trace_exit(k)
  BY <1>3 DEF trace_exit, trace_exit_return, trace_exit_fill, trace_exit_output,
              trace_exit_delete
<1> QED
  BY <1>1, <1>2, <1>3

\* Every step of the tracer is a step of Probes or leaves its variables alone,
\* and keeps OrderInv.
LEMMA StepImplements ==
  ASSUME TypeOK, OrderInv, [ENext]_evars
  PROVE  [Next]_vars /\ OrderInv'
<1> USE DEF Unattached
<1>1. ASSUME NEW k \in Keys, kernel_step(k) \/ kernel_output(k)
      PROVE  [Next]_vars /\ OrderInv'
  <2>1. Task(k) \/ trace_enter(k) \/ trace_exit(k)
    BY <1>1 DEF kernel_step, kernel_output, trace_exit
  <2>2. UNCHANGED <<mainVars>>
    BY <1>1 DEF kernel_step, kernel_output
  <2>3. opened' = opened
    BY <1>1 DEF kernel_step, kernel_output, PB!output
  <2> QED
    BY <2>1, <2>2, <2>3, KernelLeavesUser DEF Next, OrderInv
<1>2. CASE setup_plain
  BY <1>2, ProceedNext DEF setup_plain, OrderInv, vars, configVars
<1>3. CASE setup_config
  <2>1. User
    BY <1>3 DEF setup_config, OrderInv, User
  <2>2. OrderInv'
    BY <1>3, ProceedNext DEF setup_config, OrderInv, write_config
  <2> QED
    BY <2>1, <2>2 DEF Next
<1>4. CASE setup_bitmap
  <2>1. User
    BY <1>4 DEF setup_bitmap, OrderInv, User
  <2>2. OrderInv'
    BY <1>4, ProceedNext DEF setup_bitmap, OrderInv, write_bitmap
  <2> QED
    BY <2>1, <2>2 DEF Next
<1>5. CASE setup_attach("enter")
  <2>1. User
    BY <1>5 DEF setup_attach, OrderInv, User, Configured
  <2>2. OrderInv'
    BY <1>5, ProceedNext DEF setup_attach, OrderInv, attach, configVars, TypeOK
  <2> QED
    BY <2>1, <2>2 DEF Next
<1>6. CASE setup_attach("exit")
  <2>1. User
    BY <1>6 DEF setup_attach, OrderInv, User
  <2>2. OrderInv'
    BY <1>6, ProceedNext DEF setup_attach, OrderInv, attach, configVars, TypeOK
  <2> QED
    BY <2>1, <2>2 DEF Next
<1>7. CASE setup_perf \/ setup_fails
  BY <1>7, ProceedNext DEF setup_perf, setup_fails, Cleanup, OrderInv, vars, configVars
<1>8. CASE \/ check_exiting \/ poll_ready \/ poll_timeout \/ poll_fails
           \/ poll_return \/ bpf_object_close \/ sig_handler
  BY <1>8 DEF check_exiting, poll_ready, poll_timeout, poll_fails, poll_return, Cleanup,
              bpf_object_close, sig_handler, OrderInv, vars, configVars, PB!epoll_wait
<1>9. CASE poll_drain \/ perf_buffer_free
  BY <1>9 DEF poll_drain, perf_buffer_free, OrderInv, vars, configVars,
              PB!read_begin, PB!read_record, PB!read_end, PB!free
<1>10. CASE bpf_link_destroy
  <2>1. CASE /\ mpc = "unlink_exit" /\ destroy_link("exit") /\ mpc' = "unlink_enter"
    BY <1>10, <2>1 DEF bpf_link_destroy, destroy_link, destroy, OrderInv, TypeOK,
                       vars, configVars, Next, User
  <2>2. CASE /\ mpc = "unlink_enter" /\ destroy_link("enter") /\ mpc' = "close"
    BY <1>10, <2>2 DEF bpf_link_destroy, destroy_link, destroy, OrderInv, TypeOK,
                       vars, configVars, Next, User
  <2> QED
    BY <1>10, <2>1, <2>2 DEF bpf_link_destroy
<1>11. CASE UNCHANGED evars
  BY <1>11 DEF evars, vars, configVars, OrderInv
<1> QED
  BY <1>1, <1>2, <1>3, <1>4, <1>5, <1>6, <1>7, <1>8, <1>9, <1>10, <1>11
  DEF ENext, Main, Progress

\* The initial states and the steps together.
LEMMA OrderAlways == ESafety => []OrderInv /\ [][Next]_vars /\ []IInv
<1>1. EInit => OrderInv /\ IInv
  BY InitOrder, InitIInv DEF EInit
<1>2. OrderInv /\ IInv /\ [ENext]_evars => (OrderInv /\ IInv)' /\ [Next]_vars
  BY StepImplements, NextIInv DEF IInv
<1> QED
  BY <1>1, <1>2, PTL DEF ESafety

\* The tracer implements Probes: on every path through main, the paths of
\* failing calls and of a signal included, the maps are written before
\* trace_enter is attached, and trace_exit is attached after and detached before
\* it.  So the theorems of ProbesProofs are theorems about the tracer.
THEOREM Refinement == ESafety => ImplementsProbes
<1>1. EInit => Init
  BY DEF EInit
<1> QED
  BY <1>1, OrderAlways, PTL DEF ESafety, ImplementsProbes, Spec

\* No way out of main leaves a program attached or a ring open.
THEOREM CleanExit == ESafety => []NothingLeft
<1>1. OrderInv => NothingLeft
  BY DEF OrderInv, NothingLeft
<1> QED
  BY <1>1, OrderAlways, PTL

\* A step of the tasks, of the programs or of main preserves StatusInv.
LEMMA StepStatus ==
  ASSUME TypeOK, StatusInv, [ENext]_evars
  PROVE  StatusInv'
<1>1. ASSUME NEW k \in Keys, kernel_step(k) \/ kernel_output(k)
      PROVE  StatusInv'
  <2>1. Task(k) \/ trace_enter(k) \/ trace_exit(k)
    BY <1>1 DEF kernel_step, kernel_output, trace_exit
  <2>2. UNCHANGED <<mainVars, link>>
    BY <1>1, <2>1, KernelLeavesUser DEF kernel_step, kernel_output
  <2> QED
    BY <2>2 DEF StatusInv
<1>2. CASE setup_plain \/ setup_config \/ setup_bitmap
  <2>1. /\ Proceed /\ mpc \in {"open", "load", "events", "config", "bitmap"}
        /\ link' = link
    BY <1>2 DEF setup_plain, setup_config, setup_bitmap, write_config, write_bitmap, vars
  <2> QED
    BY <2>1, ProceedNext DEF StatusInv
<1>3. CASE setup_attach("enter") \/ setup_attach("exit")
  BY <1>3, ProceedNext DEF setup_attach, attach, StatusInv, TypeOK
<1>4. CASE setup_perf
  BY <1>4, ProceedNext DEF setup_perf, vars, StatusInv
<1>5. CASE setup_fails \/ poll_fails
  <2>1. mpc' = "free" /\ err' = -1
    BY <1>5 DEF setup_fails, poll_fails, Cleanup
  <2> QED
    BY <2>1 DEF StatusInv
<1>6. CASE check_exiting \/ poll_ready \/ poll_timeout \/ poll_drain \/ poll_return
  <2>1. CASE check_exiting
    BY <2>1 DEF check_exiting, vars, StatusInv
  <2>2. CASE poll_ready \/ poll_timeout \/ poll_drain \/ poll_return
    <3>1. /\ mpc \in {"poll", "drain"} /\ mpc' \in {"loop", "poll", "drain"}
          /\ link' = link
      BY <2>2 DEF poll_ready, poll_timeout, poll_drain, poll_return, vars
    <3> QED
      BY <3>1 DEF StatusInv
  <2> QED
    BY <1>6, <2>1, <2>2
<1>7. CASE sig_handler
  BY <1>7 DEF sig_handler, vars, StatusInv
<1>8. CASE perf_buffer_free \/ bpf_object_close
  BY <1>8 DEF perf_buffer_free, bpf_object_close, vars, StatusInv
<1>9. CASE bpf_link_destroy
  BY <1>9 DEF bpf_link_destroy, destroy_link, destroy, vars, StatusInv, TypeOK
<1>10. CASE UNCHANGED evars
  BY <1>10 DEF evars, vars, StatusInv
<1> QED
  BY <1>1, <1>2, <1>3, <1>4, <1>5, <1>6, <1>7, <1>8, <1>9, <1>10
  DEF ENext, Main, Progress

\* The status 0 means that everything was set up and that a signal ended the loop.
THEOREM ZeroMeansDone == ESafety => []SuccessIsComplete
<1>1. EInit => StatusInv
  BY DEF EInit, StatusInv
<1>2. StatusInv => SuccessIsComplete
  BY DEF StatusInv, SuccessIsComplete
<1>3. IInv /\ StatusInv /\ [ENext]_evars => StatusInv'
  BY StepStatus DEF IInv
<1> QED
  BY <1>1, <1>2, <1>3, OrderAlways, PTL DEF ESafety

-----------------------------------------------------------------------------
(***************************************************************************)
(* The rings.  DeliveryInv is what PerfBufferProofs shows of the rings,    *)
(* carried through the steps of main and of the programs.                  *)
(***************************************************************************)

DeliveryInv == PBP!PBInv /\ RingsInv

\* PerfBufferProofs speaks of the operators of its own instance of PerfBuffer.
LEMMA SameRings ==
  /\ PBP!PBInit <=> PB!PBInit
  /\ PBP!LossAccounted <=> PB!LossAccounted
  /\ PBP!NoLostWakeup <=> PB!NoLostWakeup
<1>1. PBP!PBInit <=> PB!PBInit
  BY DEF PBP!PBInit, PB!PBInit
<1>2. PBP!NoLostWakeup <=> PB!NoLostWakeup
  BY DEF PBP!NoLostWakeup, PB!NoLostWakeup
<1>3. \A x : PBP!Weights(x) = PB!Weights(x)
  BY DEF PBP!Weights, PB!Weights
<1>4. \A c \in Cpus : PBP!Stream(c) = PB!Stream(c)
  BY DEF PBP!Stream, PB!Stream, PBP!Unread, PB!Unread, PBP!Position, PB!Position,
         PBP!Slot, PB!Slot
<1>5. PBP!LossAccounted <=> PB!LossAccounted
  BY <1>3, <1>4 DEF PBP!LossAccounted, PB!LossAccounted, PBP!Accounted, PB!Accounted,
     PBP!Sample, PB!Sample
<1> QED BY <1>1, <1>2, <1>5

\* The same for the steps.
LEMMA SameSteps ==
  /\ \A c \in Cpus, e \in SyscallEvent : PB!output(c, e) => PBP!output(c, e)
  /\ \A c \in Cpus : PB!open_cpu_buf(c) => PBP!open_cpu_buf(c)
  /\ \A c \in Cpus : PB!read_begin(c) => PBP!read_begin(c)
  /\ PB!read_record => PBP!read_record
  /\ PB!read_end => PBP!read_end
  /\ PB!epoll_wait => PBP!epoll_wait
  /\ PB!free => PBP!free
<1> USE DEF PB!readerVars, PBP!readerVars, PB!ringVars, PBP!ringVars, PB!Slot, PBP!Slot
<1>1. \A c \in Cpus, e \in SyscallEvent : PB!output(c, e) => PBP!output(c, e)
  BY DEF PB!output, PBP!output, PB!Room, PBP!Room, PB!Need, PBP!Need, PB!Write,
         PBP!Write, PB!Lost, PBP!Lost, PB!Sample, PBP!Sample
<1>2. \A c \in Cpus : PB!open_cpu_buf(c) => PBP!open_cpu_buf(c)
  BY DEF PB!open_cpu_buf, PBP!open_cpu_buf
<1>3. \A c \in Cpus : PB!read_begin(c) => PBP!read_begin(c)
  BY DEF PB!read_begin, PBP!read_begin
<1>4. PB!read_record => PBP!read_record
  BY DEF PB!read_record, PBP!read_record
<1>5. PB!read_end => PBP!read_end
  BY DEF PB!read_end, PBP!read_end
<1>6. PB!epoll_wait => PBP!epoll_wait
  BY DEF PB!epoll_wait, PBP!epoll_wait
<1>7. PB!free => PBP!free
  BY DEF PB!free, PBP!free
<1> QED BY <1>1, <1>2, <1>3, <1>4, <1>5, <1>6, <1>7

\* The assumptions of PerfBuffer, for the tracer.
LEMMA PBAssumptions ==
  Slots \in Nat \ {0, 1} /\ None \notin SyscallEvent \cup Cpus
BY RingSlotsAssumption, NoneEventAssumption, NoneAssumption

\* No ring holds anything at first.
LEMMA InitDelivery == EInit => DeliveryInv
<1>1. EInit => PBP!PBInv
  BY PBAssumptions, SameRings, PBP!InitInv DEF EInit
<1>2. EInit => RingsInv
  BY DEF EInit, PB!PBInit, RingsInv
<1> QED BY <1>1, <1>2 DEF DeliveryInv

\* bpf_perf_event_output is given what trace_exit has sent.
LEMMA OutputDelivery ==
  ASSUME IInv, DeliveryInv, NEW k \in Keys, kernel_output(k)
  PROVE  DeliveryInv'
<1> DEFINE c == cpu[k]
           e == event_map[c]
<1>1. c \in Cpus /\ e \in SyscallEvent /\ sent' = sent \cup {e}
  BY NoneAssumption DEF kernel_output, trace_exit_output, IInv, TypeOK, CpuInv
<1>2. PB!output(c, e) /\ mpc' = mpc
  BY DEF kernel_output
<1> HIDE DEF c, e
<1>3. PBP!PBInv'
  <2>1. PBP!output(c, e)
    BY <1>1, <1>2, SameSteps
  <2> QED
    BY <1>1, <2>1, PBAssumptions, PBP!OutputType, PBP!OutputWakes, PBP!OutputAccounted
    DEF DeliveryInv, PBP!PBInv
<1>4. produced \in [Cpus -> Seq(SyscallEvent)] /\ head \in [Cpus -> Nat]
  BY DEF DeliveryInv, PBP!PBInv, PBP!TypeInv, PBP!PBTypeOK
<1>5. /\ opened' = opened /\ \A d \in Cpus \ opened : head'[d] = head[d]
      /\ produced' = produced \/ produced' = [produced EXCEPT ![c] = Append(@, e)]
  BY <1>1, <1>2, <1>4 DEF PB!output
<1>6. ASSUME NEW d \in Cpus, NEW i \in 1 .. Len(produced'[d])
      PROVE  produced'[d][i] \in sent'
  <2>1. produced[d] \in Seq(SyscallEvent) /\ Len(produced[d]) \in Nat
    BY <1>4
  <2>2. CASE produced'[d] = produced[d]
    BY <1>1, <2>2 DEF DeliveryInv, RingsInv
  <2>3. CASE produced'[d] = Append(produced[d], e)
    <3>1. CASE i \in 1 .. Len(produced[d])
      <4>1. produced'[d][i] = produced[d][i]
        BY <2>1, <2>3, <3>1
      <4> QED BY <1>1, <3>1, <4>1 DEF DeliveryInv, RingsInv
    <3>2. CASE i = Len(produced[d]) + 1
      BY <1>1, <2>1, <2>3, <3>2
    <3>3. Len(produced'[d]) = Len(produced[d]) + 1
      BY <1>1, <2>1, <2>3
    <3> QED BY <2>1, <3>1, <3>2, <3>3
  <2> QED BY <1>4, <1>5, <2>2, <2>3
<1>7. RingsInv'
  BY <1>2, <1>5, <1>6 DEF DeliveryInv, RingsInv
<1> QED BY <1>3, <1>7 DEF DeliveryInv

\* A step that leaves the rings alone, and forgets nothing that was sent.
LEMMA StutterDelivery ==
  ASSUME DeliveryInv, UNCHANGED perfVars, sent' = sent,
         mpc \in Opened => mpc' \in Opened
  PROVE  DeliveryInv'
<1>1. PBP!PBInv'
  <2>1. UNCHANGED PBP!pbVars
    BY DEF PBP!pbVars, PBP!ringVars, PBP!readerVars
  <2> QED BY <2>1, PBAssumptions, PBP!NextInv DEF DeliveryInv
<1>2. RingsInv'
  BY DEF DeliveryInv, RingsInv
<1> QED BY <1>1, <1>2 DEF DeliveryInv

\* A step of main on the rings.
LEMMA RingStep ==
  ASSUME DeliveryInv, sent' = sent,
         \/ \E c \in Cpus : mpc = "perf" /\ mpc' = mpc /\ PB!open_cpu_buf(c)
         \/ PB!free /\ mpc' \in {"free", "unlink_exit"}
         \/ PB!epoll_wait /\ mpc' = "drain"
         \/ /\ (\E c \in Cpus : PB!read_begin(c)) \/ PB!read_record \/ PB!read_end
            /\ mpc = "drain" /\ mpc' = mpc
  PROVE  DeliveryInv'
<1>1. produced' = produced /\ head' = head
  BY DEF PB!open_cpu_buf, PB!free, PB!epoll_wait, PB!read_begin, PB!read_record,
         PB!read_end, PB!ringVars
<1>2. CASE \E c \in Cpus : mpc = "perf" /\ mpc' = mpc /\ PB!open_cpu_buf(c)
  <2>1. PICK c \in Cpus : mpc = "perf" /\ mpc' = mpc /\ PB!open_cpu_buf(c)
    BY <1>2
  <2>2. head[c] = 0 /\ PBP!open_cpu_buf(c) /\ opened' = opened \cup {c}
    BY <2>1, SameSteps DEF PB!open_cpu_buf, DeliveryInv, RingsInv
  <2>3. PBP!PBInv'
    BY <2>2, PBAssumptions, PBP!PollType, PBP!PollWakes, PBP!PollAccounted
    DEF DeliveryInv, PBP!PBInv
  <2>4. RingsInv'
    BY <1>1, <2>1, <2>2 DEF DeliveryInv, RingsInv
  <2> QED BY <2>3, <2>4 DEF DeliveryInv
<1>3. CASE \/ PB!free /\ mpc' \in {"free", "unlink_exit"}
           \/ PB!epoll_wait /\ mpc' = "drain"
  <2>1. PBP!free \/ PBP!epoll_wait
    BY <1>3, SameSteps
  <2>2. PBP!PBInv'
    BY <2>1, PBAssumptions, PBP!PollType, PBP!PollWakes, PBP!PollAccounted
    DEF DeliveryInv, PBP!PBInv
  <2>3. RingsInv'
    BY <1>1, <1>3 DEF DeliveryInv, RingsInv
  <2> QED BY <2>2, <2>3 DEF DeliveryInv
<1>4. CASE /\ (\E c \in Cpus : PB!read_begin(c)) \/ PB!read_record \/ PB!read_end
           /\ mpc = "drain" /\ mpc' = mpc
  <2>1. (\E c \in Cpus : PBP!read_begin(c)) \/ PBP!read_record \/ PBP!read_end
    BY <1>4, SameSteps
  <2>2. PBP!PBInv'
    BY <2>1, PBAssumptions, PBP!ReadType, PBP!ReadWakes, PBP!ReadAccounted
    DEF DeliveryInv, PBP!PBInv
  <2>3. RingsInv'
    BY <1>1, <1>4 DEF DeliveryInv, RingsInv
  <2> QED BY <2>2, <2>3 DEF DeliveryInv
<1> QED BY <1>2, <1>3, <1>4

\* DeliveryInv is preserved by every step of the tracer.
LEMMA StepDelivery ==
  ASSUME IInv, DeliveryInv, [ENext]_evars
  PROVE  DeliveryInv'
<1>1. ASSUME NEW k \in Keys, kernel_step(k)
      PROVE  DeliveryInv'
  <2>1. sent' = sent
    BY <1>1 DEF kernel_step, Task, task_create, task_rename, task_exec, task_killed,
      task_exit, sys_enter_untraced, sys_exit_untraced, trace_enter, trace_enter_return,
      trace_enter_fill, trace_enter_update, trace_exit_return, trace_exit_fill,
      trace_exit_delete, histVars
  <2> QED
    BY <1>1, <2>1, StutterDelivery DEF kernel_step
<1>2. CASE setup_config \/ setup_bitmap \/ setup_attach("enter") \/ setup_attach("exit")
  <2>1. sent' = sent /\ UNCHANGED perfVars /\ mpc \in {"config", "bitmap", "enter", "exit"}
    BY <1>2 DEF setup_config, setup_bitmap, setup_attach, write_config, write_bitmap,
       attach, histVars
  <2> QED BY <2>1, StutterDelivery
<1>3. CASE setup_plain
  BY <1>3, StutterDelivery DEF setup_plain, vars, histVars
<1>4. CASE setup_perf
  <2>1. sent' = sent /\ mpc = "perf"
    BY <1>4 DEF setup_perf, vars, histVars
  <2>2. CASE \E c \in RingCpus : PB!open_cpu_buf(c) /\ UNCHANGED <<mpc, err>>
    BY <2>1, <2>2, RingStep, RingCpusAssumption
  <2>3. CASE UNCHANGED perfVars
    BY <2>1, <2>3, StutterDelivery
  <2> QED BY <1>4, <2>2, <2>3 DEF setup_perf
<1>5. CASE setup_fails
  <2>1. sent' = sent /\ mpc' = "free" /\ (PB!free \/ UNCHANGED perfVars)
    BY <1>5 DEF setup_fails, Cleanup, vars, histVars
  <2> QED BY <2>1, RingStep, StutterDelivery
<1>6. CASE \/ check_exiting \/ poll_timeout \/ poll_fails \/ poll_return
           \/ bpf_object_close \/ sig_handler \/ UNCHANGED evars
  <2>1. /\ sent' = sent /\ UNCHANGED perfVars
        /\ mpc' = mpc \/ mpc' \in {"free", "poll", "loop", "done"}
    BY <1>6 DEF check_exiting, poll_timeout, poll_fails, poll_return, Cleanup,
       bpf_object_close, sig_handler, evars, vars, histVars
  <2> QED BY <2>1, StutterDelivery
<1>7. CASE poll_ready \/ perf_buffer_free
  BY <1>7, RingStep DEF poll_ready, perf_buffer_free, vars, histVars
<1>8. CASE poll_drain
  <2>1. /\ sent' = sent /\ mpc = "drain" /\ mpc' = mpc
        /\ (\E c \in Cpus : PB!read_begin(c)) \/ PB!read_record \/ PB!read_end
    BY <1>8 DEF poll_drain, vars, histVars
  <2> QED BY <2>1, RingStep
<1>9. CASE bpf_link_destroy
  <2>1. /\ sent' = sent /\ UNCHANGED perfVars /\ mpc' \in {"unlink_enter", "close"}
    BY <1>9 DEF bpf_link_destroy, destroy_link, destroy, vars, histVars
  <2> QED BY <2>1, StutterDelivery
<1> QED
  BY <1>1, <1>2, <1>3, <1>4, <1>5, <1>6, <1>7, <1>8, <1>9, OutputDelivery
  DEF ENext, Main, Progress

\* The initial states and the steps together.
LEMMA DeliveryAlways == ESafety => []DeliveryInv
<1>1. IInv /\ DeliveryInv /\ [ENext]_evars => DeliveryInv'
  BY StepDelivery
<1> QED
  BY <1>1, InitDelivery, OrderAlways, PTL DEF ESafety

\* The rings of the tracer lose nothing without counting it and strand nothing,
\* whenever main opens, drains and frees them and whatever the tasks do meanwhile.
THEOREM Delivery == ESafety => [](PB!LossAccounted /\ PB!NoLostWakeup)
<1>1. DeliveryInv => PB!LossAccounted /\ PB!NoLostWakeup
  BY SameRings DEF DeliveryInv, PBP!PBInv
<1> QED
  BY <1>1, DeliveryAlways, PTL

\* An event that a callback got had been sent by trace_exit.
LEMMA ShownSent ==
  ASSUME DeliveryInv, NEW e \in Shown
  PROVE  e \in sent
<1>a. PICK c \in Cpus : \E i \in DOMAIN handled[c] : e = handled[c][i].event /\ e # None
  BY DEF Shown
<1>1. PICK i \in DOMAIN handled[c] : e = handled[c][i].event /\ e # None
  BY <1>a
<1> DEFINE s == PBP!Stream(c)
           w == PBP!Weights(s)
           p == produced[c]
<1>2. PBP!StreamOf(c) /\ PBP!Accounted(c)
  BY PBAssumptions, PBP!StreamIs DEF DeliveryInv, PBP!PBInv, PBP!Streams, PBP!LossAccounted
<1>3. /\ s \in Seq(PBP!Record) /\ i \in 1 .. Len(s) /\ s[i] = handled[c][i]
      /\ p \in Seq(SyscallEvent) /\ lost[c] \in Nat
  <2>1. /\ handled[c] \in Seq(PBP!Record) /\ p \in Seq(SyscallEvent) /\ lost[c] \in Nat
    BY DEF DeliveryInv, PBP!PBInv, PBP!TypeInv, PBP!PBTypeOK
  <2>2. i \in 1 .. Len(handled[c]) /\ Len(handled[c]) \in Nat
    BY <2>1
  <2>3. i \in 1 .. Len(s) /\ i <= Len(handled[c])
    BY <1>2, <2>2 DEF PBP!StreamOf
  <2>4. s \in Seq(PBP!Record) /\ s[i] = handled[c][i]
    BY <1>2, <2>3 DEF PBP!StreamOf
  <2> QED BY <2>1, <2>3, <2>4
<1>4. s[i] = PBP!Sample(p[w[i]]) /\ w[Len(s)] + lost[c] = Len(p)
  BY <1>1, <1>2, <1>3 DEF PBP!Accounted
<1> HIDE DEF s, p
<1>5. w[i] \in 1 .. Len(p)
  BY <1>3, <1>4, PBAssumptions, PBP!SampleWeight
<1> HIDE DEF w
<1>6. e = p[w[i]]
  BY <1>1, <1>3, <1>4 DEF PBP!Sample
<1> QED BY <1>5, <1>6 DEF DeliveryInv, RingsInv, p

\* End to end: every call that is shown passed the filter of the command line.
\* What a callback gets was sent (DeliveryInv), what was sent passed the filter
\* in the maps (FilterHolds), and once anything was recorded the maps hold the
\* options (OrderInv).
THEOREM ShowsWhatIsWanted == ESafety => []ShownWanted
<1>1. IInv /\ OrderInv /\ DeliveryInv => ShownWanted
  <2> SUFFICES ASSUME IInv, OrderInv, DeliveryInv, NEW e \in Shown
      PROVE  Admitted(config, wanted, info[e.args].key[1], info[e.args].comm,
                      info[e.args].id)
    BY DEF ShownWanted
  <2>1. e \in sent
    BY ShownSent
  <2>2. e.args \in recorded /\ e.args \in Calls
    BY <2>1 DEF IInv, TypeOK, EventFaithful
  <2>3. config_map = config /\ syscall_bitmap = wanted
    BY <2>2 DEF IInv, LinkInv, OrderInv
  <2> QED
    BY <2>2, <2>3 DEF IInv, HistInv
<1> QED
  BY <1>1, DeliveryAlways, OrderAlways, PTL

-----------------------------------------------------------------------------
\* The rings that epoll_wait reports are at most as many as there are CPUs.
LEMMA WakeCount ==
  ASSUME DeliveryInv
  PROVE  Cardinality(wake) \in 0 .. Cardinality(Cpus) /\ Cardinality(Cpus) \in Nat
<1>1. wake \in SUBSET Cpus
  BY DEF DeliveryInv, PBP!PBInv, PBP!TypeInv, PBP!PBTypeOK
<1>2. IsFiniteSet(wake) /\ Cardinality(wake) <= Cardinality(Cpus)
  BY <1>1, CpusAssumption, FS_Subset
<1>3. Cardinality(wake) \in Nat /\ Cardinality(Cpus) \in Nat
  BY <1>2, CpusAssumption, FS_CardinalityType
<1> QED BY <1>2, <1>3

\* main goes through its calls and no others, and err is -1 or a number of rings.
THEOREM EtraceTypes == ESafety => []ETypeOK
<1>1. EInit => ETypeOK
  <2>1. Cardinality(Cpus) \in Nat
    BY CpusAssumption, FS_CardinalityType
  <2>2. 0 \in -1 .. Cardinality(Cpus)
    BY <2>1
  <2> QED BY <2>2 DEF EInit, ETypeOK, MainPc
<1>2. DeliveryInv /\ ETypeOK /\ [ENext]_evars => ETypeOK'
  <2> SUFFICES ASSUME DeliveryInv, ETypeOK, [ENext]_evars PROVE ETypeOK'
    OBVIOUS
  <2>1. Cardinality(wake) \in 0 .. Cardinality(Cpus) /\ Cardinality(Cpus) \in Nat
    BY WakeCount
  <2>2. UNCHANGED <<config, wanted>>
    BY DEF ENext, Main, Progress, evars, kernel_step, kernel_output, setup_plain, setup_config,
       setup_bitmap, setup_attach, setup_perf, setup_fails, check_exiting, poll_ready,
       poll_timeout, poll_fails, poll_drain, poll_return, sig_handler,
       perf_buffer_free, bpf_link_destroy, bpf_object_close
  <2>3. ASSUME Proceed PROVE mpc' \in MainPc /\ err' = 0
    BY <2>3 DEF Proceed, Setup, MainPc
  <2>4. mpc' \in MainPc /\ err' \in -1 .. Cardinality(Cpus) /\ exiting' \in BOOLEAN
    <3> USE DEF ETypeOK
    <3>1. CASE setup_plain \/ setup_config \/ setup_bitmap
               \/ setup_attach("enter") \/ setup_attach("exit")
      <4>1. Proceed /\ exiting' = exiting
        BY <3>1 DEF setup_plain, setup_config, setup_bitmap, setup_attach
      <4> QED BY <2>1, <2>3, <4>1
    <3>2. CASE setup_perf \/ setup_fails \/ poll_fails
      BY <2>1, <2>3, <3>2 DEF setup_perf, setup_fails, poll_fails, Cleanup, MainPc
    <3>3. CASE check_exiting \/ poll_timeout \/ poll_return
      BY <2>1, <3>3 DEF check_exiting, poll_timeout, poll_return, MainPc
    <3>6. CASE poll_ready
      BY <2>1, <3>6 DEF poll_ready, MainPc
    <3>7. CASE sig_handler
      <4>1. (mpc' = mpc /\ err' = err) \/ (mpc' = "loop" /\ err' = 0)
        BY <3>7 DEF sig_handler
      <4>2. exiting' = TRUE
        BY <3>7 DEF sig_handler
      <4> QED BY <2>1, <4>1, <4>2 DEF MainPc
    <3>4. CASE poll_drain \/ perf_buffer_free \/ bpf_link_destroy \/ bpf_object_close
      BY <3>4 DEF poll_drain, perf_buffer_free, bpf_link_destroy, bpf_object_close, MainPc
    <3>5. CASE UNCHANGED evars \/ \E k \in Keys : kernel_step(k) \/ kernel_output(k)
      BY <3>5 DEF evars, kernel_step, kernel_output
    <3> QED
      BY <3>1, <3>2, <3>3, <3>4, <3>5, <3>6, <3>7 DEF ENext, Main, Progress
  <2> QED BY <2>2, <2>4 DEF ETypeOK
<1> QED
  BY <1>1, <1>2, DeliveryAlways, PTL DEF ESafety
=============================================================================
