------------------------------- MODULE Probes -------------------------------
(***************************************************************************)
(* The kernel half of etrace (src/src/mini_etrace.bpf.c): the two BPF      *)
(* programs trace_enter and trace_exit, attached to the tracepoints        *)
(* raw_syscalls:sys_enter and raw_syscalls:sys_exit, and the maps they     *)
(* share, running against tasks that make system calls.                    *)
(*                                                                         *)
(* A program runs on the CPU of the task that fired the tracepoint with    *)
(* preemption disabled: the task keeps its CPU (variable cpu) from the     *)
(* first to the last step of the program, while the programs of the other  *)
(* CPUs interleave with it.  Between programs a task may migrate.          *)
(*                                                                         *)
(* Data.  Every system call made is an identity n \in Calls.  What         *)
(* trace_enter reads of a call (its arguments, its time stamp, its stack)  *)
(* is abstracted to n; what trace_exit reads of the returning call (its    *)
(* return value, the current time) is abstracted to the identity of the    *)
(* call that returns.  So an event with args = m and ret = n prints the    *)
(* arguments of call m with the result of call n and the time between the  *)
(* entry of m and the return of n.                                         *)
(***************************************************************************)
EXTENDS SyscallBitmap, FiniteSets

CONSTANTS
  Keys,         \* the values of bpf_get_current_pid_tgid(): pairs <<tgid, tid>>
  Cpus,         \* the CPUs
  Comms,        \* the task names
  Syscalls,     \* the system call numbers that tasks use
  NoReturn,     \* those that never return: exit, exit_group
  Execve,       \* those that replace the program: execve, execveat
  Calls,        \* identities of the calls made; bounds the length of a run
  MaxInflight,  \* max_entries of the map inflight (0x1000 in the code)
  Configs,      \* the configurations that user space may write
  Filters,      \* the contents it may give syscall_bitmap
  None          \* "no CPU", "no call", "no map entry"

ASSUME KeysAssumption == Keys \subseteq Nat \X Nat /\ IsFiniteSet(Keys)
ASSUME SyscallsAssumption == Syscalls \subseteq Int
ASSUME NoneAssumption == None \notin Cpus /\ None \notin Calls
ASSUME BoundsAssumption == MaxInflight \in Nat

VARIABLES
  \* written by the user-space half before the programs are attached
  config_map,      \* the struct trace_config
  syscall_bitmap,  \* word index -> set of the bits that are 1
  link,            \* the two bpf_links: "none", "attached" or "destroyed"
  \* the tasks
  pc,              \* where a task is: see Pc below
  cpu,             \* the CPU a task holds while it runs a program
  call,            \* the system call a task is in
  comm,            \* its name
  \* the maps of the programs
  inflight,        \* BPF_MAP_TYPE_HASH keyed by pid_tgid
  in_map,          \* per-CPU scratch of trace_enter
  event_map,       \* per-CPU scratch of trace_exit
  \* history, read by the properties only
  sent,            \* the events given to bpf_perf_event_output
  info,            \* who made a call, under which name, and trace_enter's link then
  fate,            \* what became of a call
  recorded         \* the calls trace_enter stored in inflight

configVars == <<config_map, syscall_bitmap>>
taskVars   == <<pc, cpu, call, comm>>
mapVars    == <<inflight, in_map, event_map>>
histVars   == <<sent, info, fate, recorded>>
vars       == <<configVars, link, taskVars, mapVars, histVars>>

-----------------------------------------------------------------------------
FILTER_NONE == 0
FILTER_PID  == 1
FILTER_COMM == 2

TraceConfig == [filter_type : {FILTER_NONE, FILTER_PID, FILTER_COMM},
                target_pid : Nat,
                target_comm : Comms \cup {None},
                syscall_filter_enabled : BOOLEAN,
                print_stack_enabled : BOOLEAN]

\* stack_size is kept by its sign: bpf_get_stack returns a length or an error.
InflightSyscall == [pid : Nat, tid : Nat, syscall_id : Int,
                    args : Calls \cup {None},
                    stack_size : {-1, 0, 1},
                    user_stack : Calls \cup {None}]

SyscallEvent == [pid : Nat, tid : Nat, syscall_id : Int,
                 args : Calls \cup {None},
                 stack_size : {-1, 0, 1},
                 user_stack : Calls \cup {None},
                 ret : Calls \cup {None}]

CallInfo == [key : Keys, id : Syscalls, comm : Comms \cup {None},
             link : {"none", "attached", "destroyed"}]

ASSUME ConfigsAssumption == Configs \subseteq TraceConfig /\ Filters \subseteq Bitmaps
ASSUME EntryAssumption == None \notin InflightSyscall /\ None \notin CallInfo

\* "none": no such task.  "user", "kernel": outside the programs.
\* "update": trace_enter has filled in_map.  "output": trace_exit has filled
\* event_map.  "delete": trace_exit has output the event.
Pc   == {"none", "user", "update", "kernel", "output", "delete"}
Fate == {"unborn", "open", "returned", "unseen", "died", "moved"}

\* Maps are created zeroed.
ZeroConfig == [filter_type |-> FILTER_NONE, target_pid |-> 0,
               target_comm |-> None, syscall_filter_enabled |-> FALSE,
               print_stack_enabled |-> FALSE]
ZeroIn     == [pid |-> 0, tid |-> 0, syscall_id |-> 0, args |-> None,
               stack_size |-> 0, user_stack |-> None]
ZeroEvent  == [pid |-> 0, tid |-> 0, syscall_id |-> 0, args |-> None,
               stack_size |-> 0, user_stack |-> None, ret |-> None]

\* Mutant: the scratch entry is shared by the CPUs.
FreeShared(c) == TRUE

Live(k) == pc[k] # "none"
Free(c) == \A k \in Keys : cpu[k] # c
Used    == {k \in Keys : inflight[k] # None}

-----------------------------------------------------------------------------
(***************************************************************************)
(* The filter of trace_enter.                                              *)
(***************************************************************************)

\* What trace_enter demands of a call with number id made by process pid under
\* the name m.  A name is a value: comm_equal is equality of C strings.
Admitted(cfg, bitmap, pid, m, id) ==
  /\ cfg.filter_type = FILTER_PID => pid = cfg.target_pid
  /\ cfg.filter_type = FILTER_COMM => m = cfg.target_comm
  /\ cfg.syscall_filter_enabled => syscall_allowed(bitmap, id)

-----------------------------------------------------------------------------
(***************************************************************************)
(* The tasks: what the kernel does around the tracepoints.                 *)
(***************************************************************************)

\* clone or fork.  A leader <<p, p>> may take over a pid that nothing uses; any
\* other thread is created by a task of its process.
task_create(k, m) ==
  LET group == {j \in Keys : j[1] = k[1] /\ Live(j)} IN
  /\ ~Live(k)
  /\ (k[1] = k[2]) <=> (group = {})
  /\ pc' = [pc EXCEPT ![k] = "user"]
  /\ comm' = [comm EXCEPT ![k] = m]
  /\ UNCHANGED <<configVars, link, cpu, call, mapVars, histVars>>

\* A fatal signal takes a task on its way back to user mode.
task_killed(k) ==
  /\ pc[k] = "user"
  /\ pc' = [pc EXCEPT ![k] = "none"]
  /\ comm' = [comm EXCEPT ![k] = None]
  /\ UNCHANGED <<configVars, link, cpu, call, mapVars, histVars>>

\* execve and prctl change the name of the task that calls them.
task_rename(k, m) ==
  /\ pc[k] = "kernel"
  /\ comm' = [comm EXCEPT ![k] = m]
  /\ UNCHANGED <<configVars, link, pc, cpu, call, mapVars, histVars>>

\* The first outcome of a call is the one that stays.
Ends(n, outcome) ==
  fate' = [fate EXCEPT ![n] = IF @ = "open" THEN outcome ELSE @]

\* exit and exit_group: the task is gone and sys_exit never fires for the call.
task_exit(k) ==
  /\ pc[k] = "kernel"
  /\ info[call[k]].id \in NoReturn
  /\ pc' = [pc EXCEPT ![k] = "none"]
  /\ call' = [call EXCEPT ![k] = None]
  /\ comm' = [comm EXCEPT ![k] = None]
  /\ Ends(call[k], "died")
  /\ UNCHANGED <<configVars, link, cpu, mapVars, sent, info, recorded>>

\* A thread that is not the leader calls execve: the kernel ends the other
\* threads and gives the caller the identity of the leader, inside the call.
task_exec(k, m) ==
  LET l == <<k[1], k[1]>> IN
  /\ pc[k] = "kernel"
  /\ info[call[k]].id \in Execve
  /\ l \in Keys \ {k}
  /\ \A j \in Keys \ {k} : j[1] = k[1] => ~Live(j)
  /\ pc' = [pc EXCEPT ![k] = "none", ![l] = "kernel"]
  /\ call' = [call EXCEPT ![k] = None, ![l] = call[k]]
  /\ comm' = [comm EXCEPT ![k] = None, ![l] = m]
  /\ Ends(call[k], "moved")
  /\ UNCHANGED <<configVars, link, cpu, mapVars, sent, info, recorded>>

\* A task enters call n with number id.
Begin(k, id, n) ==
  /\ pc[k] = "user"
  /\ fate[n] = "unborn"
  /\ info' = [info EXCEPT ![n] = [key |-> k, id |-> id, comm |-> comm[k],
                                  link |-> link["enter"]]]
  /\ fate' = [fate EXCEPT ![n] = "open"]
  /\ call' = [call EXCEPT ![k] = n]

sys_enter_untraced(k, id, n) ==
  /\ Begin(k, id, n)
  /\ link["enter"] # "attached"
  /\ pc' = [pc EXCEPT ![k] = "kernel"]
  /\ UNCHANGED <<configVars, link, cpu, comm, mapVars, sent, recorded>>

\* The call of task k is about to return to user mode.
Returning(k) == pc[k] = "kernel" /\ info[call[k]].id \notin NoReturn

sys_exit_untraced(k) ==
  /\ Returning(k)
  /\ link["exit"] # "attached"
  /\ pc' = [pc EXCEPT ![k] = "user"]
  /\ call' = [call EXCEPT ![k] = None]
  /\ Ends(call[k], "unseen")
  /\ UNCHANGED <<configVars, link, cpu, comm, mapVars, sent, info, recorded>>

-----------------------------------------------------------------------------
(***************************************************************************)
(* trace_enter.                                                            *)
(***************************************************************************)

\* Mutant: the pid of -p is compared with the low half of pid_tgid, the thread.
PassesThread(k, id) == Admitted(config_map, syscall_bitmap, k[2], comm[k], id)

\* Mutant: the whitelist is looked at only when there is no filter by name.
PassesElse(k, id) ==
  IF config_map.filter_type = FILTER_COMM
  THEN comm[k] = config_map.target_comm
  ELSE Admitted(config_map, syscall_bitmap, k[1], comm[k], id)

Passes(k, id) == Admitted(config_map, syscall_bitmap, k[1], comm[k], id)

\* The early returns: the call does not pass the filter.
trace_enter_return(k, id, n) ==
  /\ Begin(k, id, n)
  /\ link["enter"] = "attached"
  /\ ~Passes(k, id)
  /\ pc' = [pc EXCEPT ![k] = "kernel"]
  /\ UNCHANGED <<configVars, link, cpu, comm, mapVars, sent, recorded>>

\* The stack as left in the scratch: bpf_get_stack succeeds or fails, or is not
\* called and the fields keep what they held.
StackRead(c, n) ==
  IF config_map.print_stack_enabled
  THEN {<<1, n>>, <<-1, None>>}
  ELSE {<<in_map[c].stack_size, in_map[c].user_stack>>}

\* The filter is passed: fill the scratch entry of this CPU.
trace_enter_fill(k, id, n, c) ==
  /\ Begin(k, id, n)
  /\ link["enter"] = "attached"
  /\ Passes(k, id)
  /\ Free(c)
  /\ \E s \in StackRead(c, n) :
       in_map' = [in_map EXCEPT ![c] =
         [pid |-> k[1], tid |-> k[2], syscall_id |-> id, args |-> n,
          stack_size |-> s[1], user_stack |-> s[2]]]
  /\ pc' = [pc EXCEPT ![k] = "update"]
  /\ cpu' = [cpu EXCEPT ![k] = c]
  /\ UNCHANGED <<configVars, link, comm, inflight, event_map, sent, recorded>>

\* Mutant: BPF_NOEXIST, the update fails if the key has an old entry.
trace_enter_update_noexist(k) ==
  /\ pc[k] = "update"
  /\ \/ /\ k \notin Used /\ Cardinality(Used) < MaxInflight
        /\ inflight' = [inflight EXCEPT ![k] = in_map[cpu[k]]]
        /\ recorded' = recorded \cup {call[k]}
     \/ /\ k \in Used \/ Cardinality(Used) >= MaxInflight
        /\ UNCHANGED <<inflight, recorded>>
  /\ pc' = [pc EXCEPT ![k] = "kernel"]
  /\ cpu' = [cpu EXCEPT ![k] = None]
  /\ UNCHANGED <<configVars, link, call, comm, in_map, event_map,
                 sent, info, fate>>

\* bpf_map_update_elem(&inflight, ..., BPF_ANY): an entry of the same key is
\* replaced; a new one needs room; the result is not looked at.
trace_enter_update(k) ==
  /\ pc[k] = "update"
  /\ \/ /\ k \in Used \/ Cardinality(Used) < MaxInflight
        /\ inflight' = [inflight EXCEPT ![k] = in_map[cpu[k]]]
        /\ recorded' = recorded \cup {call[k]}
     \/ /\ k \notin Used /\ Cardinality(Used) >= MaxInflight
        /\ UNCHANGED <<inflight, recorded>>
  /\ pc' = [pc EXCEPT ![k] = "kernel"]
  /\ cpu' = [cpu EXCEPT ![k] = None]
  /\ UNCHANGED <<configVars, link, call, comm, in_map, event_map,
                 sent, info, fate>>

-----------------------------------------------------------------------------
(***************************************************************************)
(* trace_exit.                                                             *)
(***************************************************************************)

\* Mutant: the entry is looked up under the process instead of the thread.
trace_exit_return_tgid(k) ==
  /\ Returning(k)
  /\ link["exit"] = "attached"
  /\ inflight[<<k[1], k[1]>>] = None
  /\ pc' = [pc EXCEPT ![k] = "user"]
  /\ call' = [call EXCEPT ![k] = None]
  /\ Ends(call[k], "returned")
  /\ UNCHANGED <<configVars, link, cpu, comm, mapVars, sent, info, recorded>>

\* The early return: nothing in flight under this pid_tgid.
trace_exit_return(k) ==
  /\ Returning(k)
  /\ link["exit"] = "attached"
  /\ inflight[k] = None
  /\ pc' = [pc EXCEPT ![k] = "user"]
  /\ call' = [call EXCEPT ![k] = None]
  /\ Ends(call[k], "returned")
  /\ UNCHANGED <<configVars, link, cpu, comm, mapVars, sent, info, recorded>>

\* Fill the event of this CPU from the entry in flight.  The entry is taken for
\* the one of the returning call: ctx->id is not compared with its syscall_id.
trace_exit_fill(k, c) ==
  LET in == inflight[k] IN
  /\ Returning(k)
  /\ link["exit"] = "attached"
  /\ in # None
  /\ Free(c)
  /\ event_map' = [event_map EXCEPT ![c] =
       [pid |-> in.pid, tid |-> in.tid, syscall_id |-> in.syscall_id,
        args |-> in.args, stack_size |-> in.stack_size,
        user_stack |-> IF config_map.print_stack_enabled
                       THEN in.user_stack ELSE event_map[c].user_stack,
        ret |-> call[k]]]
  /\ pc' = [pc EXCEPT ![k] = "output"]
  /\ cpu' = [cpu EXCEPT ![k] = c]
  /\ UNCHANGED <<configVars, link, call, comm, inflight, in_map, histVars>>

\* bpf_perf_event_output; what the perf ring does with it is PerfBuffer's.
trace_exit_output(k) ==
  /\ pc[k] = "output"
  /\ sent' = sent \cup {event_map[cpu[k]]}
  /\ pc' = [pc EXCEPT ![k] = "delete"]
  /\ UNCHANGED <<configVars, link, cpu, call, comm, mapVars,
                 info, fate, recorded>>

\* Mutant: the entry is not deleted.
trace_exit_delete_kept(k) ==
  /\ pc[k] = "delete"
  /\ pc' = [pc EXCEPT ![k] = "user"]
  /\ cpu' = [cpu EXCEPT ![k] = None]
  /\ call' = [call EXCEPT ![k] = None]
  /\ Ends(call[k], "returned")
  /\ UNCHANGED <<configVars, link, comm, mapVars, sent, info, recorded>>

\* bpf_map_delete_elem, and the task is back in user mode.
trace_exit_delete(k) ==
  /\ pc[k] = "delete"
  /\ inflight' = [inflight EXCEPT ![k] = None]
  /\ pc' = [pc EXCEPT ![k] = "user"]
  /\ cpu' = [cpu EXCEPT ![k] = None]
  /\ call' = [call EXCEPT ![k] = None]
  /\ Ends(call[k], "returned")
  /\ UNCHANGED <<configVars, link, comm, in_map, event_map,
                 sent, info, recorded>>

-----------------------------------------------------------------------------
(***************************************************************************)
(* What user space does to the programs.                                   *)
(***************************************************************************)

write_config(cfg) ==
  /\ config_map' = cfg
  /\ UNCHANGED <<syscall_bitmap, link, taskVars, mapVars, histVars>>

write_bitmap(bitmap) ==
  /\ syscall_bitmap' = bitmap
  /\ UNCHANGED <<config_map, link, taskVars, mapVars, histVars>>

attach(l) ==
  /\ link[l] = "none"
  /\ link' = [link EXCEPT ![l] = "attached"]
  /\ UNCHANGED <<configVars, taskVars, mapVars, histVars>>

\* A program that is running when its link goes away runs to its end.
destroy(l) ==
  /\ link[l] = "attached"
  /\ link' = [link EXCEPT ![l] = "destroyed"]
  /\ UNCHANGED <<configVars, taskVars, mapVars, histVars>>

Unattached == link["enter"] = "none" /\ link["exit"] = "none"
Configured == config_map \in Configs /\ syscall_bitmap \in Filters

-----------------------------------------------------------------------------
Init ==
  /\ config_map = ZeroConfig
  /\ syscall_bitmap = ZeroBitmap
  /\ link = [l \in {"enter", "exit"} |-> "none"]
  /\ pc = [k \in Keys |-> "none"]
  /\ cpu = [k \in Keys |-> None]
  /\ call = [k \in Keys |-> None]
  /\ comm = [k \in Keys |-> None]
  /\ inflight = [k \in Keys |-> None]
  /\ in_map = [c \in Cpus |-> ZeroIn]
  /\ event_map = [c \in Cpus |-> ZeroEvent]
  /\ sent = {}
  /\ info = [n \in Calls |-> None]
  /\ fate = [n \in Calls |-> "unborn"]
  /\ recorded = {}

\* Steps of a task outside the programs.
Task(k) ==
  \/ \E m \in Comms : task_create(k, m) \/ task_rename(k, m) \/ task_exec(k, m)
  \/ task_killed(k)
  \/ task_exit(k)
  \/ \E id \in Syscalls, n \in Calls : sys_enter_untraced(k, id, n)
  \/ sys_exit_untraced(k)

trace_enter(k) ==
  \/ \E id \in Syscalls, n \in Calls :
       \/ trace_enter_return(k, id, n)
       \/ \E c \in Cpus : trace_enter_fill(k, id, n, c)
  \/ trace_enter_update(k)

trace_exit(k) ==
  \/ trace_exit_return(k)
  \/ \E c \in Cpus : trace_exit_fill(k, c)
  \/ trace_exit_output(k)
  \/ trace_exit_delete(k)

\* The order that main keeps (Etrace): both maps are written before trace_enter
\* is attached, which is attached before trace_exit and detached after it.
User ==
  \/ Unattached /\ \E cfg \in Configs : write_config(cfg)
  \/ Unattached /\ \E bitmap \in Filters : write_bitmap(bitmap)
  \/ Configured /\ attach("enter")
  \/ link["enter"] = "attached" /\ attach("exit")
  \/ destroy("exit")
  \/ link["exit"] # "attached" /\ destroy("enter")

Next ==
  \/ \E k \in Keys : Task(k) \/ trace_enter(k) \/ trace_exit(k)
  \/ User

Spec == Init /\ [][Next]_vars

-----------------------------------------------------------------------------
(***************************************************************************)
(* Properties.                                                             *)
(***************************************************************************)

TypeOK ==
  /\ config_map \in TraceConfig
  /\ syscall_bitmap \in Bitmaps
  /\ link \in [{"enter", "exit"} -> {"none", "attached", "destroyed"}]
  /\ pc \in [Keys -> Pc]
  /\ cpu \in [Keys -> Cpus \cup {None}]
  /\ call \in [Keys -> Calls \cup {None}]
  /\ comm \in [Keys -> Comms \cup {None}]
  /\ inflight \in [Keys -> InflightSyscall \cup {None}]
  /\ in_map \in [Cpus -> InflightSyscall]
  /\ event_map \in [Cpus -> SyscallEvent]
  /\ sent \subseteq SyscallEvent
  /\ info \in [Calls -> CallInfo \cup {None}]
  /\ fate \in [Calls -> Fate]
  /\ recorded \subseteq Calls

\* Whatever the programs of the other CPUs do meanwhile, an event carries the
\* number, the process, the thread and the stack of the very call whose
\* arguments it carries: nothing is mixed up in the per-CPU scratch entries
\* (mini_etrace.bpf.c:170-197 and 216-247).
EventFaithful ==
  \A e \in sent :
    /\ e.args \in recorded
    /\ info[e.args].key = <<e.pid, e.tid>>
    /\ info[e.args].id = e.syscall_id
    /\ e.stack_size = 1 => e.user_stack = e.args

\* Every call that is reported passed the filter when it was entered, although
\* trace_exit does not filter and the task may have changed its name since.
FilterRespected ==
  \A e \in sent :
    LET i == info[e.args] IN
    Admitted(config_map, syscall_bitmap, i.key[1], i.comm, i.id)

\* A call is reported at most once, and a return is used for one event only.
ReportedOnce ==
  \A e, f \in sent : e.args = f.args \/ e.ret = f.ret => e = f

\* A call that was recorded and whose return was seen has been reported, with
\* its own return value.
RecordedReported ==
  \A n \in recorded :
    fate[n] = "returned" => \E e \in sent : e.args = n /\ e.ret = n

\* Call n passed the filter when it was entered.
Passed(n) ==
  /\ info[n] # None
  /\ Admitted(config_map, syscall_bitmap, info[n].key[1], info[n].comm, info[n].id)

\* With an entry of inflight for every thread, each call that passes the filter
\* while trace_enter is attached, and whose return trace_exit sees, is reported
\* with that return: whatever thread of the process makes it, on whatever CPU, and
\* whatever earlier calls left in the maps (mini_etrace.bpf.c:156-197).
PassedReported ==
  Cardinality(Keys) <= MaxInflight =>
    \A n \in Calls :
      fate[n] = "returned" /\ Passed(n) /\ info[n].link = "attached" =>
        \E e \in sent : e.args = n /\ e.ret = n

\* The return of a call that passes the filter is never shown with the arguments
\* of another call of its thread: an entry that a former call left behind is
\* replaced (BPF_ANY), and a full map leaves the key without an entry.
ReturnMatches ==
  \A e \in sent :
    e.ret # e.args /\ Passed(e.ret) => info[e.ret].key # <<e.pid, e.tid>>

\* The entries that outlive their call come from three places only: the call
\* never returned, it returned while trace_exit was not attached, or the task
\* took the identity of the leader inside the call.
StaleEntryOrigin ==
  \A k \in Used :
    LET n == inflight[k].args IN
    \/ n = call[k] /\ fate[n] = "open"
    \/ fate[n] \in {"died", "unseen", "moved"}

-----------------------------------------------------------------------------
(***************************************************************************)
(* What the texts of the program say and the code does not keep.           *)
(***************************************************************************)

\* "sys_enter 和 sys_exit 之间保存临时信息" (mini_etrace.bpf.c:21): what an entry
\* of inflight holds is the information of one call, between its sys_enter and
\* its sys_exit.  So an event would show a call with its own return.
SameCall == \A e \in sent : e.ret = e.args

\* "Tracing PID %u and all its threads..." (mini_etrace.c:641): with no more
\* tasks alive than inflight has entries, a call that passed the filter can be
\* stored.
AllThreadsTraced ==
  \A k \in Keys :
    /\ pc[k] = "update"
    /\ Cardinality({j \in Keys : Live(j)}) <= MaxInflight
    => k \in Used \/ Cardinality(Used) < MaxInflight

-----------------------------------------------------------------------------
(***************************************************************************)
(* The inductive invariant that the properties rest on (ProbesProofs).     *)
(***************************************************************************)

\* A task holds a CPU exactly while it runs a program, and holds it alone.
CpuInv ==
  \A k \in Keys :
    /\ cpu[k] # None <=> pc[k] \in {"update", "output", "delete"}
    /\ cpu[k] # None => \A j \in Keys \ {k} : cpu[j] # cpu[k]

\* A task in a call is the only one in it, under the key it entered it with
\* unless it was moved to the leader's.
CallInv ==
  \A k \in Keys :
    /\ call[k] # None <=> pc[k] \in {"update", "kernel", "output", "delete"}
    /\ call[k] # None =>
         /\ info[call[k]] # None
         /\ fate[call[k]] \in {"open", "moved"}
         /\ fate[call[k]] = "open" <=> info[call[k]].key = k
         /\ fate[call[k]] = "moved" => k = <<k[1], k[1]>>
         /\ \A j \in Keys \ {k} : call[j] # call[k]

HistInv ==
  \A n \in Calls :
    /\ info[n] = None <=> fate[n] = "unborn"
    /\ n \in recorded =>
         /\ info[n] # None
         /\ Admitted(config_map, syscall_bitmap, info[n].key[1],
                     info[n].comm, info[n].id)

\* Entry e, made by trace_enter, describes call n of task k.
Describes(e, n, k) ==
  /\ e.args = n
  /\ e.pid = k[1] /\ e.tid = k[2]
  /\ e.syscall_id = info[n].id
  /\ info[n].key = k
  /\ e.stack_size = 1 => e.user_stack = n
  /\ ~config_map.print_stack_enabled => e.stack_size = 0

\* Between the two steps of trace_enter the scratch entry is the task's own.
UpdateInv ==
  \A k \in Keys :
    pc[k] = "update" =>
      /\ Describes(in_map[cpu[k]], call[k], k)
      /\ call[k] \notin recorded
      /\ fate[call[k]] = "open"
      /\ Admitted(config_map, syscall_bitmap, k[1], info[call[k]].comm,
                  info[call[k]].id)

\* An entry in flight describes a recorded call of its key; if the task is past
\* trace_enter in a recorded call of its own, the entry is that call's.
InflightInv ==
  \A k \in Keys :
    /\ inflight[k] # None =>
         /\ inflight[k].args \in recorded
         /\ Describes(inflight[k], inflight[k].args, k)
    /\ /\ call[k] \in recorded
       /\ fate[call[k]] = "open"
       => inflight[k] # None /\ inflight[k].args = call[k]

\* Between the steps of trace_exit the scratch event is the task's own.
EventInv ==
  \A k \in Keys :
    pc[k] \in {"output", "delete"} =>
      LET e == event_map[cpu[k]] IN
      /\ inflight[k] # None
      /\ e.args = inflight[k].args
      /\ e.pid = inflight[k].pid /\ e.tid = inflight[k].tid
      /\ e.syscall_id = inflight[k].syscall_id
      /\ e.stack_size = inflight[k].stack_size
      /\ e.stack_size = 1 => e.user_stack = e.args
      /\ e.ret = call[k]
      /\ pc[k] = "delete" => e \in sent

\* What is sent is settled: its entry is gone or about to be deleted, and so is
\* the call whose return it used.
SentInv ==
  \A e \in sent :
    /\ e.ret \in Calls /\ info[e.ret] # None
    /\ \A k \in Keys :
         /\ inflight[k] # None /\ inflight[k].args = e.args
              => pc[k] = "delete" /\ e = event_map[cpu[k]]
         /\ call[k] = e.ret
              => pc[k] = "delete" /\ e = event_map[cpu[k]]

\* trace_exit can report the call of task k, or is about to.
Reportable(k) ==
  \/ pc[k] \in {"output", "delete"}
  \/ pc[k] = "kernel" /\ link["enter"] # "destroyed"

\* An entry that trace_exit finds under the key of a call that passed the filter is
\* that call's, if the call was entered under the key.
OwnEntryInv ==
  \A k \in Keys :
    Reportable(k) /\ inflight[k] # None /\ Passed(call[k]) /\ info[call[k]].key = k
      => inflight[k].args = call[k]

\* With room for every thread, a call that passed the filter of trace_enter has been
\* recorded or is about to be.
PassedInv ==
  Cardinality(Keys) <= MaxInflight =>
    \A n \in Calls :
      Passed(n) /\ info[n].link = "attached" =>
        n \in recorded \/ \E k \in Keys : call[k] = n /\ pc[k] = "update"

\* trace_exit is attached only while trace_enter is.  Before trace_enter is
\* attached nothing has been recorded.
LinkInv ==
  /\ link["exit"] = "attached" => link["enter"] = "attached"
  /\ \A n \in Calls :
       link["enter"] = "none" /\ info[n] # None => info[n].link # "attached"
  /\ link["enter"] = "none" =>
       /\ recorded = {}
       /\ \A k \in Keys : pc[k] # "update" /\ inflight[k] = None
       /\ \A c \in Cpus : in_map[c] = ZeroIn
  /\ \A c \in Cpus : ~config_map.print_stack_enabled => in_map[c].stack_size = 0

IInv ==
  /\ TypeOK /\ CpuInv /\ CallInv /\ HistInv /\ UpdateInv /\ InflightInv
  /\ EventInv /\ SentInv /\ OwnEntryInv /\ PassedInv /\ LinkInv
  /\ EventFaithful /\ ReportedOnce /\ RecordedReported /\ ReturnMatches
  /\ StaleEntryOrigin

=============================================================================
