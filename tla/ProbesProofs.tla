---------------------------- MODULE ProbesProofs ----------------------------
(***************************************************************************)
(* The safety properties of Probes, for every number of tasks, CPUs and    *)
(* calls, every capacity of the map inflight and every configuration.      *)
(*                                                                         *)
(* IInv is inductive.  One lemma per step of the programs, of the tasks    *)
(* and of user space shows that it is preserved; in each lemma one step    *)
(* per conjunct that the action disturbs, the rest together.               *)
(***************************************************************************)
EXTENDS Probes, FiniteSetTheorems, TLAPS

USE DEF configVars, taskVars, mapVars, histVars

-----------------------------------------------------------------------------
\* The record that Begin stores for a call is a call's information.
LEMMA BeginInfo ==
  ASSUME TypeOK, NEW k \in Keys, NEW id \in Syscalls
  PROVE  LET i == [key |-> k, id |-> id, comm |-> comm[k],
                   link |-> link["enter"]]
         IN i \in CallInfo /\ i # None
<1> DEFINE i == [key |-> k, id |-> id, comm |-> comm[k],
                 link |-> link["enter"]]
<1>1. i \in CallInfo
  BY DEF TypeOK, CallInfo
<1> QED
  BY <1>1, EntryAssumption

\* A new call is nobody's yet: it was neither recorded nor sent, and it is not
\* the call of a task.
LEMMA BeginFresh ==
  ASSUME IInv, NEW k \in Keys, NEW id \in Syscalls, NEW n \in Calls, Begin(k, id, n)
  PROVE  /\ n \notin recorded
         /\ \A j \in Keys : call[j] # n
         /\ call[k] = None
         /\ info[n] = None
         /\ info'[n] # None
         /\ info'[n].key = k /\ info'[n].id = id /\ info'[n].comm = comm[k]
         /\ info'[n].link = link["enter"]
         /\ \A m \in Calls \ {n} : info'[m] = info[m] /\ fate'[m] = fate[m]
         /\ fate[n] = "unborn" /\ fate'[n] = "open"
<1>1. /\ info'[n] = [key |-> k, id |-> id, comm |-> comm[k],
                     link |-> link["enter"]]
      /\ \A m \in Calls \ {n} : info'[m] = info[m] /\ fate'[m] = fate[m]
      /\ fate[n] = "unborn" /\ fate'[n] = "open"
  BY DEF IInv, TypeOK, Begin
<1>2. info'[n] # None
  BY <1>1, BeginInfo DEF IInv
<1>3. info[n] = None /\ n \notin recorded
  BY <1>1 DEF IInv, HistInv
<1>4. \A j \in Keys : call[j] # n
  BY <1>1, NoneAssumption DEF IInv, CallInv
<1>5. call[k] = None
  BY NoneAssumption DEF IInv, CallInv, Begin
<1> QED
  BY <1>1, <1>2, <1>3, <1>4, <1>5

\* What every beginning of a call preserves, whatever trace_enter then does.
LEMMA BeginPreserves ==
  ASSUME IInv, NEW k \in Keys, NEW id \in Syscalls, NEW n \in Calls, Begin(k, id, n),
         NEW p \in {"kernel", "update"}, pc' = [pc EXCEPT ![k] = p],
         \A j \in Keys \ {k} : cpu'[j] = cpu[j],
         UNCHANGED <<configVars, link, comm, inflight, event_map, sent, recorded>>
  PROVE  /\ CallInv' /\ HistInv' /\ InflightInv' /\ SentInv'
         /\ EventFaithful' /\ ReportedOnce' /\ RecordedReported'
         /\ ReturnMatches' /\ StaleEntryOrigin'
<1> USE NoneAssumption
<1>0. /\ n \notin recorded /\ info[n] = None /\ call[k] = None
      /\ \A j \in Keys : call[j] # n
      /\ info'[n] # None /\ info'[n].key = k
      /\ \A m \in Calls \ {n} : info'[m] = info[m] /\ fate'[m] = fate[m]
      /\ fate[n] = "unborn" /\ fate'[n] = "open"
  BY BeginFresh
<1>1. CallInv'
  <2> SUFFICES ASSUME NEW j \in Keys
      PROVE  /\ call'[j] # None <=> pc'[j] \in {"update", "kernel", "output", "delete"}
             /\ call'[j] # None =>
                  /\ info'[call'[j]] # None
                  /\ fate'[call'[j]] \in {"open", "moved"}
                  /\ fate'[call'[j]] = "open" <=> info'[call'[j]].key = j
                  /\ fate'[call'[j]] = "moved" => j = <<j[1], j[1]>>
                  /\ \A i \in Keys \ {j} : call'[i] # call'[j]
    BY DEF CallInv
  <2>1. CASE j = k
    BY <1>0, <2>1 DEF IInv, TypeOK, Begin
  <2>2. CASE j # k
    BY <1>0, <2>2 DEF IInv, TypeOK, CallInv, Begin
  <2> QED
    BY <2>1, <2>2
<1>2. HistInv'
  <2> SUFFICES ASSUME NEW m \in Calls
      PROVE  /\ info'[m] = None <=> fate'[m] = "unborn"
             /\ m \in recorded =>
                  /\ info'[m] # None
                  /\ Admitted(config_map, syscall_bitmap, info'[m].key[1],
                              info'[m].comm, info'[m].id)
    BY DEF HistInv, Admitted, syscall_allowed
  <2>1. CASE m = n
    BY <1>0, <2>1
  <2>2. CASE m # n
    BY <1>0, <2>2 DEF IInv, HistInv
  <2> QED
    BY <2>1, <2>2
<1>3. InflightInv'
  BY <1>0 DEF IInv, TypeOK, CallInv, HistInv, InflightInv, Describes, Begin
<1>4. SentInv'
  BY <1>0 DEF IInv, TypeOK, CallInv, HistInv, SentInv, Begin
<1>5. EventFaithful' /\ ReturnMatches'
  <2>1. EventFaithful'
    BY <1>0 DEF IInv, TypeOK, CallInv, HistInv, SentInv, EventFaithful, Begin
  <2>2. \A e \in sent : e.ret \in Calls /\ info'[e.ret] = info[e.ret]
    BY <1>0 DEF IInv, SentInv
  <2>3. ReturnMatches'
    BY <2>2 DEF IInv, ReturnMatches, Passed
  <2> QED
    BY <2>1, <2>3
<1>6. ReportedOnce' /\ RecordedReported'
  BY <1>0 DEF IInv, TypeOK, ReportedOnce, RecordedReported, Begin
<1>7. StaleEntryOrigin'
  BY <1>0 DEF IInv, TypeOK, CallInv, InflightInv, Describes, StaleEntryOrigin, Used, Begin
<1> QED
  BY <1>1, <1>2, <1>3, <1>4, <1>5, <1>6, <1>7

\* A call that trace_enter does not see, or does not let through, preserves IInv:
\* nothing is recorded.
LEMMA SysEnterUntraced ==
  ASSUME IInv, NEW k \in Keys, NEW id \in Syscalls, NEW n \in Calls,
         sys_enter_untraced(k, id, n) \/ trace_enter_return(k, id, n)
  PROVE  IInv'
<1> USE DEF sys_enter_untraced, trace_enter_return
<1>1. Begin(k, id, n) /\ pc' = [pc EXCEPT ![k] = "kernel"] /\ cpu' = cpu
  OBVIOUS
<1>2. TypeOK'
  BY BeginInfo DEF IInv, TypeOK, Begin, Pc, Fate
<1>3. CpuInv' /\ UpdateInv'
  <2>1. CpuInv'
    BY DEF IInv, TypeOK, CpuInv, Begin
  <2>2. \A j \in Keys : pc'[j] = "update" =>
          /\ j # k /\ pc[j] = "update" /\ call'[j] = call[j] /\ call[j] # n
          /\ info'[call[j]] = info[call[j]] /\ fate'[call[j]] = fate[call[j]]
    BY <1>1, BeginFresh, NoneAssumption DEF IInv, TypeOK, CallInv, Begin
  <2>3. UpdateInv'
    BY <2>2 DEF IInv, TypeOK, UpdateInv, Describes
  <2> QED
    BY <2>1, <2>3
<1>4. EventInv' /\ LinkInv'
  <2>1. EventInv'
    BY DEF IInv, TypeOK, EventInv, Begin
  <2>2. LinkInv'
    BY <1>1, BeginFresh DEF IInv, TypeOK, LinkInv
  <2> QED
    BY <2>1, <2>2
\* The call is not admitted, or trace_enter is not attached: then there is no entry
\* in flight, or trace_exit is gone as well.
<1>5. OwnEntryInv' /\ PassedInv'
  <2>0. /\ n \notin recorded /\ info[n] = None /\ call[k] = None
        /\ \A j \in Keys : call[j] # n
        /\ info'[n] # None /\ info'[n].link = link["enter"]
        /\ info'[n].key = k /\ info'[n].id = id /\ info'[n].comm = comm[k]
        /\ \A m \in Calls \ {n} : info'[m] = info[m]
    BY <1>1, BeginFresh
  <2>1. /\ link["enter"] = "attached" => ~Passed(n)'
        /\ info'[n].link = link["enter"]
        /\ call'[k] = n /\ pc'[k] = "kernel" /\ pc[k] = "user"
        /\ call[k] = None
    <3>1. CASE link["enter"] = "attached"
      BY <2>0, <3>1 DEF IInv, TypeOK, Passed, Passes, Begin
    <3>2. CASE link["enter"] # "attached"
      BY <2>0, <3>2 DEF IInv, TypeOK, Begin
    <3> QED
      BY <3>1, <3>2
  <2>2. \A m \in Calls \ {n} : Passed(m)' <=> Passed(m)
    BY <2>0 DEF Passed
  <2>3. \A m \in Calls \ {n} : info'[m] = info[m]
    BY <2>0
  <2>4. \A j \in Keys \ {k} :
          /\ call'[j] = call[j] /\ call[j] # n /\ pc'[j] = pc[j]
          /\ call[j] # None <=> pc[j] \in {"update", "kernel", "output", "delete"}
    BY <2>0 DEF IInv, TypeOK, CallInv, Begin
  <2>5. \A j \in Keys \ {k} : call[j] # None => call[j] \in Calls \ {n}
    BY <2>4 DEF IInv, TypeOK
  <2>6. link["enter"] = "none" => inflight[k] = None
    BY DEF IInv, LinkInv
  <2>7. link["enter"] \in {"none", "attached", "destroyed"}
    BY DEF IInv, TypeOK
  <2>8. OwnEntryInv'
    BY <1>1, <2>1, <2>2, <2>3, <2>4, <2>5, <2>6, <2>7
    DEF IInv, OwnEntryInv, Reportable
  <2>9. PassedInv'
    BY <2>1, <2>2, <2>3, <2>4 DEF IInv, PassedInv
  <2> QED
    BY <2>8, <2>9
<1> QED
  BY <1>1, <1>2, <1>3, <1>4, <1>5, BeginPreserves DEF IInv

\* A call that passes the filter of trace_enter preserves IInv: it takes a CPU that
\* is free, so no other task depends on the scratch entry that is overwritten.
LEMMA TraceEnterFill ==
  ASSUME IInv, NEW k \in Keys, NEW id \in Syscalls, NEW n \in Calls, NEW c \in Cpus,
         trace_enter_fill(k, id, n, c)
  PROVE  IInv'
<1> USE DEF trace_enter_fill, Passes
<1>1. Begin(k, id, n) /\ pc' = [pc EXCEPT ![k] = "update"]
  OBVIOUS
<1>2. PICK s \in StackRead(c, n) :
        in_map' = [in_map EXCEPT ![c] =
          [pid |-> k[1], tid |-> k[2], syscall_id |-> id, args |-> n,
           stack_size |-> s[1], user_stack |-> s[2]]]
  OBVIOUS
\* The scratch entry as the task has left it.
<1>3. /\ s[1] \in {-1, 0, 1} /\ s[2] \in Calls \cup {None}
      /\ s[1] = 1 => s[2] = n
      /\ ~config_map.print_stack_enabled => s[1] = 0
  BY DEF StackRead, IInv, TypeOK, LinkInv, InflightSyscall
<1>4. TypeOK'
  <2>1. in_map' \in [Cpus -> InflightSyscall]
    BY <1>2, <1>3, KeysAssumption, SyscallsAssumption DEF IInv, TypeOK, InflightSyscall
  <2> QED
    BY <2>1, BeginInfo DEF IInv, TypeOK, Begin, Pc, Fate
<1>5. CpuInv'
  BY NoneAssumption DEF IInv, TypeOK, CpuInv, Begin, Free
<1>6. UpdateInv'
  <2> SUFFICES ASSUME NEW j \in Keys, pc'[j] = "update"
      PROVE  /\ Describes(in_map[cpu[j]], call[j], j)'
             /\ call'[j] \notin recorded'
             /\ fate'[call'[j]] = "open"
             /\ Admitted(config_map, syscall_bitmap, j[1], info'[call'[j]].comm,
                         info'[call'[j]].id)
    BY DEF UpdateInv, Admitted, syscall_allowed
  <2>1. CASE j = k
    <3>1. call'[k] = n /\ cpu'[k] = c
      BY DEF IInv, TypeOK, Begin
    <3>2. in_map'[c] = [pid |-> k[1], tid |-> k[2], syscall_id |-> id, args |-> n,
                        stack_size |-> s[1], user_stack |-> s[2]]
      BY <1>2 DEF IInv, TypeOK
    <3> QED
      BY <1>1, <1>3, <2>1, <3>1, <3>2, BeginFresh DEF Describes
  <2>2. CASE j # k
    <3>1. /\ pc[j] = "update" /\ call'[j] = call[j] /\ call[j] \in Calls
          /\ cpu'[j] = cpu[j] /\ cpu[j] \in Cpus
      BY <2>2, NoneAssumption DEF IInv, TypeOK, CpuInv, CallInv, Begin
    <3>2. in_map'[cpu[j]] = in_map[cpu[j]]
      BY <1>2, <3>1 DEF IInv, TypeOK, Free
    <3>3. info'[call[j]] = info[call[j]] /\ fate'[call[j]] = fate[call[j]]
      BY <1>1, <3>1, BeginFresh
    <3> QED
      BY <3>1, <3>2, <3>3 DEF IInv, UpdateInv, Describes
  <2> QED
    BY <2>1, <2>2
<1>7. EventInv'
  BY NoneAssumption DEF IInv, TypeOK, EventInv, Begin
<1>8. LinkInv'
  BY <1>1, <1>2, <1>3, BeginFresh DEF IInv, TypeOK, LinkInv
\* The call itself is about to be recorded; nobody else's has changed.
<1>9. OwnEntryInv' /\ PassedInv'
  <2>0. /\ n \notin recorded /\ info[n] = None /\ call[k] = None
        /\ \A j \in Keys : call[j] # n
        /\ info'[n] # None /\ info'[n].link = link["enter"]
        /\ info'[n].key = k /\ info'[n].id = id /\ info'[n].comm = comm[k]
        /\ \A m \in Calls \ {n} : info'[m] = info[m]
    BY <1>1, BeginFresh
  <2>1. \A m \in Calls \ {n} : info'[m] = info[m] /\ (Passed(m)' <=> Passed(m))
    BY <2>0 DEF Passed
  <2>2. call'[k] = n /\ pc'[k] = "update" /\ call[k] = None
    BY <2>0 DEF IInv, TypeOK, Begin
  <2>3. \A j \in Keys \ {k} :
          /\ call'[j] = call[j] /\ call[j] # n /\ pc'[j] = pc[j]
          /\ call[j] # None <=> pc[j] \in {"update", "kernel", "output", "delete"}
          /\ call[j] # None => call[j] \in Calls \ {n}
    BY <2>0 DEF IInv, TypeOK, CallInv, Begin
  <2>4. OwnEntryInv'
    BY <2>1, <2>2, <2>3 DEF IInv, OwnEntryInv, Reportable
  <2>5. PassedInv'
    <3> SUFFICES ASSUME Cardinality(Keys) <= MaxInflight, NEW m \in Calls,
                        Passed(m)', info'[m].link = "attached"
        PROVE  m \in recorded \/ \E j \in Keys : call'[j] = m /\ pc'[j] = "update"
      BY DEF PassedInv
    <3>1. CASE m = n
      BY <2>2, <3>1
    <3>2. CASE m # n
      <4>1. m \in recorded \/ \E j \in Keys : call[j] = m /\ pc[j] = "update"
        BY <2>1, <3>2 DEF IInv, PassedInv
      <4> QED
        BY <2>2, <2>3, <4>1, NoneAssumption
    <3> QED
      BY <3>1, <3>2
  <2> QED
    BY <2>4, <2>5
<1> QED
  BY <1>1, <1>4, <1>5, <1>6, <1>7, <1>8, <1>9, BeginPreserves DEF IInv, TypeOK

-----------------------------------------------------------------------------
\* Creation, death by a signal and renaming touch nothing that an entry or an
\* event depends on.
LEMMA TaskOutside ==
  ASSUME IInv, NEW k \in Keys,
         \/ \E m \in Comms : task_create(k, m) \/ task_rename(k, m)
         \/ task_killed(k)
  PROVE  IInv'
<1> USE DEF task_create, task_killed, task_rename, Live
<1>1. TypeOK'
  BY DEF IInv, TypeOK, Pc
<1>2. CpuInv' /\ CallInv'
  BY DEF IInv, TypeOK, CpuInv, CallInv
<1>3. HistInv' /\ UpdateInv' /\ InflightInv'
  BY DEF IInv, TypeOK, HistInv, UpdateInv, InflightInv, Describes
<1>4. EventInv' /\ SentInv' /\ LinkInv'
  BY DEF IInv, TypeOK, EventInv, SentInv, LinkInv
<1>5. EventFaithful' /\ ReportedOnce' /\ RecordedReported' /\ ReturnMatches'
  BY DEF IInv, EventFaithful, ReportedOnce, RecordedReported, ReturnMatches, Passed
<1>6. StaleEntryOrigin'
  BY DEF IInv, StaleEntryOrigin, Used
<1>7. OwnEntryInv' /\ PassedInv'
  BY DEF IInv, TypeOK, OwnEntryInv, PassedInv, Reportable, Passed
<1> QED
  BY <1>1, <1>2, <1>3, <1>4, <1>5, <1>6, <1>7 DEF IInv

\* The call of task k is over, with or without a return, and no event was made
\* of it: all it leaves behind is its entry in flight, if it has one.
LEMMA CallOver ==
  ASSUME IInv, NEW k \in Keys, NEW p \in {"none", "user"},
         NEW outcome \in {"died", "unseen", "returned"},
         pc[k] = "kernel", pc' = [pc EXCEPT ![k] = p],
         call' = [call EXCEPT ![k] = None], Ends(call[k], outcome),
         comm' \in [Keys -> Comms \cup {None}],
         outcome = "returned" => inflight[k] = None,
         UNCHANGED <<configVars, link, cpu, mapVars, sent, info, recorded>>
  PROVE  IInv'
<1> USE NoneAssumption DEF Ends
<1>1. call[k] \in Calls
  BY DEF IInv, TypeOK, CallInv
<1>2. TypeOK'
  BY <1>1 DEF IInv, TypeOK, Pc, Fate
<1>3. CpuInv'
  BY DEF IInv, TypeOK, CpuInv
<1>4. CallInv'
  BY <1>1 DEF IInv, TypeOK, CallInv
<1>5. HistInv' /\ LinkInv'
  BY <1>1 DEF IInv, TypeOK, HistInv, LinkInv
<1>6. UpdateInv'
  BY <1>1 DEF IInv, TypeOK, CallInv, UpdateInv, Describes
<1>7. InflightInv'
  BY <1>1 DEF IInv, TypeOK, InflightInv, Describes
<1>8. EventInv' /\ SentInv'
  BY DEF IInv, TypeOK, EventInv, SentInv
<1>9. EventFaithful' /\ ReportedOnce' /\ ReturnMatches'
  BY DEF IInv, EventFaithful, ReportedOnce, ReturnMatches, Passed
<1>10. RecordedReported'
  BY <1>1 DEF IInv, TypeOK, CallInv, InflightInv, RecordedReported
<1>11. StaleEntryOrigin'
  BY <1>1 DEF IInv, TypeOK, CallInv, InflightInv, Describes, StaleEntryOrigin, Used
<1>12. OwnEntryInv' /\ PassedInv'
  BY <1>1 DEF IInv, TypeOK, CallInv, OwnEntryInv, PassedInv, Reportable, Passed
<1> QED
  BY <1>2, <1>3, <1>4, <1>5, <1>6, <1>7, <1>8, <1>9, <1>10, <1>11, <1>12 DEF IInv

\* A step in which a task leaves its call without an event (it exits, returns unseen,
\* or trace_exit finds nothing in flight) preserves IInv.
LEMMA TaskLeavesCall ==
  ASSUME IInv, NEW k \in Keys,
         task_exit(k) \/ sys_exit_untraced(k) \/ trace_exit_return(k)
  PROVE  IInv'
<1>1. CASE task_exit(k)
  <2>1. comm' \in [Keys -> Comms \cup {None}]
    BY <1>1 DEF task_exit, IInv, TypeOK
  <2> QED
    BY <1>1, <2>1, CallOver DEF task_exit
<1>2. CASE sys_exit_untraced(k)
  BY <1>2, CallOver DEF sys_exit_untraced, Returning, IInv, TypeOK
<1>3. CASE trace_exit_return(k)
  BY <1>3, CallOver DEF trace_exit_return, Returning, IInv, TypeOK
<1> QED
  BY <1>1, <1>2, <1>3

\* The caller of execve goes on under the key of the leader; the entry that
\* trace_enter made for it stays under its own.
LEMMA TaskExec ==
  ASSUME IInv, NEW k \in Keys, NEW m \in Comms, task_exec(k, m)
  PROVE  IInv'
<1> USE NoneAssumption DEF task_exec, Ends, Live
<1> DEFINE l == <<k[1], k[1]>>
<1>1. /\ l \in Keys /\ l # k /\ pc[l] = "none" /\ pc[k] = "kernel"
      /\ call[l] = None /\ call[k] \in Calls
  <2>1. l \in Keys /\ l # k /\ pc[k] = "kernel"
    OBVIOUS
  <2>2. pc[l] = "none"
    BY <2>1
  <2> QED
    BY <2>1, <2>2 DEF IInv, TypeOK, CallInv
<1>2. /\ pc' = [pc EXCEPT ![k] = "none", ![l] = "kernel"]
      /\ call' = [call EXCEPT ![k] = None, ![l] = call[k]]
      /\ comm' = [comm EXCEPT ![k] = None, ![l] = m]
  OBVIOUS
<1>3. /\ fate' \in [Calls -> Fate]
      /\ fate'[call[k]] = "moved"
      /\ \A n \in Calls \ {call[k]} : fate'[n] = fate[n]
  BY <1>1 DEF IInv, TypeOK, CallInv, Fate
<1> HIDE DEF l
<1>4. TypeOK'
  BY <1>1, <1>2, <1>3 DEF IInv, TypeOK, Pc
<1>5. CpuInv'
  BY <1>1, <1>2 DEF IInv, TypeOK, CpuInv
<1>6. CallInv'
  <2> SUFFICES ASSUME NEW j \in Keys
      PROVE  /\ call'[j] # None <=> pc'[j] \in {"update", "kernel", "output", "delete"}
             /\ call'[j] # None =>
                  /\ info'[call'[j]] # None
                  /\ fate'[call'[j]] \in {"open", "moved"}
                  /\ fate'[call'[j]] = "open" <=> info'[call'[j]].key = j
                  /\ fate'[call'[j]] = "moved" => j = <<j[1], j[1]>>
                  /\ \A i \in Keys \ {j} : call'[i] # call'[j]
    BY DEF CallInv
  <2>1. CASE j = k
    BY <1>1, <1>2, <2>1 DEF IInv, TypeOK
  \* The caller was not the leader, so this is the first move of the call.
  <2>2. CASE j = l
    <3>1. info[call[k]].key = k
      BY <1>1 DEF IInv, CallInv, TypeOK, l
    <3>2. l = <<l[1], l[1]>>
      BY DEF l
    <3> QED
      BY <1>1, <1>2, <1>3, <2>2, <3>1, <3>2 DEF IInv, TypeOK, CallInv
  <2>3. CASE j # k /\ j # l
    BY <1>1, <1>2, <1>3, <2>3 DEF IInv, TypeOK, CallInv
  <2> QED
    BY <2>1, <2>2, <2>3
<1>7. HistInv' /\ LinkInv'
  BY <1>1, <1>2, <1>3 DEF IInv, TypeOK, HistInv, CallInv, LinkInv
<1>8. UpdateInv' /\ InflightInv'
  BY <1>1, <1>2, <1>3 DEF IInv, TypeOK, CallInv, UpdateInv, InflightInv, Describes
<1>9. EventInv' /\ SentInv'
  BY <1>1, <1>2 DEF IInv, TypeOK, EventInv, SentInv
<1>10. EventFaithful' /\ ReportedOnce' /\ ReturnMatches'
  BY DEF IInv, EventFaithful, ReportedOnce, ReturnMatches, Passed
<1>11. RecordedReported'
  BY <1>3 DEF IInv, TypeOK, RecordedReported
<1>12. StaleEntryOrigin'
  BY <1>1, <1>2, <1>3 DEF IInv, TypeOK, CallInv, InflightInv, StaleEntryOrigin, Used
\* The call goes on under a key that it was not entered under.
<1>13. OwnEntryInv' /\ PassedInv'
  <2>1. info[call[k]].key # l
    BY <1>1 DEF IInv, TypeOK, CallInv, l
  <2>2. OwnEntryInv'
    BY <1>1, <1>2, <2>1 DEF IInv, TypeOK, CallInv, OwnEntryInv, Reportable, Passed
  <2>3. PassedInv'
    BY <1>1, <1>2 DEF IInv, TypeOK, PassedInv, Passed
  <2> QED
    BY <2>2, <2>3
<1> QED
  BY <1>4, <1>5, <1>6, <1>7, <1>8, <1>9, <1>10, <1>11, <1>12, <1>13 DEF IInv

-----------------------------------------------------------------------------
\* The second step of trace_enter.  The entry of the scratch is still the
\* task's own (UpdateInv), and becomes the entry in flight of its key.
LEMMA TraceEnterUpdate ==
  ASSUME IInv, NEW k \in Keys, trace_enter_update(k)
  PROVE  IInv'
<1> USE NoneAssumption DEF trace_enter_update
<1>1. /\ call[k] \in Calls /\ cpu[k] \in Cpus /\ in_map[cpu[k]] \in InflightSyscall
      /\ in_map[cpu[k]] # None /\ call[k] \notin recorded
      /\ Describes(in_map[cpu[k]], call[k], k)
      /\ fate[call[k]] = "open" /\ info[call[k]] # None /\ info[call[k]].key = k
  BY EntryAssumption DEF IInv, TypeOK, CpuInv, CallInv, UpdateInv
<1>2. \/ /\ inflight' = [inflight EXCEPT ![k] = in_map[cpu[k]]]
         /\ recorded' = recorded \cup {call[k]}
      \/ UNCHANGED <<inflight, recorded>>
  OBVIOUS
<1>3. TypeOK'
  BY <1>1, <1>2 DEF IInv, TypeOK, Pc
<1>4. CpuInv' /\ CallInv'
  BY DEF IInv, TypeOK, CpuInv, CallInv
<1>5. HistInv'
  BY <1>1, <1>2 DEF IInv, HistInv, UpdateInv
<1>6. UpdateInv'
  BY <1>1, <1>2 DEF IInv, TypeOK, CallInv, UpdateInv, Describes
<1>7. InflightInv'
  BY <1>1, <1>2 DEF IInv, TypeOK, CallInv, InflightInv, Describes
<1>8. EventInv'
  BY DEF IInv, TypeOK, EventInv
<1>9. SentInv'
  <2>1. \A e \in sent : e.args # call[k] /\ e.ret # call[k]
    BY <1>1 DEF IInv, SentInv, EventFaithful
  <2> QED
    BY <1>1, <1>2, <2>1 DEF IInv, TypeOK, SentInv, Describes
<1>10. LinkInv'
  BY <1>1 DEF IInv, LinkInv
<1>11. EventFaithful' /\ ReportedOnce'
  BY DEF IInv, EventFaithful, ReportedOnce
<1>12. RecordedReported'
  BY <1>1, <1>2 DEF IInv, RecordedReported
<1>13. ReturnMatches'
  BY DEF IInv, ReturnMatches, Passed
<1>14. StaleEntryOrigin'
  BY <1>1, <1>2 DEF IInv, TypeOK, StaleEntryOrigin, Used, Describes
\* The entry under the key is the call's own, or, if the map is full, there is none.
<1>15. OwnEntryInv'
  <2>1. k \notin Used => inflight[k] = None
    BY DEF Used
  <2>2. inflight'[k] = None \/ inflight'[k].args = call[k]
    BY <1>1, <2>1 DEF IInv, TypeOK, Describes
  <2>3. \A j \in Keys \ {k} : inflight'[j] = inflight[j] /\ pc'[j] = pc[j]
    BY DEF IInv, TypeOK
  <2> QED
    BY <2>2, <2>3 DEF IInv, OwnEntryInv, Reportable, Passed
\* The map is not full without an entry of the task's own.
<1>16. PassedInv'
  <2>1. ASSUME Cardinality(Keys) <= MaxInflight, k \notin Used
        PROVE  Cardinality(Used) < MaxInflight
    <3>1. Used \subseteq Keys \ {k}
      BY <2>1 DEF Used
    <3>2. IsFiniteSet(Keys \ {k}) /\ Cardinality(Keys \ {k}) = Cardinality(Keys) - 1
      BY KeysAssumption, FS_RemoveElement
    <3>3. Cardinality(Used) <= Cardinality(Keys) - 1
      BY <3>1, <3>2, FS_Subset
    <3>4. Cardinality(Keys) \in Nat /\ Cardinality(Used) \in Nat
      BY <3>1, <3>2, KeysAssumption, FS_CardinalityType, FS_Subset
    <3> QED
      BY <2>1, <3>3, <3>4, BoundsAssumption
  <2>2. ASSUME Cardinality(Keys) <= MaxInflight
        PROVE  recorded' = recorded \cup {call[k]}
    <3>1. Used \subseteq Keys
      BY DEF Used
    <3>2. Cardinality(Used) \in Nat
      BY <3>1, KeysAssumption, FS_CardinalityType, FS_Subset
    <3> QED
      BY <2>1, <2>2, <3>2, BoundsAssumption
  <2>3. \A j \in Keys \ {k} : pc'[j] = pc[j]
    BY DEF IInv, TypeOK
  <2> QED
    BY <2>2, <2>3 DEF IInv, PassedInv, Passed
<1> QED
  BY <1>3, <1>4, <1>5, <1>6, <1>7, <1>8, <1>9, <1>10, <1>11, <1>12, <1>13, <1>14,
     <1>15, <1>16
  DEF IInv

\* The first step of trace_exit copies the entry into the event of the CPU.
LEMMA TraceExitFill ==
  ASSUME IInv, NEW k \in Keys, NEW c \in Cpus, trace_exit_fill(k, c)
  PROVE  IInv'
<1> USE NoneAssumption DEF trace_exit_fill, Returning
<1>1. inflight[k] \in InflightSyscall /\ call[k] \in Calls
  BY DEF IInv, TypeOK, CallInv
<1>2. TypeOK'
  BY <1>1 DEF IInv, TypeOK, Pc, InflightSyscall, SyscallEvent
<1>3. CpuInv'
  BY DEF IInv, TypeOK, CpuInv, Free
<1>4. CallInv' /\ HistInv' /\ UpdateInv' /\ InflightInv'
  BY DEF IInv, TypeOK, CallInv, HistInv, UpdateInv, InflightInv, Describes
<1>5. EventInv'
  <2> SUFFICES ASSUME NEW j \in Keys, pc'[j] \in {"output", "delete"}
      PROVE  LET e == event_map'[cpu'[j]] IN
             /\ inflight'[j] # None
             /\ e.args = inflight'[j].args
             /\ e.pid = inflight'[j].pid /\ e.tid = inflight'[j].tid
             /\ e.syscall_id = inflight'[j].syscall_id
             /\ e.stack_size = inflight'[j].stack_size
             /\ e.stack_size = 1 => e.user_stack = e.args
             /\ e.ret = call'[j]
             /\ pc'[j] = "delete" => e \in sent'
    BY DEF EventInv
  <2>1. CASE j = k
    \* Without -s the entry has stack_size 0, whatever the old user_stack.
    BY <1>1, <2>1 DEF IInv, TypeOK, InflightInv, Describes
  <2>2. CASE j # k
    <3>1. cpu'[j] = cpu[j] /\ cpu[j] # c /\ pc'[j] = pc[j]
      BY <2>2 DEF IInv, TypeOK, Free
    <3>2. event_map'[cpu[j]] = event_map[cpu[j]]
      BY <3>1 DEF IInv, TypeOK, CpuInv
    <3> QED
      BY <3>1, <3>2 DEF IInv, TypeOK, EventInv
  <2> QED
    BY <2>1, <2>2
<1>6. SentInv'
  <2>1. \A j \in Keys : pc[j] = "delete" =>
          /\ j # k /\ pc'[j] = "delete" /\ cpu'[j] = cpu[j]
          /\ event_map'[cpu[j]] = event_map[cpu[j]]
    BY DEF IInv, TypeOK, CpuInv, Free
  <2> QED
    BY <2>1 DEF IInv, SentInv
<1>7. LinkInv' /\ EventFaithful' /\ ReportedOnce' /\ RecordedReported' /\ ReturnMatches'
  BY DEF IInv, TypeOK, LinkInv, EventFaithful, ReportedOnce, RecordedReported,
         ReturnMatches, Passed
<1>8. StaleEntryOrigin'
  BY DEF IInv, StaleEntryOrigin, Used
\* trace_exit is attached, so trace_enter is not gone.
<1>9. OwnEntryInv' /\ PassedInv'
  <2>1. Reportable(k) /\ \A j \in Keys \ {k} : pc'[j] = pc[j]
    BY DEF IInv, TypeOK, LinkInv, Reportable
  <2>2. OwnEntryInv'
    BY <2>1 DEF IInv, OwnEntryInv, Reportable, Passed
  <2>3. PassedInv'
    BY <2>1 DEF IInv, PassedInv, Passed
  <2> QED
    BY <2>2, <2>3
<1> QED
  BY <1>2, <1>3, <1>4, <1>5, <1>6, <1>7, <1>8, <1>9 DEF IInv

\* bpf_perf_event_output.  The event is the task's own (EventInv); neither its
\* entry nor its return has been used before (SentInv).
LEMMA TraceExitOutput ==
  ASSUME IInv, NEW k \in Keys, trace_exit_output(k)
  PROVE  IInv'
<1> USE NoneAssumption DEF trace_exit_output
<1> DEFINE x == event_map[cpu[k]]
<1>1. /\ cpu[k] \in Cpus /\ call[k] \in Calls /\ x \in SyscallEvent
      /\ inflight[k] # None /\ x.args = inflight[k].args /\ x.ret = call[k]
      /\ x.args \in recorded /\ info[x.args].key = k /\ x.args \in Calls
      /\ x.pid = k[1] /\ x.tid = k[2]
      /\ x.syscall_id = info[x.args].id
      /\ x.stack_size = 1 => x.user_stack = x.args
      /\ info[call[k]] # None
  BY DEF IInv, TypeOK, CpuInv, CallInv, EventInv, InflightInv, Describes
<1>2. sent' = sent \cup {x}
  OBVIOUS
<1>3. \A e \in sent : e.args # x.args /\ e.ret # x.ret
  BY <1>1 DEF IInv, SentInv
<1> HIDE DEF x
<1>4. TypeOK'
  BY <1>1, <1>2 DEF IInv, TypeOK, Pc
<1>5. CpuInv' /\ CallInv' /\ HistInv' /\ UpdateInv' /\ InflightInv' /\ LinkInv'
  BY DEF IInv, TypeOK, CpuInv, CallInv, HistInv, UpdateInv, InflightInv, LinkInv,
         Describes
<1>6. EventInv'
  BY <1>1, <1>2 DEF IInv, TypeOK, EventInv, x
<1>7. SentInv'
  <2> SUFFICES ASSUME NEW e \in sent'
      PROVE  /\ e.ret \in Calls /\ info[e.ret] # None
             /\ \A j \in Keys :
                  /\ inflight[j] # None /\ inflight[j].args = e.args
                       => pc'[j] = "delete" /\ e = event_map[cpu[j]]
                  /\ call[j] = e.ret
                       => pc'[j] = "delete" /\ e = event_map[cpu[j]]
    BY DEF SentInv
  <2>1. CASE e \in sent
    BY <2>1 DEF IInv, TypeOK, SentInv
  <2>2. CASE e = x
    \* Entries of other keys have other args, tasks of other keys other calls.
    BY <1>1, <2>2 DEF IInv, TypeOK, CallInv, InflightInv, Describes, x
  <2> QED
    BY <1>2, <2>1, <2>2
<1>8. EventFaithful'
  <2>1. k = <<k[1], k[2]>>
    BY KeysAssumption
  <2> QED
    BY <1>1, <1>2, <2>1 DEF IInv, EventFaithful
<1>9. ReportedOnce'
  BY <1>2, <1>3 DEF IInv, ReportedOnce
<1>10. RecordedReported'
  BY <1>2 DEF IInv, RecordedReported
\* The entry in flight is the call's own, if it passed and was entered under the key.
<1>11. ReturnMatches'
  <2>1. x.ret # x.args /\ Passed(x.ret) => info[x.ret].key # <<x.pid, x.tid>>
    <3>1. k = <<x.pid, x.tid>>
      BY <1>1, KeysAssumption
    <3>2. Passed(call[k]) /\ info[call[k]].key = k => inflight[k].args = call[k]
      BY <1>1 DEF IInv, OwnEntryInv, Reportable
    <3> QED
      BY <1>1, <3>1, <3>2
  <2> QED
    BY <1>2, <2>1 DEF IInv, ReturnMatches, Passed
<1>12. StaleEntryOrigin'
  BY DEF IInv, StaleEntryOrigin, Used
<1>13. OwnEntryInv' /\ PassedInv'
  <2>1. \A j \in Keys \ {k} : pc'[j] = pc[j]
    BY DEF IInv, TypeOK
  <2> QED
    BY <2>1 DEF IInv, OwnEntryInv, PassedInv, Reportable, Passed
<1> QED
  BY <1>4, <1>5, <1>6, <1>7, <1>8, <1>9, <1>10, <1>11, <1>12, <1>13 DEF IInv

\* bpf_map_delete_elem, and the call is over.
LEMMA TraceExitDelete ==
  ASSUME IInv, NEW k \in Keys, trace_exit_delete(k)
  PROVE  IInv'
<1> USE NoneAssumption DEF trace_exit_delete, Ends
<1>1. call[k] \in Calls
  BY DEF IInv, TypeOK, CallInv
<1>2. TypeOK'
  BY <1>1 DEF IInv, TypeOK, Pc, Fate
<1>3. CpuInv' /\ CallInv'
  BY <1>1 DEF IInv, TypeOK, CpuInv, CallInv
<1>4. HistInv' /\ LinkInv'
  BY <1>1 DEF IInv, TypeOK, HistInv, LinkInv
<1>5. UpdateInv' /\ InflightInv'
  BY <1>1 DEF IInv, TypeOK, CallInv, UpdateInv, InflightInv, Describes
<1>6. EventInv' /\ SentInv'
  BY <1>1 DEF IInv, TypeOK, EventInv, SentInv
<1>7. EventFaithful' /\ ReportedOnce' /\ ReturnMatches'
  BY DEF IInv, EventFaithful, ReportedOnce, ReturnMatches, Passed
<1>8. RecordedReported'
  <2>1. fate[call[k]] = "open" /\ call[k] \in recorded =>
          \E e \in sent : e.args = call[k] /\ e.ret = call[k]
    BY <1>1 DEF IInv, InflightInv, EventInv
  <2> QED
    BY <1>1, <2>1 DEF IInv, TypeOK, CallInv, RecordedReported
<1>9. StaleEntryOrigin'
  BY <1>1 DEF IInv, TypeOK, CallInv, InflightInv, Describes, StaleEntryOrigin, Used
<1>10. OwnEntryInv' /\ PassedInv'
  <2>1. \A j \in Keys \ {k} :
          pc'[j] = pc[j] /\ call'[j] = call[j] /\ inflight'[j] = inflight[j]
    BY DEF IInv, TypeOK
  <2> QED
    BY <2>1 DEF IInv, TypeOK, OwnEntryInv, PassedInv, Reportable, Passed
<1> QED
  BY <1>2, <1>3, <1>4, <1>5, <1>6, <1>7, <1>8, <1>9, <1>10 DEF IInv

-----------------------------------------------------------------------------
\* What user space does.  A configuration is written before anything has been
\* recorded, so that no record was made under another one.
LEMMA UserStep ==
  ASSUME IInv, User
  PROVE  IInv'
<1> USE NoneAssumption, ConfigsAssumption
<1>1. ASSUME Unattached,
             \/ \E cfg \in Configs : write_config(cfg)
             \/ \E bitmap \in Filters : write_bitmap(bitmap)
      PROVE  IInv'
  <2> USE DEF write_config, write_bitmap, Unattached
  <2>1. TypeOK'
    BY <1>1 DEF IInv, TypeOK
  <2>2. CpuInv' /\ CallInv'
    BY <1>1 DEF IInv, CpuInv, CallInv
  <2>3. HistInv' /\ UpdateInv' /\ InflightInv'
    BY <1>1 DEF IInv, TypeOK, CallInv, LinkInv, HistInv, UpdateInv, InflightInv
  <2>4. EventInv' /\ SentInv'
    BY <1>1 DEF IInv, EventInv, SentInv
  <2>5. LinkInv'
    BY <1>1 DEF IInv, LinkInv, ZeroIn
  <2>6. EventFaithful' /\ ReportedOnce' /\ RecordedReported'
    BY <1>1 DEF IInv, EventFaithful, ReportedOnce, RecordedReported
  <2>7. StaleEntryOrigin'
    BY <1>1 DEF IInv, StaleEntryOrigin, Used
  <2>8. ReturnMatches'
    BY <1>1 DEF IInv, LinkInv, EventFaithful, ReturnMatches
  <2>9. OwnEntryInv' /\ PassedInv'
    <3>1. \A j \in Keys : inflight[j] = None
      BY <1>1 DEF IInv, LinkInv
    <3>2. \A n \in Calls : info[n] # None => info[n].link # "attached"
      BY <1>1 DEF IInv, LinkInv
    <3> QED
      BY <1>1, <3>1, <3>2 DEF OwnEntryInv, PassedInv, Passed
  <2> QED
    BY <2>1, <2>2, <2>3, <2>4, <2>5, <2>6, <2>7, <2>8, <2>9 DEF IInv
\* trace_exit is attached after trace_enter and detached before it.
<1>2. ASSUME NEW l \in {"enter", "exit"}, attach(l) \/ destroy(l),
             l = "exit" /\ link[l] = "none" => link["enter"] = "attached",
             l = "enter" /\ link[l] = "attached" => link["exit"] # "attached"
      PROVE  IInv'
  <2> USE DEF attach, destroy
  <2>1. TypeOK'
    BY <1>2 DEF IInv, TypeOK
  <2>2. LinkInv'
    BY <1>2 DEF IInv, TypeOK, LinkInv
  <2>3. CpuInv' /\ CallInv'
    BY <1>2 DEF IInv, CpuInv, CallInv
  <2>4. HistInv' /\ UpdateInv' /\ InflightInv'
    BY <1>2 DEF IInv, HistInv, UpdateInv, InflightInv, Describes
  <2>5. EventInv' /\ SentInv'
    BY <1>2 DEF IInv, EventInv, SentInv
  <2>6. EventFaithful' /\ ReportedOnce' /\ RecordedReported' /\ ReturnMatches'
    BY <1>2 DEF IInv, EventFaithful, ReportedOnce, RecordedReported, ReturnMatches, Passed
  <2>7. StaleEntryOrigin'
    BY <1>2 DEF IInv, StaleEntryOrigin, Used
  <2>8. OwnEntryInv' /\ PassedInv'
    BY <1>2 DEF IInv, TypeOK, LinkInv, OwnEntryInv, PassedInv, Reportable, Passed
  <2> QED
    BY <2>1, <2>2, <2>3, <2>4, <2>5, <2>6, <2>7, <2>8 DEF IInv
<1>3. CASE \/ attach("enter")
           \/ link["enter"] = "attached" /\ attach("exit")
           \/ destroy("exit")
           \/ link["exit"] # "attached" /\ destroy("enter")
  BY <1>2, <1>3 DEF attach, destroy
<1> QED
  BY <1>1, <1>3 DEF User

-----------------------------------------------------------------------------
\* IInv holds before any task exists and anything is attached.
LEMMA InitIInv == Init => IInv
<1> SUFFICES ASSUME Init PROVE IInv
  OBVIOUS
<1> USE NoneAssumption DEF Init, ZeroBitmap
<1>1. TypeOK
  BY DEF TypeOK, TraceConfig, ZeroConfig, FILTER_NONE, FILTER_PID, FILTER_COMM,
         Bitmaps, Pc, Fate, InflightSyscall, ZeroIn, SyscallEvent, ZeroEvent
<1>2. CpuInv /\ CallInv /\ HistInv /\ UpdateInv /\ InflightInv
  BY DEF CpuInv, CallInv, HistInv, UpdateInv, InflightInv
<1>3. EventInv /\ SentInv /\ LinkInv /\ OwnEntryInv /\ PassedInv
  BY DEF EventInv, SentInv, LinkInv, ZeroIn, OwnEntryInv, PassedInv, Passed
<1>4. /\ EventFaithful /\ ReportedOnce /\ RecordedReported /\ ReturnMatches
      /\ StaleEntryOrigin
  BY DEF EventFaithful, ReportedOnce, RecordedReported, ReturnMatches,
         StaleEntryOrigin, Used
<1> QED
  BY <1>1, <1>2, <1>3, <1>4 DEF IInv

\* Every step of the tasks, of the two programs and of user space preserves IInv.
LEMMA NextIInv == IInv /\ [Next]_vars => IInv'
<1> SUFFICES ASSUME IInv, [Next]_vars PROVE IInv'
  OBVIOUS
<1>1. ASSUME NEW k \in Keys, Task(k) PROVE IInv'
  <2>1. CASE \/ \E m \in Comms : task_create(k, m) \/ task_rename(k, m)
             \/ task_killed(k)
    BY <2>1, TaskOutside
  <2>2. CASE \E m \in Comms : task_exec(k, m)
    BY <2>2, TaskExec
  <2>3. CASE task_exit(k) \/ sys_exit_untraced(k)
    BY <2>3, TaskLeavesCall
  <2>4. CASE \E id \in Syscalls, n \in Calls : sys_enter_untraced(k, id, n)
    BY <2>4, SysEnterUntraced
  <2> QED
    BY <1>1, <2>1, <2>2, <2>3, <2>4 DEF Task
<1>2. ASSUME NEW k \in Keys, trace_enter(k) PROVE IInv'
  BY <1>2, SysEnterUntraced, TraceEnterFill, TraceEnterUpdate DEF trace_enter
<1>3. ASSUME NEW k \in Keys, trace_exit(k) PROVE IInv'
  BY <1>3, TaskLeavesCall, TraceExitFill, TraceExitOutput, TraceExitDelete
  DEF trace_exit
<1>4. CASE User
  BY <1>4, UserStep
<1>5. CASE UNCHANGED vars
  <2> USE <1>5 DEF vars
  <2>1. TypeOK' /\ CpuInv' /\ CallInv' /\ HistInv'
    BY DEF IInv, TypeOK, CpuInv, CallInv, HistInv
  <2>2. UpdateInv' /\ InflightInv' /\ EventInv' /\ SentInv' /\ LinkInv'
    BY DEF IInv, UpdateInv, InflightInv, Describes, EventInv, SentInv, LinkInv
  <2>3. /\ EventFaithful' /\ ReportedOnce' /\ RecordedReported' /\ ReturnMatches'
        /\ StaleEntryOrigin'
    BY DEF IInv, EventFaithful, ReportedOnce, RecordedReported, ReturnMatches,
           StaleEntryOrigin, Used, Passed
  <2>4. OwnEntryInv' /\ PassedInv'
    BY DEF IInv, OwnEntryInv, PassedInv, Reportable, Passed
  <2> QED
    BY <2>1, <2>2, <2>3, <2>4 DEF IInv
<1> QED
  BY <1>1, <1>2, <1>3, <1>4, <1>5 DEF Next

\* IInv holds in every state of the programs and their maps.
THEOREM InductiveInvariant == Spec => []IInv
  BY InitIInv, NextIInv, PTL DEF Spec

-----------------------------------------------------------------------------
\* An event never mixes two calls in the per-CPU scratch entries.
THEOREM EventsFaithful == Spec => []EventFaithful
<1>1. IInv => EventFaithful
  BY DEF IInv
<1> QED
  BY <1>1, InductiveInvariant, PTL

\* No call is reported twice and no return is used twice.
THEOREM EventsOnce == Spec => []ReportedOnce
<1>1. IInv => ReportedOnce
  BY DEF IInv
<1> QED
  BY <1>1, InductiveInvariant, PTL

\* A recorded call whose return trace_exit sees is reported with that return.
THEOREM NothingSkipped == Spec => []RecordedReported
<1>1. IInv => RecordedReported
  BY DEF IInv
<1> QED
  BY <1>1, InductiveInvariant, PTL

\* With an entry of inflight for every thread, every call that passes the filter
\* while trace_enter is attached and whose return trace_exit sees is reported: it
\* has been recorded (PassedInv; the task has left "update"), and what is recorded
\* and returns is reported.
THEOREM NothingMissed == Spec => []PassedReported
<1>1. IInv => PassedReported
  <2> SUFFICES ASSUME IInv, Cardinality(Keys) <= MaxInflight, NEW n \in Calls,
                      fate[n] = "returned", Passed(n), info[n].link = "attached"
      PROVE  \E e \in sent : e.args = n /\ e.ret = n
    BY DEF PassedReported
  <2>1. n \in recorded
    BY DEF IInv, PassedInv, UpdateInv
  <2> QED
    BY <2>1 DEF IInv, RecordedReported
<1> QED
  BY <1>1, InductiveInvariant, PTL

\* The return of a call that passed the filter is never shown with the arguments of
\* another call of its thread, at any capacity of the map.
THEOREM ReturnsMatch == Spec => []ReturnMatches
<1>1. IInv => ReturnMatches
  BY DEF IInv
<1> QED
  BY <1>1, InductiveInvariant, PTL

\* The ways in which an entry outlives its call are the three known ones.
THEOREM StaleEntries == Spec => []StaleEntryOrigin
<1>1. IInv => StaleEntryOrigin
  BY DEF IInv
<1> QED
  BY <1>1, InductiveInvariant, PTL

\* Only calls that passed the filter as they were entered are reported: what is
\* sent was recorded (EventFaithful), and what is recorded was admitted under
\* the configuration that is still in force (HistInv).
THEOREM FilterHolds == Spec => []FilterRespected
<1>1. IInv => FilterRespected
  BY DEF IInv, TypeOK, EventFaithful, HistInv, FilterRespected
<1> QED
  BY <1>1, InductiveInvariant, PTL

=============================================================================
