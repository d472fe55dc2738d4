------------------------------ MODULE MCProbes ------------------------------
(***************************************************************************)
(* Small instances of Probes for TLC: a process with two threads, and four *)
(* system calls in two bitmap words.                                       *)
(***************************************************************************)
EXTENDS Probes, TLC

read   == 0
write  == 1
exit   == 2
execve == 3

\* One process with two threads.
Threads == {<<1, 1>>, <<1, 2>>}

ByPid(p, e, s) == [filter_type |-> FILTER_PID, target_pid |-> p,
                   target_comm |-> None, syscall_filter_enabled |-> e,
                   print_stack_enabled |-> s]

\* -p 1 -s
PidStack == {ByPid(1, FALSE, TRUE)}
AllBits  == {[w \in Words |-> Bits]}

\* -p 1
Pid == {ByPid(1, FALSE, FALSE)}

\* -p 1 -e read,exit,execve
PidSome  == {ByPid(1, TRUE, FALSE)}
SomeBits == {[w \in Words |-> {b \in Bits : w * SYSCALL_WORD_BITS + b # write}]}

MCSymmetry == Permutations(Cpus) \cup Permutations(Calls)

=============================================================================
