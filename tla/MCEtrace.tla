------------------------------ MODULE MCEtrace ------------------------------
(***************************************************************************)
(* Small instances of Etrace for TLC.                                      *)
(***************************************************************************)
EXTENDS Etrace

read  == 0
write == 1

OneProcess   == {<<1, 1>>}
TwoProcesses == {<<1, 1>>, <<3, 3>>}

\* -p 1 -e read
PidRead == {[filter_type |-> FILTER_PID, target_pid |-> 1, target_comm |-> None,
             syscall_filter_enabled |-> TRUE, print_stack_enabled |-> FALSE]}
ReadBit == {[w \in Words |-> {b \in Bits : w * SYSCALL_WORD_BITS + b = read}]}
=============================================================================
