---------------------------- MODULE SyscallBitmap ----------------------------
(***************************************************************************)
(* The map syscall_bitmap, an array of 64-bit words: how user space sets   *)
(* the bits (src/src/mini_etrace.c) and how trace_enter tests them         *)
(* (src/src/mini_etrace.bpf.c).  A word is the set of its bits that are 1. *)
(***************************************************************************)
EXTENDS Integers

CONSTANTS MAX_SYSCALLS, SYSCALL_WORD_BITS

ASSUME BitmapAssumption ==
  /\ MAX_SYSCALLS \in Nat
  /\ SYSCALL_WORD_BITS \in Nat \ {0}
  /\ MAX_SYSCALLS = SYSCALL_WORD_BITS * (MAX_SYSCALLS \div SYSCALL_WORD_BITS)

Words == 0 .. (MAX_SYSCALLS \div SYSCALL_WORD_BITS) - 1
Bits  == 0 .. SYSCALL_WORD_BITS - 1

Bitmaps == [Words -> SUBSET Bits]

\* The test of trace_enter.
syscall_allowed(bitmap, id) ==
  /\ id >= 0
  /\ id < MAX_SYSCALLS
  /\ id % SYSCALL_WORD_BITS \in bitmap[id \div SYSCALL_WORD_BITS]

\* Mutant: the word is overwritten instead of read and or-ed.
syscall_filter_add_overwrite(bitmap, id) ==
  [bitmap EXCEPT ![id \div SYSCALL_WORD_BITS] = {id % SYSCALL_WORD_BITS}]

\* What syscall_filter_add writes: the word of id with the bit of id set.
syscall_filter_add(bitmap, id) ==
  [bitmap EXCEPT ![id \div SYSCALL_WORD_BITS] = @ \cup {id % SYSCALL_WORD_BITS}]

\* Mutant: all ones in a 32-bit value.
set_all_word_half(bitmap, w) ==
  [bitmap EXCEPT ![w] = {b \in Bits : b < SYSCALL_WORD_BITS \div 2}]

\* What one iteration of set_all_syscall writes.
set_all_word(bitmap, w) == [bitmap EXCEPT ![w] = Bits]

ZeroBitmap == [w \in Words |-> {}]
=============================================================================
