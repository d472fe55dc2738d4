CONSTANTS
  Keys <- Threads
  Cpus = {c1, c2}
  Comms = {m1}
  Syscalls = {0, 1}
  NoReturn = {2}
  Execve = {3}
  Calls = {n1, n2, n3}
  MaxInflight = 2
  MAX_SYSCALLS = 4
  SYSCALL_WORD_BITS = 2
  Configs <- PidStack
  Filters <- AllBits
  None = None
SYMMETRY MCSymmetry
SPECIFICATION Spec
INVARIANTS
  EventFaithful
  PassedReported
