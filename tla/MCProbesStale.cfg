CONSTANTS
  Keys <- Threads
  Cpus = {c1}
  Comms = {m1}
  Syscalls = {0, 1, 2, 3}
  NoReturn = {2}
  Execve = {3}
  Calls = {n1, n2, n3}
  MaxInflight = 1
  MAX_SYSCALLS = 4
  SYSCALL_WORD_BITS = 2
  Configs <- PidSome
  Filters <- SomeBits
  None = None
SYMMETRY MCSymmetry
SPECIFICATION Spec
INVARIANTS
  ReportedOnce
  RecordedReported
  ReturnMatches
  StaleEntryOrigin
