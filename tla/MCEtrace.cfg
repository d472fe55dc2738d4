CONSTANTS
  Keys <- TwoProcesses
  Cpus = {c1, c2, c3}
  RingCpus = {c1, c2}
  Slots = 2
  Comms = {m1}
  Syscalls = {0, 1}
  NoReturn = {2}
  Execve = {3}
  Calls = {n1, n2}
  MaxInflight = 2
  MAX_SYSCALLS = 4
  SYSCALL_WORD_BITS = 2
  Configs <- PidRead
  Filters <- ReadBit
  None = None
SPECIFICATION ESpec
INVARIANTS
  ShownWanted
  NothingLeft
  SuccessIsComplete
PROPERTIES
  ImplementsProbes
  StopsOnSignal
  EventuallyRead
