CONSTANTS
  Keys <- Processes
  Cpus = {c1}
  RingCpus = {c1}
  Slots = 2
  Comms <- TwoNames
  Syscalls = {0, 1}
  NoReturn = {2}
  Execve = {3}
  Calls = {n1}
  MaxInflight = 2
  MAX_SYSCALLS = 4
  SYSCALL_WORD_BITS = 2
  Configs <- MCConfigs
  Filters <- Bitmaps
  None = None
  Argvs <- MCArgvs
  Comma = ","
  Blank = " "
  COMM_LEN = 6
  MaxPid = 2
  syscall_tables_64 <- Tables64
  syscall_tables_32 <- Tables32
  NoText = NoText
SPECIFICATION TSpec
INVARIANTS ShownAsked FilterRespected
PROPERTIES ImplementsEtrace Started
CHECK_DEADLOCK FALSE
