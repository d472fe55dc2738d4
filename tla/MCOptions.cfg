SPECIFICATION OSpec
CONSTANTS
  Argvs <- MCArgvs
  Comma = ","
  Blank = " "
  COMM_LEN = 6
  MaxPid = 2
  MAX_SYSCALLS = 4
  SYSCALL_WORD_BITS = 2
  syscall_tables_64 <- Tables64
  syscall_tables_32 <- Tables32
  NoText = NoText
  FilterLen = 6
  ArgvLen = 3
INVARIANTS OTypeOK CommandMeaning Whitelist EnabledAllowed ValidAccepted
PROPERTY OptionsEnd
CHECK_DEADLOCK FALSE
