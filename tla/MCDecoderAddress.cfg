SPECIFICATION HSafety
CONSTANTS
  Starts <- MapStarts
  Memories <- MCMemories
  PageSize = 4
  Pages = {0, 1, 2, 3}
  Cells = {0, 8}
  calls <- MCCalls
  syscall_tables <- MCTables
  max_string = 3
  max_buffer = 3
  max_array = 2
  dereference = TRUE
  symbolic = TRUE
  CHUNK = 2
  MaxErrno = 3
  Word32 = 32
  TagSpan = 256
  ModeSpan = 8
  AT_FDCWD <- FDCWD
  O_CREAT = 8
  open_flags <- OpenTable
  prot_flags <- ProtTable
  map_flags <- MapTable
  IOC <- Fields
  Signals = {1, 9}
  BpfCmds = {0, 1}
  FcntlCmds = {0, 1, 2, 3, 4}
  F_GETFD = 1
  F_GETFL = 3
  FLocks = {5}
  SOCKET_WORDS = 3
  SOCKADDR = 4
  AF_INET = 2
  AF_UNIX = 1
  InetSize = 2
  None = None
  Names = {"f", "g", "h", "main", "x"}
  Symbols <- MCSymbols
  MaxChanges = 1
  cap = 6
INVARIANT AddressWidth
CHECK_DEADLOCK FALSE
