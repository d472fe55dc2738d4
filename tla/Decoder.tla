------------------------------- MODULE Decoder -------------------------------
(***************************************************************************)
(* The decoder (src/src/sysdecode.c) at work on one event: the arguments   *)
(* are printed one after the other, what they point to is read from the    *)
(* memory of the process with the caller's pid, and meanwhile that process *)
(* runs on: it may write, unmap, exit, and leave its pid to another one.   *)
(*                                                                         *)
(* Memory is an array of cells; a byte of a string, a pointer, a length    *)
(* and a member of a structure take a cell each.  The output is a sequence *)
(* of tokens: a number is its sign and value as printed, base, padding and *)
(* punctuation are left out, except for the bar that joins flags.  What is *)
(* left to print is a list of jobs (todo): the calls on the stack of the   *)
(* code.                                                                   *)
(***************************************************************************)
EXTENDS OutBuf, FiniteSetsExt, SequencesExt

CONSTANTS
  Starts,       \* the events, each with the memory the caller has when it is printed,
                \* and whether its stack is to be printed (-s)
  Memories,     \* the contents the memory of a process may have
  PageSize, Pages,    \* cells per page; the pages there are
  Cells,        \* what a cell may hold
  calls,        \* the table of the decoder: name -> argument descriptions
  max_string, max_buffer, max_array,  \* the options of the parser
  dereference,  \* option: look at memory
  symbolic,     \* option: names instead of numbers
  CHUNK,        \* the step in which strings are read: 32 in the code
  MaxErrno,     \* 4095 in the code
  Word32,       \* 2^32 in the code
  TagSpan,      \* 2^56 in the code: an AArch64 address without its tag
  ModeSpan,     \* 07777 + 1 in the code
  AT_FDCWD,     \* -100 in the code
  O_CREAT,
  open_flags, prot_flags, map_flags,  \* the bits with a name, in the order of the code
  IOC,          \* how many values nr, type and size of an ioctl request have
  Signals, BpfCmds, FcntlCmds,  \* the numbers that have a name
  F_GETFD, F_GETFL, FLocks,     \* fcntl commands; the ones about record locks
  SOCKET_WORDS, \* words the decoder reads for socketcall: 6 in the code
  syscall_tables,  \* ABI -> number -> [name, nargs]: the generated tables
  SOCKADDR,     \* cells of a struct sockaddr_storage
  AF_INET, AF_UNIX, InetSize,   \* families, and cells of a struct sockaddr_in
  None,
  MaxChanges    \* bounds the steps of the process

VARIABLES
  ev,        \* the event
  todo,      \* the jobs left
  mem,       \* cells of the process that has the pid now: address -> contents
  mapped,    \* its pages that are mapped
  owner,     \* that process: the "caller", "gone" (none), or an "other" one
  changes,   \* history: steps the process made meanwhile, and failures of malloc
  foreign    \* history: memory of the other process has been read

procVars == <<mem, mapped, owner, changes>>
dvars    == <<outVars, ev, todo, procVars, foreign>>

Addrs == 0 .. PageSize * Cardinality(Pages) - 1

\* The pages are numbered from 0.
ASSUME MemoryAssumption ==
  /\ PageSize \in Nat \ {0}
  /\ IsFiniteSet(Pages) /\ Pages = 0 .. Cardinality(Pages) - 1
  /\ Cells \subseteq Nat
ASSUME OptionsAssumption ==
  /\ dereference \in BOOLEAN /\ symbolic \in BOOLEAN
  /\ {max_string, max_buffer, max_array, MaxChanges} \subseteq Nat
ASSUME SpansAssumption ==
  /\ {CHUNK, Word32, TagSpan, ModeSpan, O_CREAT} \subseteq Nat \ {0}
  /\ {MaxErrno, SOCKET_WORDS, SOCKADDR, InetSize} \subseteq Nat
  /\ {AT_FDCWD, AF_INET, AF_UNIX} \subseteq Int
  /\ IOC \in [nr : Nat \ {0}, type : Nat \ {0}, size : Nat \ {0}]
  /\ Word32 % (IOC.nr * IOC.type * IOC.size) = 0
ASSUME FlagsAssumption == {open_flags, prot_flags, map_flags} \subseteq Seq(Nat \ {0})

\* An event as the BPF programs send it: registers hold unsigned words; and what a
\* process may have in its memory.
Event  == [syscall_id : Int, ret : Int, abi : {32, 64}, args : [1 .. 6 -> Nat],
           stack : Seq(Nat)]
Memory == [mem : [Addrs -> Nat], mapped : SUBSET Pages]
ASSUME StartsAssumption ==
  /\ \A st \in Starts : st.event \in Event /\ st.memory \in Memory
  /\ Memories \subseteq Memory
\* The registers of a 32-bit process have 32 bits, and no process has the last page of
\* its address space: the kernel keeps it.
ASSUME SpaceAssumption ==
  \A st \in Starts :
    /\ st.event.abi = 32 => \A i \in 1 .. 6 : st.event.args[i] < Word32
    /\ \A p \in st.memory.mapped :
         (p + 1) * PageSize < IF st.event.abi = 32 THEN Word32 ELSE TagSpan

-----------------------------------------------------------------------------
(***************************************************************************)
(* Values.                                                                 *)
(***************************************************************************)

Word64 == Word32 * Word32

\* A register of w values, read as a signed number.
Signed(v, w) == LET r == v % w IN IF 2 * r >= w THEN r - w ELSE r

\* ptr_value and sd_normalize_arg: the width of a register of the ABI.
ptr_value(v) == IF ev.abi = 32 THEN v % Word32 ELSE v
read_addr(v) == IF ev.abi = 64 THEN v % TagSpan ELSE ptr_value(v)

\* The return value as the decoder sees it: the register of a 32-bit process is
\* a signed word.
retval == Signed(ev.ret, IF ev.abi = 32 THEN Word32 ELSE Word64)

is_error == retval < 0 /\ retval >= -MaxErrno
returned == IF retval > 0 THEN retval ELSE 0

Least(a, b) == IF a < b THEN a ELSE b

\* The reader, process_vm_readv: the cells from a on, up to n of them or to the
\* first one in a page that is not mapped.  <<>> is a failure.
read(a, n) ==
  LET ok(k) == \A i \in a .. a + k - 1 : owner # "gone" /\ (i \div PageSize) \in mapped
      got   == Max({k \in 0 .. n : ok(k)})
  IN [i \in 1 .. got |-> mem[a + i - 1]]

read_mem(v, n) == IF ~dereference \/ v = 0 THEN <<>> ELSE read(read_addr(v), n)

\* Where the first 0 is, or 0.
FirstNul(s) == SelectInSeq(s, LAMBDA c : c = 0)

-----------------------------------------------------------------------------
(***************************************************************************)
(* Tokens and jobs.                                                        *)
(***************************************************************************)

Tok(t, v)  == [t |-> t, v |-> v]
Ptr(v)     == IF ptr_value(v) = 0 THEN <<Tok("NULL", 0)>>
              ELSE <<Tok("ptr", ptr_value(v))>>
Mark(m)    == <<Tok(m, 0)>>
Quoted(s, more) ==
  Mark("quote") \o [i \in 1 .. Len(s) |-> Tok("byte", s[i])]
  \o Mark(IF more THEN "end..." ELSE "end")

\* A job: what to print, the value it is about and a count.  A job that is taken
\* up again has come as far as i, or has read got; lim is the data it may still
\* show, if it may show any.
Job(k, v, n) == [k |-> k, v |-> v, n |-> n, i |-> 0, got |-> <<>>, lim |-> 0,
                 show |-> TRUE]

\* buffer_count.
Count(aux, output) ==
  IF output /\ ~is_error THEN Least(returned, ev.args[aux]) ELSE ev.args[aux]

\* The kinds of arguments: the ones that are not followed, and the ones that are; in
\* the last set those that have another register with them.
ValueKinds == {"word", "int", "long", "dirfd", "mode", "open", "prot", "map", "sig",
               "bpf_cmd", "fcntl_cmd", "socket_call", "ioc", "pair", "ptr"}
PairedKinds == {"buf_in", "buf_out", "iov_in", "iov_out", "sockaddr", "how", "clone_args",
                "pair"}
ArgKinds == ValueKinds \cup PairedKinds
            \cup {"str", "strv", "timespec", "timespec_out", "socket_words"}

\* An argument to print: its kind, the register it is in, and the register that
\* goes with it (a length, or the other half of a pair).
Arg(k, r)       == [kind |-> k, arg |-> r, aux |-> 0]
ArgAux(k, r, x) == [kind |-> k, arg |-> r, aux |-> x]

ArgDesc == {d \in [kind : ArgKinds, arg : 1 .. 6, aux : 0 .. 6] :
              d.kind \in PairedKinds => d.aux # 0}
ASSUME TablesAssumption ==
  /\ \A c \in DOMAIN calls :
       /\ calls[c] \in Seq(ArgDesc)
       /\ \A i \in DOMAIN calls[c] : calls[c][i].arg = i /\ calls[c][i].kind # "pair"
  /\ \A abi \in {32, 64} : \A n \in DOMAIN syscall_tables[abi] :
       syscall_tables[abi][n].nargs \in 0 .. 6

\* print_arg: the job for one argument.
ArgJob(d) ==
  LET v == ev.args[d.arg] IN
  CASE d.kind = "buf_in"  -> Job("buffer", v, Count(d.aux, FALSE))
    [] d.kind = "buf_out" -> IF is_error THEN Job("ptr", v, 0)
                             ELSE Job("buffer", v, Count(d.aux, TRUE))
    [] d.kind = "iov_in"  -> [Job("iov", v, Least(ev.args[d.aux], max_array))
                                EXCEPT !.lim = max_buffer]
    [] d.kind = "iov_out" -> [Job("iov", v, Least(ev.args[d.aux], max_array))
                                EXCEPT !.lim = returned, !.show = ~is_error]
    [] d.kind = "timespec_out" -> Job(IF is_error THEN "ptr" ELSE "timespec", v, 0)
    [] d.kind = "sockaddr" -> Job("sockaddr", v, ev.args[d.aux])
    [] d.kind \in {"how", "clone_args"} -> Job(d.kind, v, ptr_value(ev.args[d.aux]))
    [] d.kind = "pair" -> Job("pair", v, ev.args[d.aux])
    [] OTHER -> Job(d.kind, v, 0)

\* The name of the call, or None if the number has no entry (syscall_%u).
syscall_table_lookup(id) ==
  IF id \in DOMAIN syscall_tables[ev.abi] THEN syscall_tables[ev.abi][id]
  ELSE [name |-> None, nargs |-> 6]
call_name == syscall_table_lookup(ev.syscall_id).name

\* Mutant: the two halves of an offset follow the other arguments without a hole.
Aligned64Packed ==
  [pread64     |-> <<Arg("int", 1), ArgAux("buf_out", 2, 3), Arg("word", 3), ArgAux("pair", 4, 5)>>,
   pwrite64    |-> <<Arg("int", 1), ArgAux("buf_in", 2, 3), Arg("word", 3), ArgAux("pair", 4, 5)>>,
   readahead   |-> <<Arg("int", 1), ArgAux("pair", 2, 3), Arg("word", 4)>>,
   truncate64  |-> <<Arg("str", 1), ArgAux("pair", 2, 3)>>,
   ftruncate64 |-> <<Arg("int", 1), ArgAux("pair", 2, 3)>>]

\* The calls of the 32-bit ABI that have a 64-bit argument, in two registers.
Aligned64 ==
  [pread64     |-> <<Arg("int", 1), ArgAux("buf_out", 2, 3), Arg("word", 3), ArgAux("pair", 5, 6)>>,
   pwrite64    |-> <<Arg("int", 1), ArgAux("buf_in", 2, 3), Arg("word", 3), ArgAux("pair", 5, 6)>>,
   readahead   |-> <<Arg("int", 1), ArgAux("pair", 3, 4), Arg("word", 5)>>,
   truncate64  |-> <<Arg("str", 1), ArgAux("pair", 3, 4)>>,
   ftruncate64 |-> <<Arg("int", 1), ArgAux("pair", 3, 4)>>]

\* print_fcntl: some commands have no third argument, others a pointer.
FcntlArgs ==
  LET cmd == Signed(ev.args[2], Word32) IN
  <<Arg("int", 1), Arg("fcntl_cmd", 2)>>
  \o (IF cmd \in {F_GETFD, F_GETFL} THEN <<>>
      ELSE <<Arg(IF cmd \in FLocks THEN "ptr" ELSE "word", 3)>>)

\* The calls with a printer of their own.
Special ==
  [ioctl   |-> <<Arg("long", 1), Arg("ioc", 2), Arg("ptr", 3)>>,
   bpf     |-> <<Arg("bpf_cmd", 1), Arg("ptr", 2), Arg("word", 3)>>,
   openat2 |-> <<Arg("dirfd", 1), Arg("str", 2), ArgAux("how", 3, 4), Arg("word", 4)>>,
   clone3  |-> <<ArgAux("clone_args", 1, 2), Arg("word", 2)>>]

\* The arguments of a call in the table: the mode of open and openat, their last one,
\* is left out without O_CREAT (its aux is the register with the flags).
TableArgs(ds) ==
  IF /\ ds # <<>> /\ Last(ds).kind = "mode" /\ Last(ds).aux > 0
     /\ (ev.args[Last(ds).aux] \div O_CREAT) % 2 = 0
  THEN Front(ds) ELSE ds

\* The arguments printed.  A call the decoder does not know has as many words as
\* the table says.
Args ==
  IF ev.abi = 32 /\ call_name \in DOMAIN Aligned64 THEN Aligned64[call_name]
  ELSE IF call_name \in DOMAIN Special THEN Special[call_name]
  ELSE IF call_name \in {"fcntl", "fcntl64"} THEN FcntlArgs
  ELSE IF ev.abi = 32 /\ call_name = "socketcall"
  THEN <<Arg("socket_call", 1), Arg("socket_words", 2)>>
  ELSE IF call_name \in DOMAIN calls
  THEN TableArgs(calls[call_name])
  ELSE [i \in 1 .. syscall_table_lookup(ev.syscall_id).nargs |-> Arg("word", i)]

\* What decode_with_table prints for the event; nothing if syscall_parse_event
\* refuses it.
Jobs ==
  IF ev.syscall_id < 0 THEN <<>>
  ELSE <<Job("head", ev.syscall_id, 0)>>
       \o [i \in 1 .. Len(Args) |-> ArgJob(Args[i])]
       \o <<Job("result", ev.ret, 0)>>

-----------------------------------------------------------------------------
(***************************************************************************)
(* The printers.  Each action is about the first job.                      *)
(***************************************************************************)

Doing(k) == todo # <<>> /\ Head(todo).k = k
job == Head(todo)

\* The job is done when s is printed.
Emit(s) == out_printf(s) /\ todo' = Tail(todo)

\* s is printed, and the jobs js take the place of the job.
EmitThen(s, js) == out_printf(s) /\ todo' = js \o Tail(todo)

\* A read returned got.
Reads(got) == foreign' = (foreign \/ (owner = "other" /\ got # <<>>))

NoRead == UNCHANGED <<ev, procVars, foreign>>

\* One iteration of the loop of print_flags and print_open_flags, on the bit f: what
\* has been found, and what is left.
TakeBit(acc, f) ==
  IF (acc.rest \div f) % 2 = 1
  THEN [bits |-> Append(acc.bits, f), rest |-> acc.rest - f] ELSE acc

\* The loop over a table of bits.
Named(v, table) ==
  LET found[i \in 0 .. Len(table)] ==
        IF i = 0 THEN [bits |-> <<>>, rest |-> v] ELSE TakeBit(found[i - 1], table[i])
  IN found[Len(table)]

Bars(bits) == [i \in 1 .. Len(bits) |-> Tok("|flag", bits[i])]

\* print_flags.
Flags(v, table) ==
  LET n == Named(v, table) IN
  CASE ~symbolic -> <<Tok("word", v)>>
    [] symbolic /\ n.bits = <<>> -> <<Tok("word", n.rest)>>
    [] OTHER -> <<Tok("flag", n.bits[1])>> \o Bars(Tail(n.bits))
                \o (IF n.rest > 0 THEN <<Tok("|word", n.rest)>> ELSE <<>>)

\* print_open_flags: the access mode is a number of two bits, the rest are flags.
\* (Entries for access modes are skipped; their bits are not in the rest.)
OpenFlags(v) ==
  LET access == v % 4
      n      == Named(v - access, open_flags)
  IN IF ~symbolic THEN <<Tok("word", v)>>
     ELSE <<Tok(IF access = 3 THEN "word" ELSE "access", access)>> \o Bars(n.bits)
          \o (IF n.rest > 0 THEN <<Tok("|word", n.rest)>> ELSE <<>>)

\* print_ioctl: the fields of the request.
Ioc(v) ==
  LET type == v \div IOC.nr
      size == type \div IOC.type
      dir  == size \div IOC.size
  IN <<Tok("dir", dir % (Word32 \div (IOC.nr * IOC.type * IOC.size))),
       Tok("|type", type % IOC.type), Tok("|nr", v % IOC.nr), Tok("|size", size % IOC.size)>>

\* A number that has a name if it is one of names.
Number(v, names) == <<Tok(IF symbolic /\ v \in names THEN "name" ELSE "word", v)>>

\* The signal is looked up as an int, and printed whole if it has no name.
print_signal(v) ==
  <<IF symbolic /\ v % Word32 \in Signals THEN Tok("name", v % Word32) ELSE Tok("word", v)>>

\* The two registers of a 64-bit argument, the lower half first.
arm_eabi_u64(first, second) == (first % Word32) + (second % Word32) * Word32

\* The command of fcntl.
fcntl_cmd(v) == Number(Signed(v, Word32), FcntlCmds)

\* print_result.
ResultText ==
  IF is_error THEN <<Tok("errno", retval)>>
  ELSE IF call_name \in {"mmap", "mmap2", "brk"} THEN <<Tok("addr", retval % Word64)>>
  ELSE <<Tok("ret", retval)>>

\* The arguments that are not followed: print_arg, print_dirfd, print_bpf, print_fcntl
\* and the first one of print_socketcall.
ValueText(k, v, n) ==
  CASE k = "word" -> <<Tok("word", ptr_value(v))>>
    [] k = "int"  -> <<Tok("int", Signed(v, Word32))>>
    [] k = "long" -> <<Tok("int", Signed(v, IF ev.abi = 32 THEN Word32 ELSE Word64))>>
    [] k = "dirfd" -> Number(Signed(v, Word32), {AT_FDCWD})
    [] k = "mode" -> <<Tok("word", v % ModeSpan)>>
    [] k = "open" -> OpenFlags(v)
    [] k = "prot" -> Flags(v, prot_flags)
    [] k = "map"  -> Flags(v, map_flags)
    [] k = "sig"  -> print_signal(v)
    [] k = "bpf_cmd" -> Number(ptr_value(v), BpfCmds)
    [] k = "fcntl_cmd" -> fcntl_cmd(v)
    [] k = "socket_call" -> Mark("name")
    [] k = "ioc"  -> Ioc(ptr_value(v))
    [] k = "pair" -> <<Tok("word", arm_eabi_u64(v, n))>>
    [] k = "ptr"  -> Ptr(v)

print_value ==
  /\ todo # <<>>
  /\ \/ Doing("head") /\ Emit(<<Tok("call", job.v)>>)
     \/ job.k \in ValueKinds /\ Emit(ValueText(job.k, job.v, job.n))
     \/ Doing("result") /\ Emit(ResultText)
  /\ NoRead

\* malloc fails in print_cstring or print_buffer.
malloc_fails ==
  /\ Doing("str") \/ (Doing("buffer") /\ job.n > 0 /\ max_buffer > 0)
  /\ job.v # 0 /\ dereference
  /\ changes < MaxChanges
  /\ changes' = changes + 1
  /\ Emit(Ptr(job.v))
  /\ UNCHANGED <<ev, mem, mapped, owner, foreign>>

MaxStr == IF max_string = 0 THEN 1 ELSE max_string

print_cstring ==
  /\ Doing("str")
  /\ \/ /\ job.v = 0 \/ ~dereference
        /\ Emit(Ptr(job.v))
     \/ /\ job.v # 0 /\ dereference
        /\ EmitThen(<<>>, <<Job("chars", job.v, 0)>>)
  /\ NoRead

\* Mutant: every chunk has the full size.
ChunkFull(used) == CHUNK

Chunk(used) == Least(CHUNK, MaxStr - used)

\* Mutant: every chunk is read from the beginning of the string.
ChunkAddrStart(j) == j.v

ChunkAddr(j) == j.v + Len(j.got)

\* What print_cstring prints of the string s it has read.
StringText(v, s, terminated) ==
  IF s = <<>> /\ ~terminated THEN Ptr(v) \o Mark("unreadable")
  ELSE Quoted(s, ~terminated)

\* Mutant: a read that fails is tried again.
ReadEndsRetry(got, chunk) == got # <<>> /\ Len(got) < chunk

\* A read that fails, and one that does not fill its chunk, end the loop.
ReadEnds(got, chunk) == Len(got) < chunk

\* One iteration of the loop of print_cstring; when it ends the string is printed.
string_read ==
  LET used  == Len(job.got)
      chunk == Chunk(used)
      got   == read_mem(ChunkAddr(job), chunk)
      nul   == FirstNul(got)
      all   == job.got \o got
  IN /\ Doing("chars")
     /\ \/ /\ nul > 0
           /\ Emit(StringText(job.v, job.got \o SubSeq(got, 1, nul - 1), TRUE))
        \/ /\ nul = 0
           /\ ReadEnds(got, chunk) \/ Len(all) >= MaxStr
           /\ Emit(StringText(job.v, all, FALSE))
        \/ /\ nul = 0
           /\ ~ReadEnds(got, chunk) /\ Len(all) < MaxStr
           /\ EmitThen(<<>>, <<[job EXCEPT !.got = all]>>)
     /\ Reads(got)
     /\ UNCHANGED <<ev, procVars>>

\* print_buffer; job.n is what is requested.
print_buffer ==
  LET want == Least(job.n, max_buffer)
      got  == read_mem(job.v, want)
  IN /\ Doing("buffer")
     /\ \/ /\ job.v = 0 \/ ~dereference
           /\ Emit(Ptr(job.v))
           /\ UNCHANGED foreign
        \/ /\ job.v # 0 /\ dereference
           /\ want = 0
           /\ Emit(Quoted(<<>>, FALSE))
           /\ UNCHANGED foreign
        \/ /\ job.v # 0 /\ dereference
           /\ want > 0
           /\ Emit(IF got = <<>> THEN Ptr(job.v) \o Mark("unreadable")
                    ELSE Quoted(got, job.n > Len(got)))
           /\ Reads(got)
     /\ UNCHANGED <<ev, procVars>>

\* print_strv: before the loop, and one iteration of it.
print_strv ==
  LET got == read_mem(job.v + job.i, 1)
      p   == ptr_value(got[1])
  IN /\ Doing("strv")
     /\ \/ /\ job.v = 0 \/ ~dereference
           /\ Emit(Ptr(job.v))
           /\ UNCHANGED foreign
        \/ /\ job.v # 0 /\ dereference /\ job.i = max_array
           /\ Emit(Mark("..."))
           /\ UNCHANGED foreign
        \/ /\ job.v # 0 /\ dereference /\ job.i < max_array
           /\ \/ got = <<>> /\ Emit(Mark("... unreadable"))
              \/ got # <<>> /\ p = 0 /\ Emit(<<>>)
              \/ /\ got # <<>> /\ p # 0
                 /\ EmitThen(<<>>, <<Job("str", p, 0), [job EXCEPT !.i = @ + 1]>>)
           /\ Reads(got)
     /\ UNCHANGED <<ev, procVars>>

\* Mutant: the limit is not reduced by what an element shows.
LimitLeftAll(lim, shown) == lim

LimitLeft(lim, shown) == IF lim > shown THEN lim - shown ELSE 0

\* print_iov: before the loop, and one iteration of it.
print_iov ==
  LET got   == read_mem(job.v + 2 * job.i, 2)
      base  == ptr_value(got[1])
      size  == ptr_value(got[2])
      shown == Least(size, job.lim)
  IN /\ Doing("iov")
     /\ \/ /\ job.v = 0 \/ ~dereference
           /\ Emit(Ptr(job.v))
           /\ UNCHANGED foreign
        \/ /\ job.v # 0 /\ dereference /\ job.i = job.n
           /\ Emit(<<>>)
           /\ UNCHANGED foreign
        \/ /\ job.v # 0 /\ dereference /\ job.i < job.n
           /\ \/ Len(got) < 2 /\ Emit(Mark("... unreadable"))
              \/ /\ Len(got) = 2
                 /\ EmitThen(<<>>, <<IF job.show THEN Job("buffer", base, shown)
                                     ELSE Job("ptr", base, 0),
                                     Job("word", size, 0),
                                     [job EXCEPT !.i = @ + 1,
                                                 !.lim = LimitLeft(@, shown)]>>)
           /\ Reads(got)
     /\ UNCHANGED <<ev, procVars>>

\* The cells of an object of n cells, if all of them can be read.
Words(s) == [i \in 1 .. Len(s) |-> Tok("word", s[i])]

print_timespec ==
  LET got == read_mem(job.v, 2) IN
  /\ Doing("timespec")
  /\ Emit(IF job.v # 0 /\ Len(got) = 2 THEN Words(got) ELSE Ptr(job.v))
  /\ Reads(got)
  /\ UNCHANGED <<ev, procVars>>

\* How many members print_openat2 and print_clone3 know.
Known(k) == IF k = "how" THEN 3 ELSE 11

\* The members of a struct clone_args that are shown if size are there: stack and
\* stack_size, and set_tid and set_tid_size, come together.
CloneMembers(size) ==
  SubSeq(<<1, 5, 6, 7, 8, 9, 10, 11>>, 1,
         IF size = 11 THEN 8 ELSE IF size = 10 THEN 7 ELSE IF size >= 8 THEN 5
         ELSE IF size = 7 THEN 4 ELSE IF size >= 5 THEN 2 ELSE 1)

\* The members got of the structure: flags, mode and resolve of a struct open_how, or
\* the ones of clone_args.
StructText(k, got) ==
  IF k = "how"
  THEN OpenFlags(got[1])
       \o [i \in 1 .. Len(got) - 1 |->
             Tok("word", IF i = 1 THEN got[2] % ModeSpan ELSE got[i + 1])]
  ELSE [i \in 1 .. Len(CloneMembers(Len(got))) |->
          Tok("word", got[CloneMembers(Len(got))[i]])]

\* The struct argument of openat2 or clone3; job.n is the size the caller gave.
print_struct ==
  LET size  == Least(job.n, Known(job.k))
      got   == read_mem(job.v, size)
  IN /\ Doing("how") \/ Doing("clone_args")
     /\ Emit(IF size > 0 /\ Len(got) = size
              THEN StructText(job.k, got) \o (IF job.n > size THEN Mark("...") ELSE <<>>)
              ELSE Ptr(job.v))
     /\ Reads(got)
     /\ UNCHANGED <<ev, procVars>>

\* The words print_socketcall reads, all or none.
print_socket_words ==
  LET got == read_mem(job.v, SOCKET_WORDS) IN
  /\ Doing("socket_words")
  /\ Emit(IF Len(got) = SOCKET_WORDS THEN Words(got) ELSE Ptr(job.v))
  /\ Reads(got)
  /\ UNCHANGED <<ev, procVars>>

\* What print_sockaddr prints of the cells read; the first one is the family.
SockaddrText(v, got) ==
  LET path == Tail(got)
      last == SelectLastInSeq(path, LAMBDA c : c # 0)
      name == SubSeq(path, 1, last)
  IN CASE got = <<>> -> Ptr(v) \o Mark("unreadable")
       [] got # <<>> /\ got[1] = AF_INET /\ Len(got) >= InetSize ->
            Words(SubSeq(got, 1, InetSize))
       [] got # <<>> /\ got[1] = AF_UNIX /\ path # <<>> ->
            Words(<<AF_UNIX>>)
            \o (IF name # <<>> /\ name[1] = 0 THEN Mark("@") \o Quoted(Tail(name), FALSE)
                ELSE Quoted(name, FALSE))
       [] OTHER -> Words(<<got[1]>>) \o Mark("...")

print_sockaddr ==
  LET want == Least(job.n, SOCKADDR)
      got  == read_mem(job.v, want)
  IN /\ Doing("sockaddr")
     /\ Emit(IF job.v = 0 \/ ~dereference \/ want = 0 THEN Ptr(job.v)
              ELSE SockaddrText(job.v, got))
     /\ Reads(got)
     /\ UNCHANGED <<ev, procVars>>

Decode ==
  \/ print_value \/ print_cstring \/ string_read \/ print_buffer \/ print_strv
  \/ print_iov \/ print_timespec \/ print_struct \/ print_socket_words
  \/ print_sockaddr

-----------------------------------------------------------------------------
(***************************************************************************)
(* The process with the pid of the event, which no one has stopped.        *)
(***************************************************************************)

\* What the process does after the last read is of no consequence.
Change ==
  /\ \E i \in DOMAIN todo : todo[i].k \notin ValueKinds \cup {"head", "result", "puts"}
  /\ changes < MaxChanges
  /\ changes' = changes + 1
  /\ UNCHANGED <<outVars, ev, todo, foreign>>

process_write ==
  /\ Change
  /\ \E a \in DOMAIN mem, c \in Cells :
       (a \div PageSize) \in mapped /\ mem' = [mem EXCEPT ![a] = c]
  /\ UNCHANGED <<mapped, owner>>

process_unmap ==
  /\ Change
  /\ \E p \in mapped : mapped' = mapped \ {p}
  /\ UNCHANGED <<mem, owner>>

process_exit ==
  /\ Change
  /\ owner # "gone"
  /\ owner' = "gone"
  /\ UNCHANGED <<mem, mapped>>

\* fork gives the pid to a new process.
pid_reuse ==
  /\ Change
  /\ owner = "gone"
  /\ owner' = "other"
  /\ \E m \in Memories : mem' = m.mem /\ mapped' = m.mapped

Process == process_write \/ process_unmap \/ process_exit \/ pid_reuse

-----------------------------------------------------------------------------
\* An event is about to be printed on a line that has been cleared.
DInit(st) ==
  /\ OutInit
  /\ ev = st.event /\ mem = st.memory.mem /\ mapped = st.memory.mapped
  /\ owner = "caller"
  /\ changes = 0
  /\ foreign = FALSE

DNext == Decode \/ malloc_fails \/ Process

-----------------------------------------------------------------------------
(***************************************************************************)
(* Properties.                                                             *)
(***************************************************************************)

JobKinds == ValueKinds \cup
  {"head", "result", "str", "chars", "buffer", "strv", "iov", "timespec", "how",
   "clone_args", "socket_words", "sockaddr"}

\* Type correctness; print_cstring reads no further than the MaxStr characters it
\* has allocated, and the lists have no more than max_array elements.
DTypeOK ==
  /\ len \in Nat
  /\ \A i \in DOMAIN todo :
       LET j == todo[i] IN
       /\ j.k \in JobKinds \cup {"puts", "stack"}
       /\ j.v \in Int /\ j.n \in Nat /\ j.lim \in Nat
       /\ j.k = "chars" => Len(j.got) + Chunk(Len(j.got)) <= MaxStr
       /\ j.i \in 0 .. max_array
  /\ mem \in [Addrs -> Nat]
  /\ mapped \subseteq Pages
  /\ owner \in {"caller", "gone", "other"}
  /\ changes \in 0 .. MaxChanges
  /\ Len(buf) <= cap

\* What is to be seen of a string, a buffer, a list of strings and a list of
\* buffers, in terms of the memory as a whole.
StringRendering(v) ==
  LET all == read_mem(v, MaxStr)
      nul == FirstNul(all)
  IN IF v = 0 \/ ~dereference THEN Ptr(v)
     ELSE IF all = <<>> THEN Ptr(v) \o Mark("unreadable")
     ELSE IF nul = 0 THEN Quoted(all, TRUE)
     ELSE Quoted(SubSeq(all, 1, nul - 1), FALSE)

BufferRendering(v, n) ==
  LET got == read_mem(v, Least(n, max_buffer)) IN
  IF v = 0 \/ ~dereference THEN Ptr(v)
  ELSE IF n = 0 \/ max_buffer = 0 THEN Quoted(<<>>, FALSE)
  ELSE IF got = <<>> THEN Ptr(v) \o Mark("unreadable")
  ELSE Quoted(got, Len(got) < n)

StrvRendering(v) ==
  LET all  == read_mem(v, max_array)
      ptrs == [i \in 1 .. Len(all) |-> ptr_value(all[i])]
      null == FirstNul(ptrs)
      some == IF null = 0 THEN ptrs ELSE SubSeq(ptrs, 1, null - 1)
  IN IF v = 0 \/ ~dereference THEN Ptr(v)
     ELSE FlattenSeq([i \in 1 .. Len(some) |-> StringRendering(some[i])])
          \o (IF null > 0 THEN <<>>
              ELSE IF Len(all) = max_array THEN Mark("...") ELSE Mark("... unreadable"))

\* What the first i numbers of s add up to, for every i.
Sums(s) == LET sum[i \in 0 .. Len(s)] == IF i = 0 THEN 0 ELSE sum[i - 1] + s[i] IN sum

\* Element i of the vector all, which may show left bytes.
IovElement(all, i, left, show) ==
  LET base == ptr_value(all[2 * i - 1])
      size == ptr_value(all[2 * i])
  IN (IF show THEN BufferRendering(base, Least(size, left)) ELSE Ptr(base))
     \o <<Tok("word", size)>>

\* Element i shows what the elements before it have left of the limit.
IovRendering(v, n, limit, show) ==
  LET all     == read_mem(v, 2 * n)
      K       == Len(all) \div 2
      before  == Sums([i \in 1 .. K |-> ptr_value(all[2 * i])])
      left(i) == IF before[i - 1] < limit THEN limit - before[i - 1] ELSE 0
  IN IF v = 0 \/ ~dereference THEN Ptr(v)
     ELSE FlattenSeq([i \in 1 .. K |-> IovElement(all, i, left(i), show)])
          \o (IF K = n THEN <<>> ELSE Mark("... unreadable"))

ArgRendering(d) ==
  LET v == ev.args[d.arg] IN
  CASE d.kind = "str"     -> StringRendering(v)
    [] d.kind = "strv"    -> StrvRendering(v)
    [] d.kind = "buf_in"  -> BufferRendering(v, ev.args[d.aux])
    [] d.kind = "buf_out" -> IF is_error THEN Ptr(v)
                             ELSE BufferRendering(v, Least(returned, ev.args[d.aux]))
    [] d.kind = "iov_in"  -> IovRendering(v, Least(ev.args[d.aux], max_array),
                                          max_buffer, TRUE)
    [] d.kind = "iov_out" -> IovRendering(v, Least(ev.args[d.aux], max_array),
                                          returned, ~is_error)
    [] OTHER              -> ValueText(d.kind, v, IF d.kind = "pair" THEN ev.args[d.aux]
                                                  ELSE 0)

FollowedKinds == {"str", "strv", "buf_in", "buf_out", "iov_in", "iov_out"}

\* If the process leaves its memory alone, what is printed is the rendering of that
\* memory: reading strings in chunks and lists element by element, across pages,
\* and stopping at what cannot be read, shows (print_cstring, print_buffer,
\* print_strv, print_iov).
StableRendering ==
  todo = <<>> /\ changes = 0 /\ ev.syscall_id >= 0
    /\ (\A i \in DOMAIN Args : Args[i].kind \in FollowedKinds \cup ValueKinds) =>
      text = <<Tok("call", ev.syscall_id)>>
             \o FlattenSeq([i \in 1 .. Len(Args) |-> ArgRendering(Args[i])])
             \o ResultText

\* The line cut into pieces: the call, each of its arguments, the result.  A token
\* begins a piece or continues the last one.
Continues == {"|flag", "|word", "|type", "|nr", "|size", "byte", "end", "end...",
              "unreadable"}
AddToken(pieces, x) ==
  IF pieces = <<>> \/ x.t \notin Continues THEN Append(pieces, <<x>>)
  ELSE [pieces EXCEPT ![Len(pieces)] = Append(@, x)]
Pieces(s) ==
  LET cut[i \in 0 .. Len(s)] == IF i = 0 THEN <<>> ELSE AddToken(cut[i - 1], s[i])
  IN cut[Len(s)]

\* The number a reader of the line takes from a piece of it.
ValueRead(k, p) ==
  IF k = "ioc" THEN ((p[1].v * IOC.size + p[4].v) * IOC.type + p[2].v) * IOC.nr + p[3].v
  ELSE Sums([i \in 1 .. Len(p) |-> p[i].v])[Len(p)]

\* How many values the kernel tells apart in a register: it takes descriptors,
\* signals and commands for int.
Width(k) ==
  CASE k \in {"int", "dirfd", "sig", "fcntl_cmd", "ioc"} -> Word32
    [] k = "mode" -> ModeSpan
    [] k \in {"word", "ptr", "long", "bpf_cmd"} -> IF ev.abi = 32 THEN Word32 ELSE Word64
    [] OTHER -> Word64

\* The values a call with arguments of the kinds ks got in its registers.  By the
\* procedure call standard of the 32-bit ABI an argument of 64 bits takes two
\* registers and starts at an even one (r0 is number 1 here): free[i] is the first
\* register after argument i.
Passed(ks) ==
  LET free[i \in 0 .. Len(ks)] ==
        IF i = 0 THEN 1
        ELSE IF ks[i] = "pair" THEN free[i - 1] + (IF free[i - 1] % 2 = 0 THEN 3 ELSE 2)
        ELSE free[i - 1] + 1
  IN [i \in 1 .. Len(ks) |->
        IF ks[i] = "pair" THEN ev.args[free[i] - 2] + ev.args[free[i] - 1] * Word32
        ELSE ev.args[free[i] - 1]]

ShownKinds == (ValueKinds \ {"socket_call"}) \cup {"str", "buf_in", "buf_out"}

\* A line can be read back: whatever is done to the memory meanwhile, it has as many
\* arguments as the call, every number, set of flags, request or 64-bit offset on it
\* has the value the kernel took from the registers, and so has the result
\* (print_arg, print_flags, print_open_flags, print_ioctl, print_fcntl,
\* print_arm_eabi_aligned64, print_result).
LineReadable ==
  todo = <<>> /\ ev.syscall_id >= 0 =>
    LET args  == Args
        kinds == [i \in 1 .. Len(args) |-> args[i].kind]
        line  == Pieces(text)
        regs  == Passed(kinds)
    IN (\A i \in DOMAIN kinds : kinds[i] \in ShownKinds) =>
         /\ Len(line) = Len(args) + 2
         /\ \A i \in DOMAIN kinds :
              kinds[i] \in ValueKinds =>
                (ValueRead(kinds[i], line[i + 1]) - regs[i]) % Width(kinds[i]) = 0
         /\ (ValueRead("ret", line[Len(line)]) - ev.ret) % Width("long") = 0

\* An address of a 32-bit process has 32 bits ("64 for AArch64, 32 for ARM EABI",
\* syscall_parser.h), wherever on the line it is printed: print_ptr and the result
\* of mmap2 and brk.
AddressWidth ==
  ev.abi = 32 => \A i \in DOMAIN text : text[i].t \in {"ptr", "addr"} => text[i].v < Word32

\* The data of a call that moves data: bytes printed.
BytesShown == Cardinality({i \in DOMAIN text : text[i].t = "byte"})

\* Whatever the process does to its vectors and buffers meanwhile, no more bytes are
\* shown than the call has moved into them (A_BUF_OUT, A_IOV_OUT), none if it
\* failed, and no more than max_buffer of what it was to take from them.  (Strings and
\* names of sockets are shown as bytes too: the other arguments are numbers.)
DataLimit ==
  BytesShown > 0 =>
    \A i \in DOMAIN Args :
      (\A j \in DOMAIN Args \ {i} : Args[j].kind \in ValueKinds) =>
        /\ Args[i].kind \in {"buf_out", "iov_out"} =>
             BytesShown <= IF is_error THEN 0 ELSE returned
        /\ Args[i].kind \in {"buf_in", "iov_in"} => BytesShown <= max_buffer
=============================================================================
