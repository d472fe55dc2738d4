------------------------------ MODULE MCDecoder ------------------------------
(***************************************************************************)
(* Instances of HandleEvent: one call of every kind of argument, on        *)
(* memories whose strings, vectors and buffers meet the ends of pages.     *)
(***************************************************************************)
EXTENDS HandleEvent

\* Arguments in the registers 1, 2, ... of the kinds given.
Plain(ks) == [i \in 1 .. Len(ks) |-> Arg(ks[i], i)]

MCCalls ==
  "read"    :> <<Arg("int", 1), ArgAux("buf_out", 2, 3), Arg("word", 3)>> @@
  "write"   :> <<Arg("int", 1), ArgAux("buf_in", 2, 3), Arg("word", 3)>> @@
  "pread64" :> <<Arg("int", 1), ArgAux("buf_out", 2, 3), Arg("word", 3), Arg("word", 4)>> @@
  "readv"   :> <<Arg("int", 1), ArgAux("iov_out", 2, 3), Arg("word", 3)>> @@
  "writev"  :> <<Arg("int", 1), ArgAux("iov_in", 2, 3), Arg("word", 3)>> @@
  "openat"  :> <<Arg("dirfd", 1), Arg("str", 2), Arg("open", 3), ArgAux("mode", 4, 3)>> @@
  "lseek"   :> Plain(<<"int", "long", "word">>) @@
  "execve"  :> Plain(<<"str", "strv">>) @@
  "kill"    :> Plain(<<"int", "sig">>) @@
  "mmap2"   :> Plain(<<"ptr", "word", "prot", "map", "int", "word">>) @@
  "brk"     :> Plain(<<"ptr">>) @@
  "bind"    :> <<Arg("int", 1), ArgAux("sockaddr", 2, 3), Arg("word", 3)>> @@
  "gettime" :> Plain(<<"int", "timespec_out">>) @@
  "sleep"   :> Plain(<<"timespec", "ptr">>)

\* The names in both tables, in an order of their own; "other" is a call the decoder
\* has no description of.
TableNames ==
  <<"read", "write", "pread64", "readv", "writev", "openat", "lseek", "execve", "kill", "mmap2",
    "brk", "bind", "gettime", "sleep", "ioctl", "bpf", "openat2", "clone3", "fcntl",
    "socketcall", "pwrite64", "readahead", "truncate64", "ftruncate64", "other">>

MCTables ==
  [abi \in {32, 64} |->
     [n \in 1 .. Len(TableNames) |->
        [name |-> IF abi = 64 THEN TableNames[n] ELSE Reverse(TableNames)[n], nargs |-> 2]]]

Nr(call, abi) == CHOOSE n \in DOMAIN MCTables[abi] : MCTables[abi][n].name = call

\* Bits: an access mode, two flags and one without a name; of a request, two values
\* each for nr and type, and four sizes.
FDCWD     == -4
OpenTable == <<1, 2, 8, 4>>
ProtTable == <<1, 2>>
MapTable  == <<1, 2, 8>>
Fields    == [nr |-> 2, type |-> 2, size |-> 4]

\* The outermost frame may have a return address of 0.
Stacks == {<<>>, <<1, 2>>, <<2, 0>>, <<0, 1>>}

Ev(call, args, ret, abi) ==
  [syscall_id |-> Nr(call, abi), ret |-> ret, abi |-> abi, stack |-> <<>>,
   args |-> [i \in 1 .. 6 |-> IF i <= Len(args) THEN args[i] ELSE 0]]

Symbol(name, inlined) == [name |-> name, inlined |-> inlined]

\* Both processes have a symbol for 1, the caller has one for 2 as well, and the other
\* process has mapped the page at 0.
MCSymbols ==
  [caller |-> 0 :> Symbol(None, <<>>) @@ 1 :> Symbol("f", <<"g", "h">>)
              @@ 2 :> Symbol("main", <<>>),
   other  |-> 0 :> Symbol("f", <<"g">>) @@ 1 :> Symbol("x", <<>>)
              @@ 2 :> Symbol(None, <<>>)]

\* Pages of four cells; page 0 is never mapped.
M(cells, pages) ==
  [mem |-> [a \in Addrs |-> IF a - 3 \in 1 .. Len(cells) THEN cells[a - 3] ELSE 0],
   mapped |-> pages]

\* A vector of two elements at 4, strings and buffers at 8 and beyond.
Vector  == M(<<8, 2, 10, 3, 1, 2, 3, 1>>, {1, 2})
\* The same, with its second page missing.
Cut     == M(<<8, 2, 10, 3, 1, 2, 3, 1>>, {1})
\* Pointers up to the end of the page, strings that end.
Pointers == M(<<8, 10, 9, 8, 1, 0, 2, 0>>, {1, 2})
\* A struct clone_args at 4.
Large == M(<<1, 2, 3, 4, 5, 6, 7, 8, 9, 10, 11, 12>>, {1, 2, 3})

MCMemories == {Vector, Cut, Pointers}

Tagged(a) == a + TagSpan

\* Data calls: all, part or none of the request was moved, or they failed; in the
\* 32-bit ABI an error is a large unsigned word.
DataEvents ==
  {Ev("read", <<1, 8, 3>>, r, 64) : r \in {3, 2, 0, -1}}
  \cup {Ev("read", <<1, 8, 3>>, r, 32) : r \in {2, Word32 - 1}}
  \cup {Ev("write", <<1, a, n>>, 2, 64) : a \in {0, 6, Tagged(6)}, n \in {0, 2, 5}}
  \cup {Ev("readv", <<1, 4, n>>, r, 64) : n \in {1, 2, 3}, r \in {-1, 1, 3, 5}}
  \cup {Ev("readv", <<1, 4, 2>>, Word32 - 1, 32)}
  \cup {Ev("readv", <<1, 4, 0>>, 0, 64)}
  \cup {Ev("writev", <<1, a, 2>>, 4, 64) : a \in {0, 4, 6}}
  \cup {Ev("pread64", <<1, 8, 2, 7>>, 1, 64), Ev("pread64", <<1, 8, 2, 9, 3, 1>>, 1, 32),
        Ev("pread64", <<1, 8, 2, 9, 3, 1>>, Word32 - 1, 32),
        Ev("pwrite64", <<1, 8, 2, 9, 3, 1>>, 2, 32)}

StringEvents ==
  {Ev("openat", <<AT_FDCWD % Word64, a, f, 3>>, -1, 64) :
     a \in {0, 4, 7, 8, 15}, f \in {0, O_CREAT}}
  \cup {Ev("execve", <<8, a>>, 0, 64) : a \in {0, 4, 5, 7, 9}}
  \cup {Ev("truncate64", <<8, 9, 3, 1>>, 0, 32)}

OtherEvents ==
  {Ev("bind", <<1, a, n>>, 0, 64) : a \in {0, 4, 7, 8, 10}, n \in {0, 1, 3}}
  \cup {Ev("openat2", <<1, 8, 4, n>>, 1, 64) : n \in {0, 2, 4}}
  \cup {Ev("gettime", <<1, 7>>, r, 64) : r \in {0, -1}}
  \cup {Ev("sleep", <<a, 4>>, 0, 64) : a \in {0, 4}}
  \cup {Ev("other", <<1, 2>>, 0, 64)}
  \cup {[Ev("other", <<1, 2>>, 0, 64) EXCEPT !.syscall_id = -1]}
  \cup {[Ev("other", <<1, 2>>, 0, 32) EXCEPT !.syscall_id = 99]}
  \cup {Ev("socketcall", <<2, a>>, 0, 32) : a \in {0, 4, 7}}

\* Calls of numbers only: every open flag and access mode, every protection, mappings,
\* signals, requests, descriptors; upper halves of registers that are not zero.
NumberEvents ==
  {Ev("openat", <<d, 0, f, 9>>, 1, 64) :
     d \in {3, AT_FDCWD % Word32, AT_FDCWD % Word64}, f \in 0 .. Word32 - 1}
  \cup {Ev("mmap2", <<8, 4, p, m, -1 % Word32, 5>>, 12, abi) :
          p \in 0 .. 7, m \in {0, 1, 2, 9, 14}, abi \in {32, 64}}
  \cup {Ev("mmap2", <<0, 4, 1, 1, 0, 0>>, r, 64) : r \in {-1, Word32 + 4}}
  \cup {Ev("lseek", <<1, o, 0>>, 0, abi) :
          o \in {0, Word32 \div 2, Word32 - 1}, abi \in {32, 64}}
  \cup {Ev("lseek", <<Word32 + 1, o, 0>>, -1, 64) : o \in {Word32, Word64 - 2}}
  \cup {Ev("kill", <<-2 % Word64, g>>, 0, 64) : g \in {0, 1, 9, Word32 + 9, Word64 - 1}}
  \cup {Ev("ioctl", <<1, r, 8>>, 0, abi) : r \in 0 .. Word32 - 1, abi \in {32, 64}}
  \cup {Ev("ioctl", <<1, Word32 + 3, 8>>, 0, 64)}
  \cup {Ev("bpf", <<c, 8, 4>>, 3, abi) : c \in {0, 1, 7}, abi \in {32, 64}}
  \cup {Ev("fcntl", <<1, c, 8>>, 0, abi) : c \in 0 .. 5, abi \in {32, 64}}
  \cup {Ev("readahead", <<1, 9, 3, h, 5, 6>>, 0, 32) : h \in {0, 1, Word32 - 1}}
  \cup {Ev("ftruncate64", <<1, 9, l, 1, 5, 6>>, 0, 32) : l \in {0, Word32 - 1}}

\* The stack is printed after the line, whatever the line.
StackStarts ==
  [event : {[Ev("kill", <<1, 9>>, 0, 64) EXCEPT !.stack = s] : s \in Stacks},
   memory : {Vector}, print_stack : BOOLEAN]

StartsOf(events, memories) == [event : events, memory : memories, print_stack : {FALSE}]

AllStarts ==
  StartsOf(StringEvents, MCMemories) \cup StartsOf(DataEvents \cup OtherEvents, {Vector, Cut})
  \cup StartsOf(NumberEvents, {Cut}) \cup StackStarts
  \cup StartsOf({Ev("clone3", <<4, n>>, 1, 64) : n \in {0, 1, 6, 7, 10, 11, 12}}, {Large})

\* One string, one vector.
FewStarts ==
  StartsOf({Ev("execve", <<8, 4>>, 0, 64), Ev("readv", <<1, 4, 2>>, 3, 64),
            Ev("write", <<1, 8, 2>>, 2, 64)}, MCMemories)

\* Addresses below and above the middle of 32 bits, allocated by a 32-bit process.
MapStarts ==
  StartsOf({Ev("mmap2", <<0, 4, p, 1, 0, 0>>, r, 32) : p \in 0 .. 3, r \in {8, Word32 - 4}},
           {Vector})
=============================================================================
