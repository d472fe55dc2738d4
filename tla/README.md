# etrace in TLA+

etrace is an strace-like tracer for arm64/arm32 Linux built on eBPF. This
directory specifies its behaviour in TLA+, checks the specifications on small
instances with TLC, and proves the main results for all instances with TLAPS.
Line numbers refer to the repository's files, which are named without their
directories: `mini_etrace.bpf.c`, `mini_etrace.c` and `sysdecode.c` (in `src/`),
`mini_etrace.h` and `syscall_parser.h` (in `include/`).

## 1. Inventory

| component | state | operations | interacts with |
|---|---|---|---|
| BPF programs (`mini_etrace.bpf.c`) | maps `config_map`, `syscall_bitmap`, `inflight` (hash by pid_tgid, 0x1000 entries), `in_map`/`event_map` (per-CPU scratch), `events` (perf array, 16 entries) | `trace_enter` (filter, fill scratch, store in `inflight`), `trace_exit` (look up, fill event, output, delete) | tasks fire the tracepoints; user space writes the first two maps; `events` feeds the rings |
| perf buffer (kernel, libbpf 0.5) | one ring per CPU (head, tail, lost counter), epoll readiness | output, open, poll/read batch, free | filled by `trace_exit`, read by `main` |
| `main` (`mini_etrace.c:356-676`) | `config`, `enable_32`, `exiting`, `err`, links, object, buffer | options, open/load, map writes, attach twice, open rings, poll loop, cleanup | all of the above; signals |
| syscall filter (`134-264`) | `syscall_bitmap` through its fd | `syscall_filter_add`, `set_all_syscall`, `parse_syscall_filter`, `syscall_number` | called by `main` before attaching |
| event callbacks (`268-315`) | `line[1024]`, `parser` | `handle_event`, `handle_lost` | called by the reader; call the decoder and the symboliser |
| decoder (`sysdecode.c`) | output cursor (buffer, size, length), parser options, reader | `syscall_parse_event` and the printers of strings, buffers, flags, vectors, socket addresses, results | reads the traced process's memory |
| stack symbolisation (`46-132`) | `symbolizer` | `show_stack_trace`, `print_frame` | blazesym |
| generated tables, generator, example tracee, vendored libraries | constant data | - | - |

What makes the system hard:

* concurrency: the programs run at the same time on all CPUs, against tasks that
  are created, exec, exit and reuse ids, while `main` sets up step by step and
  its reader competes with the writers of the rings;
* ordering: the maps must be filled before anything is attached; an entry must be
  deleted after its event was output and before the thread's next call; the space
  of a batch may be given back only after the batch was handled;
* failure: every library call in `main` may fail with something already attached;
  rings and the map `inflight` overflow; calls like `exit` never return;
* timing: a signal may come between the test of `exiting` and the sleep.

Properties that make each component correct are listed with the modules below;
`PROJECT.json` lists the hazards at the lines where they bite and the properties
that cover them.

## 2. Modules

```
OutBuf <--EXTENDS-- Decoder <--EXTENDS-- HandleEvent <-- MCDecoder, DecoderProofs <-- LineProofs

SyscallBitmap <--EXTENDS-- Options <-- MCOptions, OptionsProofs
  ^                          ^
  EXTENDS                    INSTANCE
  |                          |
  |                        Tracer <-- MCTracer, TracerProofs
  |                          |
  |                          EXTENDS, and INSTANCE WITH as its abstract specification
  |                          v
Probes  <--EXTENDS--       Etrace  --INSTANCE-->  PerfBuffer
  ^                          ^                        ^
MCProbes, ProbesProofs     MCEtrace, EtraceProofs   MCPerfBuffer, PerfBufferProofs
```

The proof modules follow the modules: EtraceProofs extends ProbesProofs and uses
PerfBufferProofs for its rings, TracerProofs extends EtraceProofs and uses OptionsProofs
for its command line. `NatLemmas` has what they share about natural numbers.

`SyscallBitmap` is what the two sides of the filter share: user space sets bits
with it in Options, `trace_enter` tests them with it in Probes. Two refinements tie
the levels together: Tracer implements Etrace, and Etrace implements Probes.
HandleEvent is what happens inside one delivery of a record (`read_record` of
PerfBuffer).

### Probes: the BPF programs

One task per pid_tgid (`Keys`). A system call has an identity `n \in Calls`; what
`trace_enter` copies of a call (arguments, time stamp, stack) is that identity,
and what `trace_exit` learns of the returning call (return value, current time)
is the identity of the returning call. An event thus has `args` (whose arguments)
and `ret` (whose return), and a wrong pairing is visible as `args # ret`.

A program is split into steps at the places where other CPUs can interfere:
`trace_enter` into `trace_enter_return` (the early returns) or `trace_enter_fill`
(in_map) and `trace_enter_update` (inflight); `trace_exit` into
`trace_exit_return` or `trace_exit_fill` (event_map), `trace_exit_output` and
`trace_exit_delete`. A task holds its CPU between the steps (`cpu`), because
programs run with preemption disabled. The tasks' own steps (`task_create`,
`task_killed`, `task_rename`, `task_exit`, `task_exec`, and tracepoints without a
program) are the environment: ids are reused once free, `exit` never returns, a
thread that calls `execve` takes over the leader's id inside the call. `fate`,
`info` and `recorded` are history. The properties about what must be reported do not
rest on what the program stored: `info` has the call, its name and whether
`trace_enter` was attached when it was made, and `Passed` applies the filter to that.
`PassedReported` and `ReturnMatches` are stated with it.

Stack contents: `stack_size` is abstracted to its sign and `user_stack` to the
call it was taken in; without `-s` the scratch fields keep their old contents,
as in the code. Names are compared as values (`comm_equal` is equality of C
strings of at most 15 characters).

### PerfBuffer: rings and reader (external)

Counters `head` and `tail` that only grow, an array of `Slots` records, the
kernel's `lost` counter that is written as a record in front of the next event
that fits, the epoll readiness of each ring, and libbpf's reader, which reads
`head` once per batch and writes `tail` after the batch. Records take one slot
each (in the kernel they take bytes).

### Etrace: the tracer

`main` as a sequence of calls (`mpc` is the call about to be made) composed with
Probes and PerfBuffer: map writes, attachments and detachments are Probes'
actions, `trace_exit_output` is joined with `output` of the ring, the poll drives
the reader. Any call may fail (`setup_fails`, `poll_fails`); a signal may come at
any step (`sig_handler`). The command line has already been accepted, its
configuration (`config`) and filter (`wanted`) are given, and the bitmap is written in
one step: what Tracer does in many.

### Tracer: the whole of main

The actions of Options and of Etrace in the order of `main`: the getopt loop and its
checks (`main_options`), `bump_memlock_rlimit`, opening and loading, the
configuration, then `parse_syscall_filter` or `set_all_syscall` one field or word at a
time (`main_filter`) into the very `syscall_bitmap` that `trace_enter` reads, and the
rest of Etrace. `config` gets its value from the options (`TheConfig`). Signals are
caught from `bpf_object__open_file` on; one that comes earlier ends the process, which
has done nothing yet.

The refinement mapping to Etrace (`E`): while options are being read, Etrace has not
begun (`EtracePc`) and already has the configuration that the command line describes
(`EtraceConfig`, from `AskedConfig`, in terms of the options alone, if these are
acceptable); a bitmap that is not finished is still empty (`EtraceBitmap`); a refused
command line is a first call that failed (`EtraceErr`). `ImplementsEtrace` says
therefore that no order of options and no failure lets a program be attached under
another configuration or filter than those of the command line. A task's system calls
are numbered by the table of `-t`: the tracepoints do not tell the ABI of a call, so
for tasks of the other ABI only the numbers mean what the properties say.

### SyscallBitmap, Options: the command line and the filter

A command line is a sequence of options as `getopt` returns them (operands come
last, as the C library arranges them); the argument of `-p` is what `strtol` makes
of it. There is one action per case of the switch, one for the checks after the
loop (`getopt_end`), and for the filter one per way through the body of the loop
of `parse_syscall_filter` (`parse_blank`, `parse_unknown`, `parse_add`) and its end,
and one per word for `set_all_syscall`. Texts are sequences of characters, because
splitting, trimming and cutting them is what the properties are about; space and
tab are one character. A word of the bitmap is the set of its bits. Any system
call or allocation may fail (`system_fails`), which is history in `broken`. The
calls of `main` between the checks and the filter are those of Etrace.

### OutBuf, Decoder: the decoder on one event

OutBuf is `struct out`: buffer, capacity, length, and as history the whole text.
In Decoder the text is a sequence of tokens (a byte, a word, a mark); one token
stands for all the characters it is printed with. Memory is an array of cells on
pages; a byte, a pointer, a length, a member of a structure take a cell each.
`todo` is what is left to print: one job per argument, and within a job one step
per read of memory, because between two reads the process runs on. It may write,
unmap, exit, and its pid may go to a new process with other contents (`owner`).
One read is atomic: a write in the middle of a `process_vm_readv` gives contents
that a string of several bytes could also have between two reads. A read that meets
a page that is not mapped returns what is before it, as the kernel does
(`process_vm_readv` copies page by page), or fails if there is nothing.
`malloc` may fail.

The table of argument kinds (`calls`), the printers that take a call as a whole
(`Special`, `FcntlArgs`, `Aligned64`, socketcall) and the table lookup decide on the
list of jobs. A number that is printed is a token with its sign and width: pointers
and sizes modulo the word of the ABI, `int` and `long` signed, modes cut to
`ModeSpan`, ioctl requests taken apart, 64-bit offsets put together from two
registers, flags as a list of named bits and a rest. Left out are base, padding,
punctuation and the wording of the names. `openat2` and `clone3` share an action, a
structure of which the caller says the size; `AF_INET6` is like `AF_INET`. The tag of
an AArch64 pointer is dropped for reading only (`TagSpan`). Argument registers and
results are whole words (`Word64`), with upper halves that need not be zero.

### HandleEvent: one event on the screen

`handle_event` from the cleared `line` on: the jobs of the decoder, `puts`, and with
`-s` the stack, frame by frame (`show_stack_trace`). blazesym is external: it may fail,
always does once the process is gone, and may return fewer entries than addresses or
entries without a name. `print_frame` prints the address of a frame unless it is 0: a
function found at address 0 comes out like an inlined one, which `StackShown` allows for.
The size check at the beginning (`data_sz < sizeof(*e)`) never applies, as `trace_exit`
outputs whole events; `fflush` only matters to the terminal.

## 3. Runs

| run | shows |
|---|---|
| `probes_cpus` | `EventFaithful`: on two CPUs, with stacks, no event mixes two calls; `PassedReported`: every thread's calls that pass the filter are reported, with their own return, while `inflight` has room |
| `probes_stale` | `ReportedOnce`, `RecordedReported`, `ReturnMatches`, `StaleEntryOrigin`: exits, id reuse, execve takeovers, a full map, and calls that the filter lets by |
| `perf_buffer` | `LossAccounted`: samples and loss counts reproduce the sequence of outputs of a CPU exactly; `NoLostWakeup` |
| `etrace` | `ImplementsProbes`, `ShownWanted`, `NothingLeft`; `SuccessIsComplete`: status 0 means that both programs were attached and a signal ended the run, whichever call failed before; with fairness `StopsOnSignal`, `EventuallyRead` |
| `tracer` | `ImplementsEtrace`; `ShownAsked`: every event shown is a call the command line asks for; `FilterRespected`: only calls admitted at entry are reported although names change; with fairness `Started` |
| `options` | `CommandMeaning`: the last `-p`, `-c` and `-e` and any `-s` and `-t 32` make the configuration; `Whitelist`, `EnabledAllowed`: exactly the listed calls are let through; `ValidAccepted`: no valid command line is refused; with fairness `OptionsEnd` |
| `decoder` | `StableRendering`: memory left alone is shown as it is, whatever the chunks and pages; `LineReadable`: the values in the registers can be read back from the line; `DataLimit`: no more data than was moved, although lengths change; `StackShown`: no address of the stack is lost, whatever is found at it; `SnprintfSemantics`; the bounds in `DTypeOK`; with fairness `EventHandled` |
| `decoder_foreign` (violation) | memory of another process is shown as that of a call; `show_stack_trace` asks for symbols by the same pid |
| `decoder_address` (violation) | an address of a 32-bit process is printed with 64 bits |
| `probes_same_call` (violation) | an event may pair a call with another call's return |
| `probes_all_threads` (violation) | leaked entries of exited threads fill `inflight` |
| `etrace_status` (violation) | a clean stop may return 1 |

Bounds. Two threads, or two processes, are enough for every pairing of programs,
for id reuse and for the takeover; three calls let one go stale, a second one
replace or meet it and a third one follow. `MaxInflight` is 1 in the run about
full maps. Two CPUs show every interference through the per-CPU entries. Rings of
two records and six outputs overflow, write a loss record, wrap and overflow
again. The tracer as a whole has two processes, two rings and a third CPU without one
(the code opens at most 16). The runs of Probes and PerfBuffer, which check invariants, use symmetry.

For Tracer: two processes with two names that may be exchanged, one system call in
flight, and eleven command lines: targets by pid and by name, options repeated and in
different orders, `-t 32` after `-e`, empty fields, no `-e` at all, and five that are
refused at different places. One call is enough, since the questions are about the
order of setup steps against one call; histories of calls are the subject of the runs
of Probes.

For Options: all texts of up to six characters over two letters, comma and blank as
the argument of `-e` (fields before, between and after commas, blanks on both sides,
names that are prefixes of each other or in one table only), with and without
`-t 32` after it, and all command lines of up to three options out of 18, valid and
invalid. Two words of two bits have numbers that share a word, a bit, or neither.
`COMM_LEN` is 6: names one shorter, as long and longer, with and without `com.`.

For Decoder: three pages of four cells, chunks of two in strings of at most three
(a full chunk, then a cut one), vectors of at most two elements, a line of six
tokens, which most events overflow. Events have every kind of argument, pointers to
nothing, to the end of a page, with a tag and below an unmapped page, and results
from an error to more than the vector holds. A 32-bit word has 32 values in the model,
and the events of numbers go through all of them for open flags and ioctl requests,
with table entries for some of the bits only. The stacks have an
address of two inlined functions, one without a name, and address 0 with and without a
name. Two steps of the process are enough
for exit and reuse, and for changing a pointer and a length of one vector. The
runs that end in a violation have few events.

Fairness. `ESpec` assumes `WF(Progress)` only: the process of the tracer is
scheduled and `epoll_wait` returns after its 100 ms. Calls may fail but need not
(`Progress` leaves `setup_fails` and `poll_fails` out), and nothing is assumed of the
tasks. `OSpec`, `TSpec` and `HSpec` assume the same of the one thread of etrace in Options,
Tracer and HandleEvent: `WF(Getopt \/ Filter)`, `WF(TProgress)`, `WF(HandleEvent)`; failures of the system and the
steps of the traced process may come, or not.

Deadlock checking is off where the system stops: a command line has been dealt
with, an event has been decoded, `main` has returned, the bounds on calls, outputs
or changes are used up.

## 4. Proofs

`ProbesProofs` shows that `IInv` is inductive. The properties themselves are not:
that an event is faithful needs that the scratch entry of a CPU belongs to the
task that holds the CPU (`CpuInv`, `UpdateInv`, `EventInv`); that nothing is
reported twice needs that the entry and the call of an event already sent are
gone or about to be deleted (`SentInv`); that a recorded call is paired with its
own return needs that the entry of a task inside a recorded call is that call's
(`InflightInv`) unless the task was moved (`CallInv`); that every call that passes is
reported needs that nothing fills the map but one entry per thread (a cardinality
argument, over `Keys` finite) and that the verdict of the filter on a call under way is
the one on its history (`OwnEntryInv`, `PassedInv`), which also gives `ReturnMatches`;
that the filter is respected needs that nothing was recorded before the configuration
was final (`LinkInv`, `HistInv`). All seven properties of Probes are theorems for every set of tasks,
CPUs and calls, every `MaxInflight` and every configuration. Assumptions: pid_tgids
are finitely many pairs of naturals, call numbers integers, `None` is no call, CPU or record.

`PerfBufferProofs` has three theorems for every number of CPUs and slots. Types and the
bounds of a ring (`TypeInv`): the head is at most `Slots` above the tail, and the reader
is between the two, so that what is read has not been overwritten (`SlotsDiffer`: two
positions less than `Slots` apart are in different slots). Readiness (`NoMissedWakeup`):
a ring that is not read up to its head is either ready or about to be read. Accounting
(`AllAccounted`): `Stream` of a CPU is what was delivered and what is still in its ring;
`Weights` counts the outputs it stands for, a sample as one and a loss record as its
count. `Weights` is a recursive function on positions, and the lemmas on it
(`WeightsAppend`, `WeightsMonotonic`) are inductions on a set of naturals
(`SetInduction` of NatLemmas), which need no operator as a parameter.

`EtraceProofs` shows with `OrderInv` (what main has done when it is at a call) that
every step of the tracer is a step of Probes or leaves its variables alone, so that
these theorems hold of the whole tracer (`Refinement`), and that no way out leaves
anything attached (`CleanExit`). `DeliveryInv` joins the rings: they keep the invariant
of PerfBufferProofs (`Delivery`), although they appear in the middle of a run and go
before its end, and what is in them was sent (`RingsInv`, over the rings ever `Opened`).
From this follow the end-to-end filter property `ShowsWhatIsWanted` and the types.
`ZeroMeansDone` (`SuccessIsComplete`) needs `StatusInv`: before the loop both programs
are attached as far as main has come, and on the way out `err` is 0 only after a loop
that a signal ended.

`OptionsProofs` rests on arithmetic first: a number below `MAX_SYSCALLS` is in a word
and a bit of its own (`WordAndBit`, `BitsDiffer`), so that `syscall_filter_add` lets
one more number through and no other (`AddAllows`). `FilterInv` relates the bitmap to
what was reported, or to how far `set_all_syscall` has come; it gives
`ReportedIsAllowed` and `AllAllowed`. `CommandInv` says, at every position of the getopt
loop, that the variables mean what the options so far said: the last `-p`, `-c` and
`-e`, any `-s` and any `-t 32` (`SeenInv`, with `LastSeen` for the options already seen); with `optind` at the end
it is `CommandUnderstood`. Assumptions: the bitmap has whole words, command lines are
sequences of options, `COMM_LEN` is positive, `NoText` is no text.

The rest of the module is about the loop of `parse_syscall_filter`. The meaning of a list is
declarative: `Names(s)` are the parts of `s` that lie between two commas (or ends), and
are not empty once the blanks around them are dropped (`IsName`). `StrtokIs` and
`TrimIs` say what `strtok_r` and the trimming loops return in these terms. The loop
invariant `ParseInv` says that the text is cut at a place where a field begins and that
what was added so far are the numbers of the names before that place (`Parsed`, `Done`);
`Iteration` is one turn of the loop, `AtEnd` its end. With `CommandInv` it gives
`FilterAsNamed` (`Whitelist`), `ValidIffAccepted` (`ValidAccepted`) and `OptionsTypes`
(`OTypeOK`). Assumptions: comma and blank are different characters, the numbers of a
table fit the bitmap, and no name stands twice in one.

`TracerProofs` puts it together. `TracerInv` is the conjunction of the invariants of
Probes, of the rings (`DeliveryInv`) and of the command line (`OptionsInv`) with
`CommandOrder`, which says how far the options are when `main` is at a call, and that
from then on `config` is what the command line asks for. `TracerImplementsProbes`: the
tracer makes steps of Probes only, the bitmap's words included. `ShowsWhatIsAsked`
follows from the filter property of Probes, the bitmap of `FilterAsNamed` and the rings.
`TracerRefinement` is the refinement of Etrace under the mapping of section 2, one lemma
per group of steps: steps of the kernel and of main after the filter are the same step
of Etrace (`KernelStep`, `MainStep`), options and fields of the filter are stutters until
the last of them, which is Etrace's whole filter (`OptionStep`), and a refusal is a failed
first call (`RefusedStep`). Assumptions: those of the components; `Configs` and `Filters`
have all that the command lines may describe (`DescribedAssumption`).

`DecoderProofs` is about one event, for every table, memory, option and size of the line,
while the process changes its memory between any two reads. `TypeInv` says what a job may
be (`GoodJob`): a string has read less than `max_string` characters, a list is at most at
element `max_array`. Under it, each printer prints tokens (lemmas `ValueTextType` to
`SockaddrTextType`), a read returns at most what was asked for (`ReadType`), and one more
piece keeps the buffer a prefix of the text (`PrintfKeeps`): `LineIsSnprintf` and
`DecoderTypes`. `DataInv` adds the budget of a call with one buffer or vector: what has
been shown and what the jobs left may still show (`Cost`) stay within the limit, and two
jobs show data only while an element of a list is followed by the rest of the list
(`Budget`, kept by `BudgetTail` and `BudgetSplit`): `DataIsLimited`. `StackInv` says that
the stack is the last job and that nothing but the line is on the screen before it;
each address gives lines of which the first shows it unless it is 0 (`FrameIs`,
`BareFrame`), and `FramesOrder` puts them together: `StackIsShown`. Assumptions: pages
are numbered from 0, options and spans are numbers (`CHUNK` and the words positive), the
fields of an ioctl request divide 32 bits, the tables have argument descriptions whose
length registers exist, events have six registers and an ABI, and the addresses of a stack
have an entry in `Symbols`, with or without a name.

`LineProofs` is about what the line says. `RenderInv` is an invariant about a process that
has not moved yet: the text, followed by what the jobs left will show (`Shows`, of every
job), is the rendering of the whole event. It is inductive because every job is `Steady`:
a string taken up again has read exactly the beginning of what one read of the whole
string would return, without a NUL in it, and a list is at an element that one read of the
whole list would reach. `ReadOn` is the lemma behind both: a read from the middle returns
what a longer read has there, across pages. It needs that an address plus what has been
read does not leave the address space (`SpaceInv`; `SpaceAssumption`: the kernel keeps the
last page). Elements of a vector share the limit (`IovShare`, over `Sums`, with
`ShareShifts` for one iteration). At the end nothing is left and `LineIsRendering` follows.

`ReadInv` is about a process that does what it likes. Cut into pieces, the line has the
first pieces of the event, each read as what the registers had (`Fits`), and the jobs left
are those of the pieces to come, in order (`Stands`): numbers are still the jobs the
arguments gave, strings and buffers may have been taken up. Each printer prints one piece,
a token that begins one and others that continue it (`IsPiece`, `PieceAdded`), whatever it
could read (`StringPiece`, `PtrPieces`, `QuotedPiece`). `ValueIsRead` has a case for every
kind of number: flags add up to the register whatever bits have names (`NamedSum`,
`FlagsRead`, `OpenFlagsRead`), the fields of a request compose to it (`FieldsMake`,
`IocRead`), a signed number differs from it by a multiple of the width (`RegisterRead`).
`PassedIs` compares the registers the printers take with those that the procedure call
standard gives to the arguments (`FreeIs`), where pairs start at an even register. Together
they give `LineIsReadable`. Assumptions besides those above: argument `i` of a call in the
table is in register `i` and no pair is in it, and the registers of a 32-bit process have
32 bits.

Only model-checked: liveness (`StopsOnSignal`, `EventuallyRead`, `OptionsEnd`, `Started`,
`EventHandled`), because the prover does not handle fairness. Every invariant and action property that a
passing run checks is a theorem. The types of Probes and Etrace are proved but not
checked in a run: a wrong step of the programs or of main shows in the other properties.

## 5. Findings

Each has a run that shows the behaviour and quotes the text it disagrees with in
`PROJECT.json`:

* `probes_same_call`: `trace_exit` does not compare the call number, so an entry left
  by `exit` of a leader is reported with the return of another thread's `execve`;
* `probes_all_threads`: entries of `exit` are never deleted and fill `inflight`;
* `etrace_status`: `err` keeps the positive count of the last poll, and the tracer
  returns 1 after a clean stop;
* `decoder_foreign`: memory is read through the pid alone, which may belong to another
  process by then (the run ends at such a read; symbols are asked for in the same way);
* `decoder_address`: the result of `mmap2` and `brk` in a 32-bit process is
  sign-extended before it is printed as an address.

## 6. Not modelled, and why

* The wording of names, number bases, padding and punctuation in `sysdecode.c`, source
  file and line of a stack frame: output wording without influence on control.
* `syscall_parser_create`, `syscall_parse_options_init` and `syscall_parse`, which
  `syscall_parser.h` declares and no file defines: `main` fills the parser itself.
* `syscall_tables_generated.c` and its generator: constant data, parameters of the
  models. (No name stands twice in a table, so the lowest number is the only one.)
* `libbpf_print_fn`, `usage`, `bump_memlock_rlimit` beyond its failure, `fflush`, the
  result of the `calloc` of the parser (it is not checked): output, or one system call.
* The ABI of a task: the tracepoints do not report it and the code does not ask.
* The order of events of different CPUs: nothing promises one. Events on a CPU without a
  ring are dropped (PerfBuffer has them), and nothing says otherwise.
* The example tracee, and the vendored headers and archives of libbpf, libelf, zlib and
  blazesym. These headers are four fifths of the lines under `src/` (about 12,500 of
  15,500); they declare libraries that are not in the repository. What the code
  relies on of them is modelled as external: the perf buffer and the symboliser.
* Tracing time: `duration_ns` and the time stamps stand in Probes for the identities
  of the calls they were taken in.

## 7. Plan

Done: the core (Probes, PerfBuffer, Etrace and their proofs), the command line
(Options and its proofs), the whole of `main` (Tracer), the decoder with all its
printers and the handling of an event (Decoder, HandleEvent), with proofs for all of them.

Left: the liveness properties stay with the model checker.
