---------------------------- MODULE HandleEvent ----------------------------
(***************************************************************************)
(* handle_event of src/src/mini_etrace.c: the line that the decoder makes  *)
(* of an event (Decoder) is printed, and then the stack the BPF program    *)
(* took at the entry of the call, with the symbols the process that has    *)
(* the pid now gives to its addresses (show_stack_trace, print_frame).     *)
(***************************************************************************)
EXTENDS Decoder

CONSTANTS
  Names,   \* of functions
  Symbols  \* process -> address -> [name, inlined]; name is None if it has none

ASSUME SymbolsAssumption ==
  \A p \in {"caller", "other"} :
    /\ p \in DOMAIN Symbols
    /\ \A st \in Starts : \A i \in DOMAIN st.event.stack :
         Symbols[p][st.event.stack[i]] \in [name : Names \cup {None}, inlined : Seq(Names)]

VARIABLE stdout   \* the lines printed

hvars == <<dvars, stdout>>

Line(k, a, n) == [k |-> k, addr |-> a, name |-> n]

\* handle_event: parse, puts, and the stack if it is asked for.
EventJobs(stack) ==
  Jobs \o <<Job("puts", 0, 0)>> \o (IF stack THEN <<Job("stack", 0, 0)>> ELSE <<>>)

puts ==
  /\ Doing("puts")
  /\ stdout' = Append(stdout, Line("line", 0, None))
  /\ todo' = Tail(todo)
  /\ UNCHANGED <<outVars, ev, procVars, foreign>>

\* The first cnt addresses have been looked up in process p.
HasName(p, cnt, i) == i <= cnt /\ Symbols[p][ev.stack[i]].name # None

\* A function without an address is an inlined one: it is printed without a line of
\* an address.  So is a function found at address 0.
print_frame(name, input_addr) ==
  Line(IF input_addr # 0 THEN "frame" ELSE "inlined", input_addr, name)

\* One iteration of show_stack_trace: a frame, and the functions inlined in it.
FrameLines(p, cnt, i) ==
  LET a == ev.stack[i] IN
  IF HasName(p, cnt, i)
  THEN <<print_frame(Symbols[p][a].name, a)>>
       \o [j \in 1 .. Len(Symbols[p][a].inlined) |->
             print_frame(Symbols[p][a].inlined[j], 0)]
  ELSE <<Line("nosymbol", a, None)>>

\* Mutant: the loop ends with the symbols.
StackLinesKnown(p, cnt) == FlattenSeq([i \in 1 .. cnt |-> FrameLines(p, cnt, i)])

StackLines(p, cnt) == FlattenSeq([i \in 1 .. Len(ev.stack) |-> FrameLines(p, cnt, i)])

RawLines == [i \in 1 .. Len(ev.stack) |-> Line("raw", ev.stack[i], None)]

\* blaze_symbolize_process_abs_addrs looks the addresses up in the process that has
\* the pid, or fails; without that process it fails.
show_stack_trace ==
  /\ Doing("stack")
  /\ todo' = Tail(todo)
  /\ \/ /\ ev.stack = <<>>
        /\ stdout' = Append(stdout, Line("empty", 0, None))
        /\ UNCHANGED foreign
     \/ /\ ev.stack # <<>>
        /\ stdout' = stdout \o <<Line("stack", 0, None)>> \o RawLines
        /\ UNCHANGED foreign
     \/ /\ ev.stack # <<>>
        /\ owner # "gone"
        /\ \E cnt \in 0 .. Len(ev.stack) :
             /\ stdout' = stdout \o <<Line("stack", 0, None)>> \o StackLines(owner, cnt)
             /\ foreign' = (foreign \/ (owner = "other" /\
                              \E i \in DOMAIN ev.stack : HasName(owner, cnt, i)))
  /\ UNCHANGED <<outVars, ev, procVars>>

HInit ==
  /\ \E st \in Starts : DInit(st) /\ todo = EventJobs(st.print_stack)
  /\ stdout = <<>>

HandleEvent == (Decode /\ UNCHANGED stdout) \/ puts \/ show_stack_trace

HNext == HandleEvent \/ ((malloc_fails \/ Process) /\ UNCHANGED stdout)

HSafety == HInit /\ [][HNext]_hvars

\* etrace keeps running; nothing is asked of the process.
HSpec == HSafety /\ WF_hvars(HandleEvent)

-----------------------------------------------------------------------------
(***************************************************************************)
(* Properties.                                                             *)
(***************************************************************************)

\* The lines that show an address other than 0, among the first n of s, and the
\* places of such addresses among the first n of the stack.
Addressed(l)   == l.k \in {"raw", "frame", "nosymbol"} /\ l.addr # 0
OwnLines(s, n) == {i \in 1 .. n : Addressed(s[i])}
Places(n)      == {m \in 1 .. n : ev.stack[m] # 0}

\* Line j of s names the function at an address of the stack, and line i, if it is
\* not line j itself, the function that is inlined there in the place i - j.
InlinedAt(s, j, i) ==
  \E p \in DOMAIN Symbols, m \in DOMAIN ev.stack :
    LET y == Symbols[p][ev.stack[m]] IN
    /\ s[j] = print_frame(y.name, ev.stack[m])
    /\ j < i => i - j \in DOMAIN y.inlined /\ y.inlined[i - j] = s[i].name

\* Every address of the stack but 0 has one line of its own, in order, whatever has
\* become of the process and however few symbols there are; and every line without
\* an address names a function inlined in the frame above it, or the function found
\* at address 0 (show_stack_trace, print_frame).
StackShown ==
  /\ todo = <<>> /\ (\E i \in DOMAIN stdout : stdout[i].k = "stack") =>
       /\ Cardinality(OwnLines(stdout, Len(stdout))) = Cardinality(Places(Len(ev.stack)))
       /\ \A i \in OwnLines(stdout, Len(stdout)) :
            \E m \in Places(Len(ev.stack)) :
              /\ stdout[i].addr = ev.stack[m]
              /\ Cardinality(OwnLines(stdout, i)) = Cardinality(Places(m))
  /\ \A i \in DOMAIN stdout :
       stdout[i].k = "inlined" =>
         \E j \in 1 .. i :
           /\ InlinedAt(stdout, j, i)
           /\ \A k \in j + 1 .. i : stdout[k].k = "inlined"

\* The handling of an event ends, although the process goes on changing what is
\* read (the loops of print_cstring, print_strv and print_iov), so that the next
\* record of the ring gets its turn.
EventHandled == <>(todo = <<>>)

\* Once the traced program has exited its memory cannot be read any more and its
\* symbols cannot be found (README.md, known issues): what is shown is never taken
\* from another process.
ReadAfterExitFails == ~foreign
=============================================================================
