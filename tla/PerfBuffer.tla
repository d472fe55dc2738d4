----------------------------- MODULE PerfBuffer -----------------------------
(***************************************************************************)
(* The way of an event from bpf_perf_event_output to handle_event: the     *)
(* rings of the kernel, one per CPU, and the reader of libbpf (0.5) that   *)
(* mini_etrace.c drives with perf_buffer__new, perf_buffer__poll and       *)
(* perf_buffer__free.  Kernel and libbpf are not in the repository: this   *)
(* models what the code in src/ relies on.                                 *)
(*                                                                         *)
(* A ring is an array of Slots records between two counters that only      *)
(* grow: head, moved by the kernel, and tail, moved by the reader after it *)
(* has given a whole batch to the callbacks.  An event that finds no room  *)
(* is counted in lost; the next one that finds room is preceded by a       *)
(* record with that count.  A CPU without a ring drops events silently.    *)
(*                                                                         *)
(* A record is [event |-> e, n |-> 1], a sample (handle_event), or         *)
(* [event |-> None, n |-> m], m lost events (handle_lost).                 *)
(***************************************************************************)
EXTENDS Integers, Sequences, FiniteSetsExt, SequencesExt

CONSTANTS
  Cpus,
  Events,     \* what bpf_perf_event_output is given
  Slots,      \* records per ring (8 pages in the code)
  MaxOutput,  \* bounds the events output in a run
  None

ASSUME SlotsAssumption == Slots \in Nat \ {0, 1}
ASSUME NoEventAssumption == None \notin Events \cup Cpus

VARIABLES
  opened,     \* the CPUs that have a ring, in the map events and in the epoll set
  ring, head, tail, lost,
  wake,       \* the CPUs whose ring epoll will report
  ready,      \* those perf_buffer__poll has still to process
  reading,    \* the one it is processing
  rd, stop,   \* next record of the batch, and its end: data_head as first read
  handled,    \* history: the records of each CPU as given to the callbacks
  produced    \* history: the events output on each CPU while it had a ring

ringVars   == <<ring, head, tail, lost>>
readerVars == <<ready, reading, rd, stop>>
pbVars     == <<opened, ringVars, wake, readerVars, handled, produced>>

-----------------------------------------------------------------------------
Sample(e) == [event |-> e, n |-> 1]
Lost(m)   == [event |-> None, n |-> m]
Record    == [event : Events \cup {None}, n : Nat]

Slot(i) == i % Slots

\* An output needs a second slot when there are lost events to tell of.
Need(c) == IF lost[c] > 0 THEN 2 ELSE 1
Room(c) == head[c] - tail[c] + Need(c) <= Slots

\* The ring of c after e was written, the count of what was lost before it.
Write(c, e) ==
  IF lost[c] > 0
  THEN [ring[c] EXCEPT ![Slot(head[c])] = Lost(lost[c]), ![Slot(head[c] + 1)] = Sample(e)]
  ELSE [ring[c] EXCEPT ![Slot(head[c])] = Sample(e)]

\* bpf_perf_event_output(ctx, &events, BPF_F_CURRENT_CPU, ...) on CPU c.
output(c, e) ==
  /\ \/ /\ c \notin opened
        /\ UNCHANGED <<ring, head, lost, wake, produced>>
     \/ /\ c \in opened
        /\ Room(c)
        /\ ring' = [ring EXCEPT ![c] = Write(c, e)]
        /\ head' = [head EXCEPT ![c] = @ + Need(c)]
        /\ lost' = [lost EXCEPT ![c] = 0]
        /\ wake' = wake \cup {c}
        /\ produced' = [produced EXCEPT ![c] = Append(@, e)]
     \/ /\ c \in opened
        /\ ~Room(c)
        /\ lost' = [lost EXCEPT ![c] = @ + 1]
        /\ produced' = [produced EXCEPT ![c] = Append(@, e)]
        /\ UNCHANGED <<ring, head, wake>>
  /\ UNCHANGED <<opened, tail, readerVars, handled>>

\* perf_buffer__new gives CPU c its ring.
open_cpu_buf(c) ==
  /\ c \notin opened
  /\ opened' = opened \cup {c}
  /\ UNCHANGED <<ringVars, wake, readerVars, handled, produced>>

\* Mutant: the epoll set keeps the marks of rings that are gone.
free_marked ==
  /\ ready = {} /\ reading = None
  /\ opened' = {}
  /\ UNCHANGED <<ringVars, wake, readerVars, handled, produced>>

\* perf_buffer__free, at any moment outside of perf_buffer__poll: what has not
\* been read is gone.
free ==
  /\ ready = {} /\ reading = None
  /\ opened' = {}
  /\ wake' = {}
  /\ UNCHANGED <<ringVars, readerVars, handled, produced>>

-----------------------------------------------------------------------------
\* perf_buffer__poll.  epoll_wait returns the rings that were written since it
\* last did; reporting a ring clears its mark.
epoll_wait ==
  /\ ready = {} /\ reading = None
  /\ wake # {}
  /\ ready' = wake
  /\ wake' = {}
  /\ UNCHANGED <<opened, ringVars, reading, rd, stop, handled, produced>>

\* Mutant: the space of the batch is given back before it has been read.
read_begin_early(c) ==
  /\ reading = None
  /\ c \in ready
  /\ reading' = c
  /\ ready' = ready \ {c}
  /\ rd' = tail[c]
  /\ stop' = head[c]
  /\ tail' = [tail EXCEPT ![c] = head[c]]
  /\ UNCHANGED <<opened, ring, head, lost, wake, handled, produced>>

\* bpf_perf_event_read_simple on the next ring, in any order.
read_begin(c) ==
  /\ reading = None
  /\ c \in ready
  /\ reading' = c
  /\ ready' = ready \ {c}
  /\ rd' = tail[c]
  /\ stop' = head[c]
  /\ UNCHANGED <<opened, ringVars, wake, handled, produced>>

\* One record goes to its callback.
read_record ==
  /\ reading # None
  /\ rd < stop
  /\ handled' = [handled EXCEPT ![reading] = Append(@, ring[reading][Slot(rd)])]
  /\ rd' = rd + 1
  /\ UNCHANGED <<opened, ringVars, wake, ready, reading, stop, produced>>

\* Mutant: the mark of the ring is cleared after the batch, not before.
read_end_clears ==
  /\ reading # None
  /\ rd = stop
  /\ tail' = [tail EXCEPT ![reading] = stop]
  /\ wake' = wake \ {reading}
  /\ reading' = None
  /\ rd' = 0 /\ stop' = 0
  /\ UNCHANGED <<opened, ring, head, lost, ready, handled, produced>>

\* The batch is done: data_tail is written.
read_end ==
  /\ reading # None
  /\ rd = stop
  /\ tail' = [tail EXCEPT ![reading] = stop]
  /\ reading' = None
  /\ rd' = 0 /\ stop' = 0
  /\ UNCHANGED <<opened, ring, head, lost, wake, ready, handled, produced>>

-----------------------------------------------------------------------------
PBInit ==
  /\ opened = {}
  /\ ring = [c \in Cpus |-> [i \in 0 .. Slots - 1 |-> None]]
  /\ head = [c \in Cpus |-> 0]
  /\ tail = [c \in Cpus |-> 0]
  /\ lost = [c \in Cpus |-> 0]
  /\ wake = {} /\ ready = {} /\ reading = None
  /\ rd = 0 /\ stop = 0
  /\ handled = [c \in Cpus |-> <<>>]
  /\ produced = [c \in Cpus |-> <<>>]

\* The events output so far.
Outputs == MapThenSumSet(LAMBDA d : Len(produced[d]), Cpus)

\* Rings are opened once, before they are freed.
PBNext ==
  \/ \E c \in Cpus :
       \/ /\ Outputs < MaxOutput
          /\ \E e \in Events : output(c, e)
       \/ head[c] = 0 /\ lost[c] = 0 /\ open_cpu_buf(c)
       \/ read_begin(c)
  \/ epoll_wait \/ read_record \/ read_end
  \/ free

PBSpec == PBInit /\ [][PBNext]_pbVars

-----------------------------------------------------------------------------
PBTypeOK ==
  /\ opened \subseteq Cpus
  /\ ring \in [Cpus -> [0 .. Slots - 1 -> Record \cup {None}]]
  /\ head \in [Cpus -> Nat] /\ tail \in [Cpus -> Nat] /\ lost \in [Cpus -> Nat]
  /\ wake \subseteq opened
  /\ ready \subseteq opened
  /\ reading \in opened \cup {None}
  /\ rd \in Nat /\ stop \in Nat
  /\ handled \in [Cpus -> Seq(Record)]
  /\ produced \in [Cpus -> Seq(Events)]

\* What the callbacks got of CPU c so far, followed by what waits in its ring.
Position(c) == IF reading = c THEN rd ELSE tail[c]
Unread(c)   == [i \in 1 .. head[c] - Position(c) |-> ring[c][Slot(Position(c) + i - 1)]]
Stream(c)   == handled[c] \o Unread(c)

\* The number of output events that the first i records of s stand for, for each i.
Weights(s) == LET w[i \in 0 .. Len(s)] == IF i = 0 THEN 0 ELSE w[i - 1] + s[i].n
              IN  w

\* Nothing is overwritten, repeated or reordered on a CPU, and the counts of
\* handle_lost tell exactly how many events are missing and where: the sample
\* that follows records standing for m events is the event m + 1 of that CPU.
\* Events lost since the last sample wait in the counter.
Accounted(c) ==
  LET s == Stream(c)
      w == Weights(s)
  IN /\ \A i \in 1 .. Len(s) :
          s[i].event # None => s[i] = Sample(produced[c][w[i]])
     /\ w[Len(s)] + lost[c] = Len(produced[c])

LossAccounted == \A c \in Cpus : Accounted(c)

\* A record is never stranded: if a ring holds one beyond the batch that is
\* being read, epoll will still report that ring.
NoLostWakeup ==
  \A c \in opened :
    head[c] # (IF reading = c THEN stop ELSE tail[c]) => c \in wake \cup ready
-----------------------------------------------------------------------------
(***************************************************************************)
(* The inductive invariant (PerfBufferProofs).                             *)
(***************************************************************************)

\* The batch being read lies between the counters, which are at most a ring apart,
\* and every slot between them holds a record.
RingInv ==
  /\ \A c \in Cpus : tail[c] <= head[c] /\ head[c] - tail[c] <= Slots
  /\ reading # None => tail[reading] <= rd /\ rd <= stop /\ stop <= head[reading]
  /\ \A c \in Cpus : \A i \in tail[c] .. head[c] - 1 : ring[c][Slot(i)] \in Record

=============================================================================
