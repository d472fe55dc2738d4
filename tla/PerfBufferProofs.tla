-------------------------- MODULE PerfBufferProofs --------------------------
(***************************************************************************)
(* Proofs about PerfBuffer, for any CPUs, any size of the rings and any    *)
(* number of events: nothing that lies in a ring is overwritten, the lost  *)
(* events are accounted for, and no wakeup is missed.                      *)
(*                                                                         *)
(* There is a lemma per action and part of the invariant, without the      *)
(* bounds of PBNext, so that Etrace, which composes the actions with those *)
(* of main and of the programs, can use them.                              *)
(***************************************************************************)
EXTENDS PerfBuffer, NatLemmas, SequenceTheorems

\* The types, and where the counters are.
TypeInv == PBTypeOK /\ RingInv

-----------------------------------------------------------------------------
\* A slot is an index of the array.
LEMMA SlotType == ASSUME NEW i \in Nat PROVE Slot(i) \in 0 .. Slots - 1
BY SlotsAssumption DEF Slot

\* Two counters less than a ring apart have different slots.
LEMMA SlotsDiffer ==
  ASSUME NEW i \in Nat, NEW j \in Nat, i < j, j < i + Slots
  PROVE  Slot(i) # Slot(j)
BY SlotsAssumption, ModDiffer DEF Slot

\* What bpf_perf_event_output writes are records.
LEMMA RecordsWritten ==
  ASSUME NEW e \in Events, NEW m \in Nat
  PROVE  Sample(e) \in Record /\ Lost(m) \in Record
BY DEF Sample, Lost, Record

\* A write fills the slots at head and leaves alone those between tail and head.
LEMMA WriteRing ==
  ASSUME TypeInv, NEW c \in Cpus, NEW e \in Events, Room(c)
  PROVE  /\ Write(c, e) \in [0 .. Slots - 1 -> Record \cup {None}]
         /\ Need(c) \in {1, 2}
         /\ lost[c] > 0 => /\ Need(c) = 2
                           /\ Write(c, e)[Slot(head[c])] = Lost(lost[c])
                           /\ Write(c, e)[Slot(head[c] + 1)] = Sample(e)
         /\ lost[c] = 0 => /\ Need(c) = 1
                           /\ Write(c, e)[Slot(head[c])] = Sample(e)
         /\ \A i \in tail[c] .. head[c] - 1 : Write(c, e)[Slot(i)] = ring[c][Slot(i)]
<1>1. /\ head[c] \in Nat /\ tail[c] \in Nat /\ lost[c] \in Nat /\ Slots \in Nat
      /\ tail[c] <= head[c] /\ ring[c] \in [0 .. Slots - 1 -> Record \cup {None}]
  BY SlotsAssumption DEF TypeInv, PBTypeOK, RingInv
<1>2. Slot(head[c]) \in 0 .. Slots - 1 /\ Slot(head[c] + 1) \in 0 .. Slots - 1
  <2>1. head[c] \in Nat /\ head[c] + 1 \in Nat
    BY <1>1
  <2> QED BY <2>1, SlotType
<1>3. Sample(e) \in Record /\ Lost(lost[c]) \in Record
  BY <1>1, RecordsWritten
<1>4. Slot(head[c]) # Slot(head[c] + 1)
  BY <1>1, SlotsDiffer, SlotsAssumption
<1>5. CASE lost[c] > 0
  <2>1. Need(c) = 2 /\ head[c] + 2 <= tail[c] + Slots
    BY <1>1, <1>5 DEF Need, Room
  <2>2. Write(c, e) = [ring[c] EXCEPT ![Slot(head[c])] = Lost(lost[c]),
                                      ![Slot(head[c] + 1)] = Sample(e)]
    BY <1>5 DEF Write
  <2>3. ASSUME NEW i \in tail[c] .. head[c] - 1
        PROVE  Write(c, e)[Slot(i)] = ring[c][Slot(i)]
    <3>1. i \in Nat /\ i < head[c] /\ head[c] + 1 < i + Slots
      BY <1>1, <2>1
    <3>2. Slot(i) # Slot(head[c]) /\ Slot(i) # Slot(head[c] + 1)
      BY <1>1, <3>1, SlotsDiffer
    <3>3. Slot(i) \in 0 .. Slots - 1
      BY <3>1, SlotType
    <3> QED BY <1>1, <2>2, <3>2, <3>3
  <2>4. Write(c, e) \in [0 .. Slots - 1 -> Record \cup {None}]
    BY <1>1, <1>3, <2>2
  <2>5. /\ Write(c, e)[Slot(head[c])] = Lost(lost[c])
        /\ Write(c, e)[Slot(head[c] + 1)] = Sample(e)
    BY <1>1, <1>2, <1>4, <2>2
  <2> QED BY <1>5, <2>1, <2>3, <2>4, <2>5
<1>6. CASE lost[c] = 0
  <2>1. Need(c) = 1 /\ head[c] + 1 <= tail[c] + Slots
    BY <1>1, <1>6 DEF Need, Room
  <2>2. Write(c, e) = [ring[c] EXCEPT ![Slot(head[c])] = Sample(e)]
    BY <1>6 DEF Write
  <2>3. ASSUME NEW i \in tail[c] .. head[c] - 1
        PROVE  Write(c, e)[Slot(i)] = ring[c][Slot(i)]
    <3>1. i \in Nat /\ i < head[c] /\ head[c] < i + Slots
      BY <1>1, <2>1
    <3>2. Slot(i) # Slot(head[c])
      BY <1>1, <3>1, SlotsDiffer
    <3>3. Slot(i) \in 0 .. Slots - 1
      BY <3>1, SlotType
    <3> QED BY <1>1, <2>2, <3>2, <3>3
  <2> QED BY <1>1, <1>2, <1>3, <1>6, <2>1, <2>2, <2>3
<1> QED BY <1>1, <1>5, <1>6

-----------------------------------------------------------------------------
(***************************************************************************)
(* TypeInv, action by action.                                              *)
(***************************************************************************)

\* The rings start empty.
LEMMA InitType == PBInit => TypeInv
<1> SUFFICES ASSUME PBInit PROVE TypeInv
  OBVIOUS
<1>1. PBTypeOK
  BY SlotsAssumption DEF PBInit, PBTypeOK
<1>2. RingInv
  BY SlotsAssumption DEF PBInit, RingInv
<1> QED BY <1>1, <1>2 DEF TypeInv

\* An output leaves the counters at most a ring apart.
LEMMA OutputType ==
  ASSUME TypeInv, NEW c \in Cpus, NEW e \in Events, output(c, e)
  PROVE  TypeInv'
<1>1. UNCHANGED <<opened, tail, ready, reading, rd, stop, handled>>
  BY DEF output, readerVars
<1>2. CASE c \notin opened
  <2>1. UNCHANGED <<ring, head, lost, wake, produced>>
    BY <1>2 DEF output
  <2> QED BY <1>1, <2>1 DEF TypeInv, PBTypeOK, RingInv
<1>3. CASE c \in opened /\ ~Room(c)
  <2>1. /\ lost' = [lost EXCEPT ![c] = @ + 1]
        /\ produced' = [produced EXCEPT ![c] = Append(@, e)]
        /\ UNCHANGED <<ring, head, wake>>
    BY <1>3 DEF output
  <2>2. lost' \in [Cpus -> Nat] /\ produced' \in [Cpus -> Seq(Events)]
    BY <2>1 DEF TypeInv, PBTypeOK
  <2>3. PBTypeOK'
    BY <1>1, <2>1, <2>2 DEF TypeInv, PBTypeOK
  <2>4. RingInv'
    BY <1>1, <2>1 DEF TypeInv, RingInv
  <2> QED BY <2>3, <2>4 DEF TypeInv
<1>4. CASE c \in opened /\ Room(c)
  <2>1. /\ ring' = [ring EXCEPT ![c] = Write(c, e)]
        /\ head' = [head EXCEPT ![c] = @ + Need(c)]
        /\ lost' = [lost EXCEPT ![c] = 0]
        /\ wake' = wake \cup {c}
        /\ produced' = [produced EXCEPT ![c] = Append(@, e)]
    BY <1>4 DEF output
  <2>2. /\ Need(c) \in {1, 2}
        /\ Write(c, e) \in [0 .. Slots - 1 -> Record \cup {None}]
    BY <1>4, WriteRing
  <2>3. head \in [Cpus -> Nat] /\ tail \in [Cpus -> Nat] /\ lost \in [Cpus -> Nat]
    BY DEF TypeInv, PBTypeOK
  <2>4. produced' \in [Cpus -> Seq(Events)]
    BY <2>1 DEF TypeInv, PBTypeOK
  <2>5. head' \in [Cpus -> Nat] /\ lost' \in [Cpus -> Nat]
    BY <2>1, <2>2, <2>3
  <2>6. PBTypeOK'
    BY <1>1, <1>4, <2>1, <2>2, <2>4, <2>5 DEF TypeInv, PBTypeOK
  <2>7. \A d \in Cpus : tail'[d] <= head'[d] /\ head'[d] - tail'[d] <= Slots
    BY <1>1, <1>4, <2>1, <2>2, <2>3, SlotsAssumption DEF TypeInv, RingInv, Room
  <2>8. reading' # None => tail'[reading'] <= rd' /\ rd' <= stop' /\ stop' <= head'[reading']
    BY <1>1, <2>1, <2>2, <2>3 DEF TypeInv, RingInv, PBTypeOK
  <2>9. ASSUME NEW d \in Cpus, NEW i \in tail'[d] .. head'[d] - 1
        PROVE  ring'[d][Slot(i)] \in Record
    <3>1. CASE d # c
      BY <1>1, <2>1, <2>3, <3>1 DEF TypeInv, RingInv, PBTypeOK
    <3>2. CASE d = c
      <4>1. i \in tail[c] .. head[c] + Need(c) - 1 /\ ring'[c] = Write(c, e)
        BY <1>1, <2>1, <2>2, <2>3, <3>2 DEF TypeInv, PBTypeOK
      <4>2. Sample(e) \in Record /\ Lost(lost[c]) \in Record /\ lost[c] \in Nat
        BY <2>3, RecordsWritten
      <4>3. CASE i \in tail[c] .. head[c] - 1
        BY <1>4, <3>2, <4>1, <4>3, WriteRing DEF TypeInv, RingInv
      <4>4. CASE i = head[c]
        BY <1>4, <3>2, <4>1, <4>2, <4>4, WriteRing
      <4>5. CASE i = head[c] + 1 /\ Need(c) = 2
        BY <1>4, <3>2, <4>1, <4>2, <4>5, WriteRing
      <4>6. head[c] \in Nat /\ tail[c] \in Nat
        BY <2>3
      <4> QED BY <2>2, <4>1, <4>3, <4>4, <4>5, <4>6
    <3> QED BY <3>1, <3>2
  <2>10. RingInv'
    BY <2>7, <2>8, <2>9 DEF RingInv, Slot
  <2> QED BY <2>6, <2>10 DEF TypeInv
<1> QED BY <1>2, <1>3, <1>4

\* perf_buffer__new, perf_buffer__free and epoll_wait leave the rings alone.
LEMMA PollType ==
  ASSUME TypeInv, (\E c \in Cpus : open_cpu_buf(c)) \/ free \/ epoll_wait
  PROVE  TypeInv'
<1>1. UNCHANGED <<ring, head, tail, lost, reading, rd, stop, handled, produced>>
  BY DEF open_cpu_buf, free, epoll_wait, ringVars, readerVars
<1>2. RingInv'
  BY <1>1 DEF TypeInv, RingInv
<1>3. /\ opened' \subseteq Cpus
      /\ wake' \subseteq opened' /\ ready' \subseteq opened'
      /\ reading' \in opened' \cup {None}
  BY DEF TypeInv, PBTypeOK, open_cpu_buf, free, epoll_wait, readerVars
<1>4. PBTypeOK'
  BY <1>1, <1>3 DEF TypeInv, PBTypeOK
<1> QED BY <1>2, <1>4 DEF TypeInv

\* The reader stays between the counters: it starts at tail, stops at what was
\* head, and moves tail there.
LEMMA ReadType ==
  ASSUME TypeInv, (\E c \in Cpus : read_begin(c)) \/ read_record \/ read_end
  PROVE  TypeInv'
<1> USE NoEventAssumption
<1>1. CASE \E c \in Cpus : read_begin(c)
  <2>1. PICK c \in Cpus :
          /\ c \in ready /\ reading' = c /\ ready' = ready \ {c}
          /\ rd' = tail[c] /\ stop' = head[c]
          /\ UNCHANGED <<opened, ring, head, tail, lost, wake, handled, produced>>
    BY <1>1 DEF read_begin, ringVars
  <2>2. PBTypeOK'
    BY <2>1 DEF TypeInv, PBTypeOK
  <2>3. head[c] \in Nat /\ tail[c] \in Nat /\ tail[c] <= head[c]
    BY DEF TypeInv, PBTypeOK, RingInv
  <2>4. tail'[reading'] <= rd' /\ rd' <= stop' /\ stop' <= head'[reading']
    BY <2>1, <2>3
  <2>5. RingInv'
    BY <2>1, <2>4 DEF TypeInv, RingInv
  <2> QED BY <2>2, <2>5 DEF TypeInv
<1>2. CASE read_record
  <2> DEFINE r == ring[reading][Slot(rd)]
  <2>1. /\ reading \in Cpus /\ reading # None /\ rd < stop /\ rd' = rd + 1
        /\ handled' = [handled EXCEPT ![reading] = Append(@, r)]
        /\ UNCHANGED <<opened, ring, head, tail, lost, wake, ready, reading, stop, produced>>
    BY <1>2 DEF read_record, ringVars, TypeInv, PBTypeOK
  <2>2. /\ rd \in Nat /\ stop \in Nat /\ tail[reading] \in Nat /\ head[reading] \in Nat
        /\ tail[reading] <= rd /\ stop <= head[reading]
    BY <2>1 DEF TypeInv, PBTypeOK, RingInv
  <2>3. rd \in tail[reading] .. head[reading] - 1
    BY <2>1, <2>2
  <2>4. r \in Record
    BY <2>1, <2>3 DEF TypeInv, RingInv
  <2> HIDE DEF r
  <2>5. handled' \in [Cpus -> Seq(Record)]
    BY <2>1, <2>4 DEF TypeInv, PBTypeOK
  <2>6. PBTypeOK'
    <3>1. rd' \in Nat
      BY <2>1, <2>2
    <3> QED BY <2>1, <2>5, <3>1 DEF TypeInv, PBTypeOK
  <2>7. RingInv'
    BY <2>1, <2>2 DEF TypeInv, RingInv
  <2> QED BY <2>6, <2>7 DEF TypeInv
<1>3. CASE read_end
  <2>1. /\ reading \in Cpus /\ reading # None /\ rd = stop
        /\ tail' = [tail EXCEPT ![reading] = stop]
        /\ reading' = None /\ rd' = 0 /\ stop' = 0
        /\ UNCHANGED <<opened, ring, head, lost, wake, ready, handled, produced>>
    BY <1>3 DEF read_end, TypeInv, PBTypeOK
  <2>2. /\ head \in [Cpus -> Nat] /\ tail \in [Cpus -> Nat] /\ stop \in Nat
        /\ tail[reading] <= stop /\ stop <= head[reading]
    BY <2>1 DEF TypeInv, PBTypeOK, RingInv
  <2>3. PBTypeOK'
    BY <2>1, <2>2 DEF TypeInv, PBTypeOK
  <2>4. \A d \in Cpus : /\ tail[d] <= tail'[d] /\ tail'[d] <= head[d]
                        /\ tail'[d] \in Nat
    BY <2>1, <2>2 DEF TypeInv, RingInv
  <2>5. RingInv'
    BY <2>1, <2>2, <2>4, SlotsAssumption DEF TypeInv, RingInv
  <2> QED BY <2>3, <2>5 DEF TypeInv
<1> QED BY <1>1, <1>2, <1>3

-----------------------------------------------------------------------------
(***************************************************************************)
(* NoLostWakeup, action by action.                                         *)
(***************************************************************************)

\* An output that moves head marks the ring.
LEMMA OutputWakes ==
  ASSUME TypeInv, NoLostWakeup, NEW c \in Cpus, NEW e \in Events, output(c, e)
  PROVE  NoLostWakeup'
<1>1. /\ UNCHANGED <<opened, tail, ready, reading, stop>>
      /\ wake \subseteq wake'
      /\ \A d \in Cpus : head'[d] # head[d] => d \in wake'
  BY DEF output, readerVars, TypeInv, PBTypeOK
<1> QED BY <1>1 DEF NoLostWakeup, TypeInv, PBTypeOK

\* A new ring is empty; epoll_wait hands the marks over; the rings of free are gone.
LEMMA PollWakes ==
  ASSUME TypeInv, NoLostWakeup,
         \/ \E c \in Cpus : open_cpu_buf(c) /\ head[c] = 0
         \/ free
         \/ epoll_wait
  PROVE  NoLostWakeup'
<1>1. UNCHANGED <<head, tail, reading, stop>>
  BY DEF open_cpu_buf, free, epoll_wait, ringVars, readerVars
<1>2. CASE free
  BY <1>2 DEF free, NoLostWakeup
<1>3. CASE epoll_wait
  <2>1. wake' \cup ready' = wake \cup ready /\ opened' = opened
    BY <1>3 DEF epoll_wait
  <2> QED BY <1>1, <2>1 DEF NoLostWakeup
<1>4. CASE \E c \in Cpus : open_cpu_buf(c) /\ head[c] = 0
  <2>1. PICK c \in Cpus : open_cpu_buf(c) /\ head[c] = 0
    BY <1>4
  <2>2. c \notin opened /\ opened' = opened \cup {c} /\ UNCHANGED <<wake, ready>>
    BY <2>1 DEF open_cpu_buf, readerVars
  <2>3. reading # c
    BY <2>2, NoEventAssumption DEF TypeInv, PBTypeOK
  <2>4. tail[c] = 0
    BY <2>1 DEF TypeInv, PBTypeOK, RingInv
  <2> QED BY <1>1, <2>1, <2>2, <2>3, <2>4 DEF NoLostWakeup
<1> QED BY <1>2, <1>3, <1>4

\* The mark of a ring is gone before its head is read, and tail becomes that head.
LEMMA ReadWakes ==
  ASSUME TypeInv, NoLostWakeup,
         (\E c \in Cpus : read_begin(c)) \/ read_record \/ read_end
  PROVE  NoLostWakeup'
<1> USE NoEventAssumption
<1>1. CASE \E c \in Cpus : read_begin(c)
  <2>1. PICK c \in Cpus :
          /\ reading = None /\ reading' = c /\ ready' = ready \ {c} /\ stop' = head[c]
          /\ UNCHANGED <<opened, head, tail, wake>>
    BY <1>1 DEF read_begin, ringVars
  <2> QED BY <2>1 DEF NoLostWakeup, TypeInv, PBTypeOK
<1>2. CASE read_record
  BY <1>2 DEF read_record, ringVars, NoLostWakeup
<1>3. CASE read_end
  <2>1. /\ reading \in Cpus /\ tail' = [tail EXCEPT ![reading] = stop] /\ reading' = None
        /\ UNCHANGED <<opened, head, wake, ready>>
    BY <1>3 DEF read_end, TypeInv, PBTypeOK
  <2>2. tail \in [Cpus -> Nat] /\ opened \subseteq Cpus
    BY DEF TypeInv, PBTypeOK
  <2> QED BY <2>1, <2>2 DEF NoLostWakeup
<1> QED BY <1>1, <1>2, <1>3

-----------------------------------------------------------------------------
(***************************************************************************)
(* Weights.  The definition is recursive; SetInduction stands in for the   *)
(* induction over the length of the sequence.                              *)
(***************************************************************************)

\* w is Weights(s) up to n.
IsWeights(w, s, n) ==
  /\ w \in [0 .. n -> Nat]
  /\ \A i \in 0 .. n : w[i] = IF i = 0 THEN 0 ELSE w[i - 1] + s[i].n

\* There is such a function for every prefix of the sequence.
LEMMA WeightsExist ==
  ASSUME NEW s \in Seq(Record)
  PROVE  \E w : IsWeights(w, s, Len(s))
<1> DEFINE S == {n \in Nat : \E w : IsWeights(w, s, n)}
<1>1. 0 \in S
  <2>1. IsWeights([i \in 0 .. 0 |-> 0], s, 0)
    BY DEF IsWeights
  <2> QED BY <2>1
<1>2. ASSUME NEW n \in 0 .. Len(s) - 1, n \in S
      PROVE  n + 1 \in S
  <2>1. PICK w : IsWeights(w, s, n)
    BY <1>2
  <2> DEFINE m == s[n + 1].n
             v == [i \in 0 .. n + 1 |-> IF i = n + 1 THEN w[n] + m ELSE w[i]]
  <2>2. m \in Nat
    <3>1. s[n + 1] \in Record
      OBVIOUS
    <3> QED BY <3>1 DEF Record
  <2>3. v \in [0 .. n + 1 -> Nat]
    BY <2>1, <2>2 DEF IsWeights
  <2>4. ASSUME NEW i \in 0 .. n + 1
        PROVE  v[i] = IF i = 0 THEN 0 ELSE v[i - 1] + s[i].n
    BY <2>1 DEF IsWeights
  <2>5. IsWeights(v, s, n + 1)
    BY <2>3, <2>4 DEF IsWeights
  <2> QED BY <2>5
<1> HIDE DEF S
<1>3. Len(s) \in Nat
  OBVIOUS
<1>4. \A n \in 0 .. Len(s) - 1 : n \in S => n + 1 \in S
  BY <1>2
<1>5. \A n \in 0 .. Len(s) : n \in S
  BY <1>1, <1>3, <1>4, SetInduction
<1>6. Len(s) \in S
  BY <1>3, <1>5
<1> QED BY <1>6 DEF S

\* The equations of the recursive definition.
LEMMA WeightsDef ==
  ASSUME NEW s \in Seq(Record)
  PROVE  /\ Weights(s) \in [0 .. Len(s) -> Nat]
         /\ Weights(s)[0] = 0
         /\ \A i \in 1 .. Len(s) : Weights(s)[i] = Weights(s)[i - 1] + s[i].n
<1> DEFINE F(w) == [i \in 0 .. Len(s) |-> IF i = 0 THEN 0 ELSE w[i - 1] + s[i].n]
<1>1. PICK w : IsWeights(w, s, Len(s))
  BY WeightsExist
<1>2. w = F(w)
  BY <1>1 DEF IsWeights
<1>3. Weights(s) = CHOOSE v : v = F(v)
  BY DEF Weights
<1>4. Weights(s) = F(Weights(s))
  BY <1>2, <1>3, Zenon
<1> DEFINE v == Weights(s)
           S == {n \in Nat : n <= Len(s) => v[n] \in Nat}
<1>5. Len(s) \in Nat
  OBVIOUS
<1>6. /\ DOMAIN v = 0 .. Len(s)
      /\ v[0] = 0
      /\ \A i \in 1 .. Len(s) : v[i] = v[i - 1] + s[i].n
  BY <1>4, <1>5
<1> HIDE DEF v, F
<1>7. 0 \in S
  BY <1>6
<1>8. \A n \in 0 .. Len(s) - 1 : n \in S => n + 1 \in S
  <2> SUFFICES ASSUME NEW n \in 0 .. Len(s) - 1, n \in S PROVE n + 1 \in S
    OBVIOUS
  <2>1. s[n + 1] \in Record
    BY <1>5
  <2>2. s[n + 1].n \in Nat /\ v[n] \in Nat
    BY <1>5, <2>1 DEF Record
  <2>3. v[n + 1] = v[n] + s[n + 1].n
    BY <1>5, <1>6
  <2> QED BY <2>2, <2>3
<1> HIDE DEF S
<1>9. \A n \in 0 .. Len(s) : n \in S
  BY <1>5, <1>7, <1>8, SetInduction
<1>10. \A n \in 0 .. Len(s) : v[n] \in Nat
  BY <1>5, <1>9 DEF S
<1>11. v = [n \in 0 .. Len(s) |-> v[n]]
  BY <1>4, <1>6 DEF F, v
<1>12. v \in [0 .. Len(s) -> Nat]
  BY <1>10, <1>11
<1> QED BY <1>6, <1>12 DEF v

\* One more record changes no earlier weight.
LEMMA WeightsAppend ==
  ASSUME NEW s \in Seq(Record), NEW r \in Record
  PROVE  /\ \A i \in 0 .. Len(s) : Weights(Append(s, r))[i] = Weights(s)[i]
         /\ Weights(Append(s, r))[Len(s) + 1] = Weights(s)[Len(s)] + r.n
<1> DEFINE t == Append(s, r)
           w == Weights(s)
           v == Weights(t)
           S == {i \in Nat : v[i] = w[i]}
<1>1. /\ Len(s) \in Nat /\ t \in Seq(Record) /\ Len(t) = Len(s) + 1
      /\ t[Len(s) + 1] = r /\ \A i \in 1 .. Len(s) : t[i] = s[i]
  OBVIOUS
<1> HIDE DEF t
<1>2. /\ w[0] = 0
      /\ \A i \in 1 .. Len(s) : w[i] = w[i - 1] + s[i].n
  BY WeightsDef
<1>3. /\ v[0] = 0
      /\ \A i \in 1 .. Len(t) : v[i] = v[i - 1] + t[i].n
  BY <1>1, WeightsDef
<1> HIDE DEF w, v
<1>4. 0 \in S
  BY <1>2, <1>3
<1>5. \A n \in 0 .. Len(s) - 1 : n \in S => n + 1 \in S
  BY <1>1, <1>2, <1>3
<1> HIDE DEF S
<1>6. \A n \in 0 .. Len(s) : n \in S
  BY <1>1, <1>4, <1>5, SetInduction
<1>7. \A n \in 0 .. Len(s) : v[n] = w[n]
  BY <1>1, <1>6 DEF S
<1>8. v[Len(s) + 1] = w[Len(s)] + r.n
  BY <1>1, <1>3, <1>7
<1> QED BY <1>7, <1>8 DEF t, w, v

\* Weights grow.
LEMMA WeightsMonotonic ==
  ASSUME NEW s \in Seq(Record), NEW i \in 0 .. Len(s)
  PROVE  Weights(s)[i] <= Weights(s)[Len(s)]
<1> DEFINE w == Weights(s)
           S == {k \in Nat : i + k <= Len(s) => w[i] <= w[i + k]}
<1>1. Len(s) \in Nat /\ i \in Nat /\ Len(s) - i \in Nat
  OBVIOUS
<1>2. w \in [0 .. Len(s) -> Nat]
      /\ \A k \in 1 .. Len(s) : w[k] = w[k - 1] + s[k].n /\ s[k] \in Record
  BY WeightsDef
<1> HIDE DEF w
<1>3. 0 \in S
  BY <1>1, <1>2
<1>4. \A n \in 0 .. Len(s) - i - 1 : n \in S => n + 1 \in S
  <2> SUFFICES ASSUME NEW n \in 0 .. Len(s) - i - 1, n \in S PROVE n + 1 \in S
    OBVIOUS
  <2>1. i + n \in 0 .. Len(s) /\ i + n + 1 \in 1 .. Len(s) /\ n \in Nat
    BY <1>1
  <2>2. w[i] <= w[i + n] /\ w[i + n] \in Nat /\ w[i] \in Nat
    BY <1>1, <1>2, <2>1
  <2>3. w[i + n + 1] = w[i + n] + s[i + n + 1].n /\ s[i + n + 1].n \in Nat
    BY <1>1, <1>2, <2>1 DEF Record
  <2>4. i + (n + 1) = i + n + 1 /\ w[i] <= w[i + n + 1]
    BY <1>1, <2>1, <2>2, <2>3
  <2>5. w[i] <= w[i + (n + 1)]
    BY <2>4
  <2> QED BY <2>1, <2>5
<1> HIDE DEF S
<1>5. \A n \in 0 .. Len(s) - i : n \in S
  BY <1>1, <1>3, <1>4, SetInduction
<1>6. Len(s) - i \in S
  BY <1>1, <1>5
<1>7. i + (Len(s) - i) = Len(s)
  BY <1>1
<1> QED BY <1>1, <1>6, <1>7 DEF S, w

-----------------------------------------------------------------------------
(***************************************************************************)
(* LossAccounted, action by action.                                        *)
(***************************************************************************)

\* The elements of the stream of a CPU.
StreamOf(c) ==
  /\ Position(c) \in tail[c] .. head[c] /\ handled[c] \in Seq(Record)
  /\ head[c] \in Nat /\ tail[c] \in Nat
  /\ Stream(c) \in Seq(Record)
  /\ Len(Stream(c)) = Len(handled[c]) + (head[c] - Position(c))
  /\ \A i \in 1 .. Len(Stream(c)) :
       Stream(c)[i] = IF i <= Len(handled[c]) THEN handled[c][i]
                      ELSE ring[c][Slot(Position(c) + (i - Len(handled[c])) - 1)]

Streams == \A c \in Cpus : StreamOf(c)

\* Position by position, the stream is what was handled and then what the ring holds.
LEMMA StreamIs == TypeInv => Streams
<1> SUFFICES ASSUME TypeInv, NEW c \in Cpus PROVE StreamOf(c)
  BY DEF Streams
<1> DEFINE P == Position(c)
           U == [i \in 1 .. head[c] - P |-> ring[c][Slot(P + i - 1)]]
           H == handled[c]
<1>1. /\ head[c] \in Nat /\ tail[c] \in Nat /\ H \in Seq(Record)
      /\ P \in tail[c] .. head[c]
  BY NoEventAssumption DEF TypeInv, PBTypeOK, RingInv, Position
<1>2. Stream(c) = H \o U
  BY DEF Stream, Unread
<1> HIDE DEF P, H
<1>3. \A i \in 1 .. head[c] - P : ring[c][Slot(P + i - 1)] \in Record
  <2> SUFFICES ASSUME NEW i \in 1 .. head[c] - P
               PROVE  ring[c][Slot(P + i - 1)] \in Record
    OBVIOUS
  <2>1. P + i - 1 \in tail[c] .. head[c] - 1
    BY <1>1
  <2> QED BY <2>1 DEF TypeInv, RingInv
<1>4. head[c] - P \in Nat
  BY <1>1
<1>5. U \in Seq(Record) /\ Len(U) = head[c] - P
      /\ \A i \in 1 .. head[c] - P : U[i] = ring[c][Slot(P + i - 1)]
  BY <1>3, <1>4
<1> HIDE DEF U
<1>6. /\ H \o U \in Seq(Record)
      /\ Len(H \o U) = Len(H) + Len(U)
      /\ \A i \in 1 .. Len(H) + Len(U) :
           (H \o U)[i] = IF i <= Len(H) THEN H[i] ELSE U[i - Len(H)]
  BY <1>1, <1>5, ConcatProperties
<1>7. ASSUME NEW i \in 1 .. Len(Stream(c))
      PROVE  Stream(c)[i] = IF i <= Len(H) THEN H[i] ELSE ring[c][Slot(P + (i - Len(H)) - 1)]
  <2>1. i \in 1 .. Len(H) + Len(U) /\ Len(H) \in Nat /\ Len(U) \in Nat
    BY <1>1, <1>2, <1>5, <1>6
  <2>2. ~(i <= Len(H)) => i - Len(H) \in 1 .. head[c] - P
    BY <1>1, <1>5, <2>1
  <2> QED BY <1>2, <1>5, <1>6, <2>1, <2>2
<1> QED BY <1>1, <1>2, <1>5, <1>6, <1>7 DEF P, H, StreamOf

\* Accounted depends on the stream, the events output and the count of the lost ones.
LEMMA AccountedKept ==
  ASSUME NEW c \in Cpus, Accounted(c),
         Stream(c)' = Stream(c), produced'[c] = produced[c], lost'[c] = lost[c]
  PROVE  Accounted(c)'
BY DEF Accounted

\* The first event of all is produced before the streams have records.
LEMMA InitAccounted == PBInit => LossAccounted
<1> SUFFICES ASSUME PBInit, NEW c \in Cpus PROVE Accounted(c)
  BY DEF LossAccounted
<1>1. TypeInv
  BY InitType
<1>2. /\ handled[c] = <<>> /\ head[c] = 0 /\ tail[c] = 0 /\ lost[c] = 0
      /\ produced[c] = <<>>
  BY DEF PBInit
<1>3. Stream(c) \in Seq(Record) /\ Len(Stream(c)) = 0
  <2>1. StreamOf(c)
    BY <1>1, StreamIs DEF Streams
  <2>2. Position(c) = 0 /\ Len(handled[c]) = 0
    BY <1>2, <2>1 DEF StreamOf
  <2> QED BY <1>2, <2>1, <2>2 DEF StreamOf
<1>4. Weights(Stream(c))[0] = 0
  BY <1>3, WeightsDef
<1> QED BY <1>2, <1>3, <1>4 DEF Accounted

\* A record that goes to a callback leaves the ring and joins what was handled; the
\* other steps of main move nothing.
LEMMA ReadAccounted ==
  ASSUME TypeInv, LossAccounted,
         (\E c \in Cpus : read_begin(c)) \/ read_record \/ read_end
  PROVE  LossAccounted'
<1> SUFFICES ASSUME NEW d \in Cpus PROVE Accounted(d)'
  BY DEF LossAccounted
<1>1. TypeInv'
  BY ReadType
<1>2. UNCHANGED <<ring, head, lost, produced>>
  BY DEF read_begin, read_record, read_end, ringVars
<1>3. CASE handled'[d] = handled[d] /\ Position(d)' = Position(d)
  <2>1. Stream(d)' = Stream(d)
    BY <1>2, <1>3 DEF Stream, Unread, Slot
  <2> QED BY <1>2, <2>1, AccountedKept DEF LossAccounted
<1>4. CASE read_record /\ reading = d
  <2> DEFINE n == Len(handled[d])
             r == ring[d][Slot(rd)]
  <2>1. /\ d # None /\ rd < stop /\ rd' = rd + 1 /\ reading' = d
        /\ handled' = [handled EXCEPT ![d] = Append(@, r)]
    BY <1>4 DEF read_record
  <2>2. /\ rd \in Nat /\ stop \in Nat /\ stop <= head[d] /\ handled \in [Cpus -> Seq(Record)]
        /\ head[d] \in Nat
    BY <1>4, <2>1 DEF TypeInv, PBTypeOK, RingInv
  <2>3. Position(d) = rd /\ Position(d)' = rd + 1
    BY <1>4, <2>1 DEF Position
  <2>4. handled'[d] = Append(handled[d], r) /\ handled[d] \in Seq(Record)
    BY <2>1, <2>2
  <2>5. handled'[d] \in Seq(Record)
    BY <1>1 DEF TypeInv, PBTypeOK
  <2>6. n \in Nat /\ Len(handled'[d]) = n + 1 /\ handled'[d][n + 1] = r
        /\ \A i \in 1 .. n : handled'[d][i] = handled[d][i]
    BY <2>4
  <2> DEFINE s == Stream(d)
             t == Stream(d)'
  <2>7. /\ s \in Seq(Record) /\ Len(s) = n + (head[d] - rd)
        /\ \A i \in 1 .. Len(s) :
             s[i] = IF i <= n THEN handled[d][i] ELSE ring[d][Slot(rd + (i - n) - 1)]
    BY <2>3, StreamIs DEF Streams, StreamOf
  <2>8. /\ t \in Seq(Record) /\ Len(t) = n + 1 + (head[d] - (rd + 1))
        /\ \A i \in 1 .. Len(t) :
             t[i] = IF i <= n + 1 THEN handled'[d][i]
                    ELSE ring[d][Slot(rd + 1 + (i - (n + 1)) - 1)]
    <3>1. /\ t \in Seq(Record) /\ Len(t) = Len(handled'[d]) + (head'[d] - Position(d)')
          /\ \A i \in 1 .. Len(t) :
              t[i] = IF i <= Len(handled'[d]) THEN handled'[d][i]
                     ELSE ring'[d][Slot(Position(d)' + (i - Len(handled'[d])) - 1)]
      <4>1. (TypeInv => Streams)'
        BY StreamIs, PTL
      <4> QED BY <1>1, <4>1 DEF Streams, StreamOf
    <3> QED BY <1>2, <2>3, <2>6, <3>1
  <2> HIDE DEF s, t, n, r
  <2>9. Len(t) = Len(s)
    BY <2>2, <2>6, <2>7, <2>8
  <2>10. ASSUME NEW i \in 1 .. Len(s) PROVE t[i] = s[i]
    <3>1. i \in Nat /\ i >= 1 /\ i \in 1 .. Len(t)
      BY <2>7, <2>9
    <3>2. CASE i <= n
      BY <2>6, <2>7, <2>8, <3>1, <3>2
    <3>3. CASE i = n + 1
      <4>1. rd + (i - n) - 1 = rd
        BY <2>2, <2>6, <3>3
      <4>2. s[i] = ring[d][Slot(rd + (i - n) - 1)]
        BY <2>6, <2>7, <3>1, <3>3
      <4>3. t[i] = r
        BY <2>6, <2>8, <3>1, <3>3
      <4> QED BY <4>1, <4>2, <4>3 DEF r
    <3>4. CASE i > n + 1
      <4>1. rd + (i - n) - 1 = rd + 1 + (i - (n + 1)) - 1
        BY <2>2, <2>6, <3>1
      <4>2. s[i] = ring[d][Slot(rd + (i - n) - 1)]
        BY <2>6, <2>7, <3>1, <3>4
      <4>3. t[i] = ring[d][Slot(rd + 1 + (i - (n + 1)) - 1)]
        BY <2>6, <2>8, <3>1, <3>4
      <4> QED BY <4>1, <4>2, <4>3
    <3> QED BY <2>6, <3>1, <3>2, <3>3, <3>4
  <2>11. t = s
    BY <2>7, <2>8, <2>9, <2>10, SeqEqual
  <2> QED BY <1>2, <2>11, AccountedKept DEF LossAccounted, s, t
<1>5. CASE read_record /\ reading # d
  <2>1. handled'[d] = handled[d] /\ Position(d)' = Position(d)
    BY <1>5 DEF read_record, ringVars, Position, TypeInv, PBTypeOK
  <2> QED BY <1>3, <2>1
<1>6. CASE \E c \in Cpus : read_begin(c)
  <2>1. handled'[d] = handled[d] /\ Position(d)' = Position(d)
    BY <1>6, NoEventAssumption DEF read_begin, ringVars, Position
  <2> QED BY <1>3, <2>1
<1>7. CASE read_end
  <2>1. reading \in Cpus /\ rd = stop /\ tail' = [tail EXCEPT ![reading] = stop]
        /\ reading' = None /\ handled' = handled
    BY <1>7 DEF read_end, TypeInv, PBTypeOK
  <2>2. tail \in [Cpus -> Nat]
    BY DEF TypeInv, PBTypeOK
  <2>3. Position(d)' = Position(d)
    BY <2>1, <2>2, NoEventAssumption DEF Position
  <2> QED BY <1>3, <2>1, <2>3
<1> QED BY <1>4, <1>5, <1>6, <1>7

\* perf_buffer__new, perf_buffer__free and epoll_wait move nothing.
LEMMA PollAccounted ==
  ASSUME TypeInv, LossAccounted, (\E c \in Cpus : open_cpu_buf(c)) \/ free \/ epoll_wait
  PROVE  LossAccounted'
<1> SUFFICES ASSUME NEW d \in Cpus PROVE Accounted(d)'
  BY DEF LossAccounted
<1>1. UNCHANGED <<ring, head, tail, lost, reading, rd, handled, produced>>
  BY DEF open_cpu_buf, free, epoll_wait, ringVars, readerVars
<1>2. Stream(d)' = Stream(d)
  BY <1>1 DEF Stream, Unread, Slot, Position
<1> QED BY <1>1, <1>2, AccountedKept DEF LossAccounted

\* The weight at a sample is the number of an event that was output.
LEMMA SampleWeight ==
  ASSUME NEW s \in Seq(Record), NEW p \in Seq(Events), NEW m \in Nat,
         NEW i \in 1 .. Len(s), NEW e, s[i] = Sample(e),
         Weights(s)[Len(s)] + m = Len(p)
  PROVE  Weights(s)[i] \in 1 .. Len(p)
<1>1. Len(s) \in Nat /\ Len(p) \in Nat /\ i \in 0 .. Len(s) /\ s[i].n = 1
  BY DEF Sample
<1>2. Weights(s)[i] = Weights(s)[i - 1] + s[i].n
  BY WeightsDef
<1>3. Weights(s)[i - 1] \in Nat /\ Weights(s)[i] \in Nat /\ Weights(s)[Len(s)] \in Nat
  <2> DEFINE w == Weights(s)
  <2>1. w \in [0 .. Len(s) -> Nat]
    BY WeightsDef
  <2>2. i - 1 \in 0 .. Len(s) /\ Len(s) \in 0 .. Len(s)
    BY <1>1
  <2> HIDE DEF w
  <2>3. w[i - 1] \in Nat /\ w[i] \in Nat /\ w[Len(s)] \in Nat
    BY <1>1, <2>1, <2>2
  <2> QED BY <2>3 DEF w
<1>4. Weights(s)[i] <= Weights(s)[Len(s)]
  BY <1>1, WeightsMonotonic
<1> QED BY <1>1, <1>2, <1>3, <1>4

\* A sample that follows the count of what was lost keeps the account.
LEMMA AppendAccounted ==
  ASSUME NEW s \in Seq(Record), NEW t, NEW e \in Events, NEW m \in Nat,
         NEW p \in Seq(Events),
         \A i \in 1 .. Len(s) : s[i].event # None => s[i] = Sample(p[Weights(s)[i]]),
         Weights(s)[Len(s)] + m = Len(p),
         \/ m > 0 /\ t = Append(Append(s, Lost(m)), Sample(e))
         \/ m = 0 /\ t = Append(s, Sample(e))
  PROVE  /\ \A i \in 1 .. Len(t) :
              t[i].event # None => t[i] = Sample(Append(p, e)[Weights(t)[i]])
         /\ Weights(t)[Len(t)] = Len(Append(p, e))
<1> DEFINE q == Append(p, e)
<1>1. /\ q \in Seq(Events) /\ Len(q) = Len(p) + 1 /\ Len(p) \in Nat /\ q[Len(p) + 1] = e
      /\ \A i \in 1 .. Len(p) : q[i] = p[i]
  OBVIOUS
<1> HIDE DEF q
<1>2. Sample(e) \in Record /\ Sample(e).n = 1 /\ Lost(m) \in Record /\ Lost(m).n = m
      /\ Lost(m).event = None
  BY RecordsWritten DEF Sample, Lost
<1>3. Len(s) \in Nat /\ \A i \in 1 .. Len(s) : s[i] \in Record
  OBVIOUS
<1>4. Weights(s) \in [0 .. Len(s) -> Nat] /\ Weights(s)[0] = 0
  BY WeightsDef
\* A sample of s still stands for the event it stood for.
<1>5. \A i \in 1 .. Len(s) : s[i].event # None => s[i] = Sample(q[Weights(s)[i]])
  <2> SUFFICES ASSUME NEW i \in 1 .. Len(s), s[i].event # None
               PROVE  s[i] = Sample(q[Weights(s)[i]])
    OBVIOUS
  <2>1. s[i] = Sample(p[Weights(s)[i]])
    OBVIOUS
  <2>2. Weights(s)[i] \in 1 .. Len(p)
    BY <2>1, SampleWeight
  <2> QED BY <1>1, <2>1, <2>2
<1>6. CASE m = 0
  <2>1. t = Append(s, Sample(e))
    BY <1>6
  <2>2. /\ Len(t) = Len(s) + 1 /\ t[Len(s) + 1] = Sample(e)
        /\ \A i \in 1 .. Len(s) : t[i] = s[i]
    BY <1>2, <2>1
  <2>3. /\ \A i \in 0 .. Len(s) : Weights(t)[i] = Weights(s)[i]
        /\ Weights(t)[Len(s) + 1] = Weights(s)[Len(s)] + 1
    BY <1>2, <2>1, WeightsAppend
  <2>4. Weights(t)[Len(s) + 1] = Len(p) + 1
    <3>1. Weights(s)[Len(s)] \in Nat
      BY <1>3, <1>4
    <3> QED BY <1>1, <1>6, <2>3, <3>1
  <2>5. ASSUME NEW i \in 1 .. Len(t), t[i].event # None
        PROVE  t[i] = Sample(q[Weights(t)[i]])
    <3>1. CASE i \in 1 .. Len(s)
      BY <1>3, <1>5, <2>2, <2>3, <2>5, <3>1
    <3>2. CASE i = Len(s) + 1
      BY <1>1, <2>2, <2>4, <3>2
    <3> QED BY <1>3, <2>2, <3>1, <3>2
  <2> QED BY <1>1, <2>2, <2>4, <2>5 DEF q
<1>7. CASE m > 0
  <2> DEFINE u == Append(s, Lost(m))
  <2>1. t = Append(u, Sample(e))
    BY <1>7
  <2>2. /\ u \in Seq(Record) /\ Len(u) = Len(s) + 1 /\ u[Len(s) + 1] = Lost(m)
        /\ \A i \in 1 .. Len(s) : u[i] = s[i]
    BY <1>2
  <2>3. /\ \A i \in 0 .. Len(s) : Weights(u)[i] = Weights(s)[i]
        /\ Weights(u)[Len(s) + 1] = Weights(s)[Len(s)] + m
    BY <1>2, WeightsAppend
  <2> HIDE DEF u
  <2>4. /\ Len(t) = Len(s) + 2 /\ t[Len(s) + 2] = Sample(e)
        /\ \A i \in 1 .. Len(s) + 1 : t[i] = u[i]
    BY <1>2, <1>3, <2>1, <2>2
  <2>5. /\ \A i \in 0 .. Len(s) + 1 : Weights(t)[i] = Weights(u)[i]
        /\ Weights(t)[Len(u) + 1] = Weights(u)[Len(u)] + 1
    BY <1>2, <2>1, <2>2, WeightsAppend
  <2>6. Len(s) + 1 \in 0 .. Len(s) + 1 /\ Len(u) + 1 = Len(s) + 2
    BY <1>3, <2>2
  <2>7. Weights(t)[Len(s) + 2] = Len(p) + 1
    BY <1>1, <2>2, <2>3, <2>5, <2>6
  <2>8. ASSUME NEW i \in 1 .. Len(t), t[i].event # None
        PROVE  t[i] = Sample(q[Weights(t)[i]])
    <3>1. CASE i \in 1 .. Len(s)
      <4>1. i \in 1 .. Len(s) + 1 /\ i \in 0 .. Len(s) + 1 /\ i \in 0 .. Len(s)
        BY <1>3, <3>1
      <4>2. t[i] = s[i] /\ Weights(t)[i] = Weights(s)[i]
        BY <2>2, <2>3, <2>4, <2>5, <3>1, <4>1
      <4> QED BY <1>5, <2>8, <3>1, <4>2
    <3>2. CASE i = Len(s) + 1
      BY <1>2, <1>3, <2>2, <2>4, <2>8, <3>2
    <3>3. CASE i = Len(s) + 2
      BY <1>1, <2>4, <2>7, <3>3
    <3> QED BY <1>3, <2>4, <3>1, <3>2, <3>3
  <2> QED BY <1>1, <2>4, <2>7, <2>8 DEF q
<1> QED BY <1>6, <1>7

\* An output appends to the stream what it wrote, or counts one more lost event.
LEMMA OutputAccounted ==
  ASSUME TypeInv, LossAccounted, NEW c \in Cpus, NEW e \in Events, output(c, e)
  PROVE  LossAccounted'
<1> SUFFICES ASSUME NEW d \in Cpus PROVE Accounted(d)'
  BY DEF LossAccounted
<1>1. UNCHANGED <<tail, reading, rd, handled>> /\ Position(d)' = Position(d)
  BY DEF output, readerVars, Position
<1>2. Accounted(d) /\ StreamOf(d)
  BY StreamIs DEF Streams, LossAccounted
<1>3. CASE d # c \/ c \notin opened
  <2>1. ring'[d] = ring[d] /\ head'[d] = head[d] /\ lost'[d] = lost[d]
        /\ produced'[d] = produced[d]
    BY <1>3 DEF output, TypeInv, PBTypeOK
  <2>2. Stream(d)' = Stream(d)
    BY <1>1, <2>1 DEF Stream, Unread, Slot
  <2> QED BY <1>2, <2>1, <2>2, AccountedKept
<1>4. CASE d = c /\ c \in opened /\ ~Room(c)
  <2>1. ring'[d] = ring[d] /\ head'[d] = head[d] /\ lost'[d] = lost[d] + 1
        /\ produced'[d] = Append(produced[d], e)
    BY <1>4 DEF output, TypeInv, PBTypeOK
  <2>2. Stream(d)' = Stream(d)
    BY <1>1, <2>1 DEF Stream, Unread, Slot
  <2> DEFINE s == Stream(d)
             p == produced[d]
             w == Weights(s)
  <2>3. s \in Seq(Record) /\ p \in Seq(Events) /\ lost[d] \in Nat
    BY <1>2 DEF StreamOf, TypeInv, PBTypeOK
  <2>4. /\ \A i \in 1 .. Len(s) : s[i].event # None => s[i] = Sample(p[w[i]])
        /\ w[Len(s)] + lost[d] = Len(p)
    BY <1>2 DEF Accounted
  <2>5. /\ Len(Append(p, e)) = Len(p) + 1
        /\ \A i \in 1 .. Len(p) : Append(p, e)[i] = p[i]
    BY <2>3
  <2>6. ASSUME NEW i \in 1 .. Len(s), s[i].event # None
        PROVE  s[i] = Sample(Append(p, e)[w[i]])
    <3>1. s[i] = Sample(p[w[i]]) /\ w[i] \in 1 .. Len(p)
      BY <2>3, <2>4, <2>6, SampleWeight
    <3> QED BY <2>5, <3>1
  <2>7. w[Len(s)] \in Nat /\ Len(p) \in Nat
    BY <2>3, WeightsDef
  <2>8. w[Len(s)] + lost'[d] = Len(Append(p, e))
    BY <2>1, <2>3, <2>4, <2>5, <2>7
  <2> QED BY <2>1, <2>2, <2>6, <2>8 DEF Accounted
<1>5. CASE d = c /\ c \in opened /\ Room(c)
  <2>1. /\ ring'[d] = Write(d, e) /\ head'[d] = head[d] + Need(d) /\ lost'[d] = 0
        /\ produced'[d] = Append(produced[d], e)
    BY <1>5 DEF output, TypeInv, PBTypeOK
  <2>2. TypeInv'
    BY OutputType
  <2>3. StreamOf(d)'
    <3>1. (TypeInv => Streams)'
      BY StreamIs, PTL
    <3> QED BY <2>2, <3>1 DEF Streams
  <2>4. lost[d] \in Nat /\ produced[d] \in Seq(Events)
    BY DEF TypeInv, PBTypeOK
  <2> DEFINE s == Stream(d)
             t == Stream(d)'
             n == Len(handled[d])
             P == Position(d)
             h == head[d]
  <2>5. /\ s \in Seq(Record) /\ n \in Nat /\ P \in tail[d] .. h /\ h \in Nat
        /\ tail[d] \in Nat /\ Len(s) = n + (h - P)
        /\ \A i \in 1 .. Len(s) : s[i] = IF i <= n THEN handled[d][i]
                                         ELSE ring[d][Slot(P + (i - n) - 1)]
    BY <1>2 DEF StreamOf
  <2>6. /\ t \in Seq(Record) /\ Len(t) = n + (h + Need(d) - P)
        /\ \A i \in 1 .. Len(t) : t[i] = IF i <= n THEN handled[d][i]
                                         ELSE Write(d, e)[Slot(P + (i - n) - 1)]
    <3>1. /\ t \in Seq(Record) /\ Len(t) = Len(handled'[d]) + (head'[d] - Position(d)')
          /\ \A i \in 1 .. Len(t) :
              t[i] = IF i <= Len(handled'[d]) THEN handled'[d][i]
                     ELSE ring'[d][Slot(Position(d)' + (i - Len(handled'[d])) - 1)]
      BY <2>3 DEF StreamOf
    <3>2. /\ handled'[d] = handled[d] /\ Position(d)' = P
          /\ ring'[d] = Write(d, e) /\ head'[d] = h + Need(d)
      BY <1>1, <2>1
    <3> HIDE DEF t, P, h
    <3>3. Len(t) = n + (h + Need(d) - P)
      <4>1. h \in Int /\ P \in Int /\ Need(d) \in Int
        BY <2>5 DEF Need
      <4> QED BY <3>1, <3>2, <4>1
    <3>4. ASSUME NEW i \in 1 .. Len(t)
          PROVE  t[i] = IF i <= n THEN handled[d][i] ELSE Write(d, e)[Slot(P + (i - n) - 1)]
      BY <3>1, <3>2
    <3> QED BY <3>1, <3>3, <3>4
  <2> HIDE DEF s, t, n, P, h
  <2>7. /\ Need(d) \in {1, 2}
        /\ lost[d] > 0 => /\ Need(d) = 2
                          /\ Write(d, e)[Slot(h)] = Lost(lost[d])
                          /\ Write(d, e)[Slot(h + 1)] = Sample(e)
        /\ lost[d] = 0 => Need(d) = 1 /\ Write(d, e)[Slot(h)] = Sample(e)
        /\ \A i \in tail[d] .. h - 1 : Write(d, e)[Slot(i)] = ring[d][Slot(i)]
    BY <1>5, WriteRing DEF h
  <2>8. Len(s) \in Nat /\ Len(t) = Len(s) + Need(d)
    BY <2>5, <2>6, <2>7
  <2>9. ASSUME NEW i \in 1 .. Len(s) PROVE t[i] = s[i]
    <3>1. i \in 1 .. Len(t)
      BY <2>7, <2>8
    <3>2. CASE i <= n
      BY <2>5, <2>6, <3>1, <3>2
    <3>3. CASE ~(i <= n)
      <4>1. P + (i - n) - 1 \in tail[d] .. h - 1
        BY <2>5, <3>3
      <4>2. Write(d, e)[Slot(P + (i - n) - 1)] = ring[d][Slot(P + (i - n) - 1)]
        BY <2>7, <4>1
      <4> QED BY <2>5, <2>6, <3>1, <3>3, <4>2
    <3> QED BY <3>2, <3>3
  <2>10. ASSUME NEW k \in 1 .. Need(d)
         PROVE  t[Len(s) + k] = Write(d, e)[Slot(h + (k - 1))]
    <3> DEFINE j == Len(s) + k
    <3>1. j \in 1 .. Len(t) /\ ~(j <= n) /\ P + (j - n) - 1 = h + (k - 1)
      <4>1. n \in Nat /\ P \in Int /\ h \in Int /\ P <= h /\ Len(s) = n + (h - P)
        BY <2>5
      <4>2. k \in Int /\ 1 <= k /\ k <= Need(d) /\ Need(d) \in Int
        BY <2>7
      <4> QED BY <2>8, <4>1, <4>2
    <3> HIDE DEF j
    <3>2. t[j] = Write(d, e)[Slot(P + (j - n) - 1)]
      BY <2>6, <3>1
    <3> QED BY <3>1, <3>2 DEF j
  <2>11. \/ lost[d] > 0 /\ t = Append(Append(s, Lost(lost[d])), Sample(e))
         \/ lost[d] = 0 /\ t = Append(s, Sample(e))
    <3>1. Sample(e) \in Record /\ Lost(lost[d]) \in Record
      BY <2>4, RecordsWritten
    <3>2. CASE lost[d] > 0
      <4> DEFINE u == Append(s, Lost(lost[d]))
                 v == Append(u, Sample(e))
      <4>1. /\ u \in Seq(Record) /\ Len(u) = Len(s) + 1 /\ u[Len(s) + 1] = Lost(lost[d])
            /\ \A i \in 1 .. Len(s) : u[i] = s[i]
        BY <2>5, <3>1
      <4> HIDE DEF u
      <4>2. /\ v \in Seq(Record) /\ Len(v) = Len(s) + 2 /\ v[Len(s) + 2] = Sample(e)
            /\ v[Len(s) + 1] = Lost(lost[d]) /\ \A i \in 1 .. Len(s) : v[i] = s[i]
        BY <2>8, <3>1, <4>1
      <4> HIDE DEF v
      <4>3. 1 \in 1 .. Need(d) /\ 2 \in 1 .. Need(d) /\ h + (1 - 1) = h /\ h + (2 - 1) = h + 1
        BY <2>5, <2>7, <3>2
      <4>4. t[Len(s) + 1] = Lost(lost[d]) /\ t[Len(s) + 2] = Sample(e)
        BY <2>7, <2>10, <3>2, <4>3
      <4>5. Len(t) = Len(v) /\ \A i \in 1 .. Len(t) : t[i] = v[i]
        BY <2>7, <2>8, <2>9, <3>2, <4>2, <4>4
      <4>6. t = v
        BY <2>6, <4>2, <4>5, SeqEqual
      <4> QED BY <3>2, <4>6 DEF u, v
    <3>3. CASE lost[d] = 0
      <4> DEFINE v == Append(s, Sample(e))
      <4>1. /\ v \in Seq(Record) /\ Len(v) = Len(s) + 1 /\ v[Len(s) + 1] = Sample(e)
            /\ \A i \in 1 .. Len(s) : v[i] = s[i]
        BY <2>5, <3>1
      <4> HIDE DEF v
      <4>2. 1 \in 1 .. Need(d) /\ h + (1 - 1) = h
        BY <2>5, <2>7, <3>3
      <4>3. t[Len(s) + 1] = Sample(e)
        BY <2>7, <2>10, <3>3, <4>2
      <4>4. Len(t) = Len(v) /\ \A i \in 1 .. Len(t) : t[i] = v[i]
        BY <2>7, <2>8, <2>9, <3>3, <4>1, <4>3
      <4>5. t = v
        BY <2>6, <4>1, <4>4, SeqEqual
      <4> QED BY <3>3, <4>5 DEF v
    <3> QED BY <2>4, <3>2, <3>3
  <2>12. /\ \A i \in 1 .. Len(s) :
              s[i].event # None => s[i] = Sample(produced[d][Weights(s)[i]])
         /\ Weights(s)[Len(s)] + lost[d] = Len(produced[d])
    BY <1>2 DEF Accounted, s
  <2>13. /\ \A i \in 1 .. Len(t) :
              t[i].event # None => t[i] = Sample(Append(produced[d], e)[Weights(t)[i]])
         /\ Weights(t)[Len(t)] = Len(Append(produced[d], e))
    <3> DEFINE p == produced[d]
               m == lost[d]
    <3>1. s \in Seq(Record) /\ p \in Seq(Events) /\ m \in Nat
      BY <2>4, <2>5
    <3>2. /\ \A i \in 1 .. Len(s) : s[i].event # None => s[i] = Sample(p[Weights(s)[i]])
          /\ Weights(s)[Len(s)] + m = Len(p)
          /\ \/ m > 0 /\ t = Append(Append(s, Lost(m)), Sample(e))
             \/ m = 0 /\ t = Append(s, Sample(e))
      BY <2>11, <2>12
    <3> HIDE DEF p, m
    <3>3. /\ \A i \in 1 .. Len(t) :
              t[i].event # None => t[i] = Sample(Append(p, e)[Weights(t)[i]])
          /\ Weights(t)[Len(t)] = Len(Append(p, e))
      BY <3>1, <3>2, AppendAccounted
    <3> QED BY <3>3 DEF p
  <2>14. Weights(t)[Len(t)] + lost'[d] = Len(Append(produced[d], e))
    <3>1. Len(Append(produced[d], e)) \in Nat
      BY <2>4
    <3> QED BY <2>1, <2>13, <3>1
  <2> QED BY <2>1, <2>13, <2>14 DEF Accounted, t
<1> QED BY <1>3, <1>4, <1>5

-----------------------------------------------------------------------------
(***************************************************************************)
(* The specification.                                                      *)
(***************************************************************************)

PBInv == TypeInv /\ NoLostWakeup /\ LossAccounted

\* PBInv holds when the tracer starts.
LEMMA InitInv == PBInit => PBInv
<1>1. PBInit => NoLostWakeup
  BY DEF PBInit, NoLostWakeup
<1> QED BY <1>1, InitType, InitAccounted DEF PBInv

\* PBInv is preserved.
LEMMA NextInv == PBInv /\ [PBNext]_pbVars => PBInv'
<1> SUFFICES ASSUME PBInv, [PBNext]_pbVars PROVE PBInv'
  OBVIOUS
<1>1. ASSUME NEW c \in Cpus, NEW e \in Events, output(c, e) PROVE PBInv'
  BY <1>1, OutputType, OutputWakes, OutputAccounted DEF PBInv
<1>2. ASSUME NEW c \in Cpus, head[c] = 0, open_cpu_buf(c) PROVE PBInv'
  BY <1>2, PollType, PollWakes, PollAccounted DEF PBInv
<1>3. ASSUME free \/ epoll_wait PROVE PBInv'
  BY <1>3, PollType, PollWakes, PollAccounted DEF PBInv
<1>4. ASSUME (\E c \in Cpus : read_begin(c)) \/ read_record \/ read_end PROVE PBInv'
  BY <1>4, ReadType, ReadWakes, ReadAccounted DEF PBInv
<1>5. CASE UNCHANGED pbVars
  <2>1. UNCHANGED <<opened, ring, head, tail, lost, wake, ready, reading, rd, stop,
                    handled, produced>>
    BY <1>5 DEF pbVars, ringVars, readerVars
  <2>2. TypeInv' /\ NoLostWakeup'
    BY <2>1 DEF PBInv, TypeInv, PBTypeOK, RingInv, NoLostWakeup
  <2>3. \A d \in Cpus : Stream(d)' = Stream(d)
    BY <2>1 DEF Stream, Unread, Slot, Position
  <2>4. LossAccounted'
    BY <2>1, <2>3, AccountedKept DEF PBInv, LossAccounted
  <2> QED BY <2>2, <2>4 DEF PBInv
<1> QED BY <1>1, <1>2, <1>3, <1>4, <1>5 DEF PBNext

\* The rings, counters and marks have their types, and the batch being read belongs
\* to a ring that is open.
THEOREM PerfBufferTypes == PBSpec => []PBTypeOK
<1>1. PBInv => PBTypeOK
  BY DEF PBInv, TypeInv
<1> QED BY <1>1, InitInv, NextInv, PTL DEF PBSpec

\* On rings of any size: a record is never left in a ring that epoll does not report
\* any more, although the kernel writes while perf_buffer__poll reads.
THEOREM NoMissedWakeup == PBSpec => []NoLostWakeup
<1>1. PBInv => NoLostWakeup
  BY DEF PBInv
<1> QED BY <1>1, InitInv, NextInv, PTL DEF PBSpec

\* On rings of any size: nothing is overwritten, repeated or reordered, and the
\* counts given to handle_lost say how many events are missing, and where.
THEOREM AllAccounted == PBSpec => []LossAccounted
<1>1. PBInv => LossAccounted
  BY DEF PBInv
<1> QED BY <1>1, InitInv, NextInv, PTL DEF PBSpec
=============================================================================
