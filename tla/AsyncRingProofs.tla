--------------------------- MODULE AsyncRingProofs ---------------------------
(***************************************************************************)
(* Theorems about the PSP's event ring, for every capacity of 3k + 1 words *)
(* and every number of events, and that it implements EventChannel.        *)
(*                                                                         *)
(* AcceptedEventIsWhole speaks of the three words main_thread holds; what  *)
(* makes it inductive is WellCut, the shape of the words still stored,     *)
(* which in turn needs the cursors to agree (TypeOK).                      *)
(***************************************************************************)
EXTENDS AsyncRing, TLAPS

IInv ==
  /\ TypeOK
  /\ WellCut
  /\ AcceptedEventIsWhole

-----------------------------------------------------------------------------
\* The word of event e at place k of the packet that fill_async stores.
Packet(k) == [event |-> sent + 1, part |-> 1 + k]

\* The free space is never exactly two words: a packet is stored whole, or as
\* its magic alone, or not at all.
LEMMA RoomForPacket ==
  ASSUME TypeOK, WellCut
  PROVE  /\ Room \in {0, 1, 3}
         /\ size + Room \in 0..Capacity
         /\ (size + Room) % 3 \in {0, 1}
<1> DEFINE free == Capacity - size
<1>1. /\ Capacity \in Nat /\ size \in Nat /\ free \in Nat
      /\ Capacity % 3 = 1
      /\ size % 3 \in {0, 1}
  BY CapacityAssumption DEF TypeOK, WellCut
<1>2. free # 2
  BY <1>1
<1>3. CASE free < 3
  <2>1. Room = free /\ free \in {0, 1} /\ size + Room = Capacity
    BY <1>1, <1>2, <1>3 DEF Room, AtMost, EventWords
  <2> QED
    BY <1>1, <2>1
<1>4. CASE free >= 3
  <2>1. Room = 3 /\ size + Room <= Capacity
    BY <1>1, <1>4 DEF Room, AtMost, EventWords
  <2>2. (size + 3) % 3 \in {0, 1}
    BY <1>1
  <2> QED
    BY <1>1, <2>1, <2>2
<1> QED
  BY <1>1, <1>3, <1>4

\* fill_async leaves the stored words in place and appends the packet's.
LEMMA FillAppends ==
  ASSUME TypeOK, WellCut, fill_async
  PROVE  /\ size' = size + Room
         /\ \A i \in 0..size - 1 : Stored(i)' = Stored(i)
         /\ \A j \in size..size + Room - 1 : Stored(j)' = Packet(j - size)
<1> USE CapacityAssumption
<1>1. Room \in {0, 1, 3} /\ size + Room \in 0..Capacity
  BY RoomForPacket
<1>2. /\ size' = size + Room
      /\ read_pos' = read_pos
      /\ buffer' = [i \in 0..Capacity - 1 |->
            IF \E k \in 0..Room - 1 : i = Wrap(write_pos + k)
            THEN [event |-> sent + 1,
                  part |-> 1 + (IF i >= write_pos THEN i - write_pos
                                ELSE i + Capacity - write_pos)]
            ELSE buffer[i]]
  BY DEF fill_async, Room
<1>3. ASSUME NEW i \in 0..size - 1
      PROVE  Stored(i)' = Stored(i)
  <2> DEFINE p == Wrap(read_pos + i)
  <2>1. p \in 0..Capacity - 1
    BY DEF TypeOK, Wrap
  <2>2. ASSUME NEW k \in 0..Room - 1
        PROVE  p # Wrap(write_pos + k)
    BY <1>1 DEF TypeOK, Wrap
  <2>3. buffer'[p] = buffer[p]
    BY <1>2, <2>1, <2>2
  <2> QED
    BY <1>2, <2>3 DEF Stored, Wrap
<1>4. ASSUME NEW j \in size..size + Room - 1
      PROVE  Stored(j)' = Packet(j - size)
  <2> DEFINE k == j - size
             p == Wrap(read_pos + j)
  <2>1. k \in 0..Room - 1 /\ j = size + k
    BY <1>1 DEF TypeOK
  <2>2. p \in 0..Capacity - 1 /\ p = Wrap(write_pos + k)
    BY <1>1, <2>1 DEF TypeOK, Wrap
  <2>3. k = IF p >= write_pos THEN p - write_pos ELSE p + Capacity - write_pos
    BY <1>1, <2>1 DEF TypeOK, Wrap
  <2> HIDE DEF k, p
  <2>4. buffer'[p] = [event |-> sent + 1, part |-> 1 + k]
    BY <1>2, <2>1, <2>2, <2>3
  <2> QED
    BY <1>2, <2>4 DEF Stored, Wrap, Packet, k, p
<1> QED
  BY <1>2, <1>3, <1>4

-----------------------------------------------------------------------------
\* The types, and with them the agreement of the three cursors.

LEMMA FillTypeOK ==
  ASSUME TypeOK, WellCut, fill_async
  PROVE  TypeOK'
<1> USE CapacityAssumption
<1>1. /\ Room \in {0, 1, 3} /\ size + Room \in 0..Capacity
  BY RoomForPacket
<1>2. /\ size' = size + Room
      /\ read_pos' = read_pos
      /\ write_pos' = Wrap(write_pos + Room)
  BY DEF fill_async, Room
<1>3. /\ size' \in 0..Capacity
      /\ write_pos' \in 0..Capacity - 1
      /\ write_pos' = Wrap(read_pos' + size')
  BY <1>1, <1>2 DEF TypeOK, Wrap
<1>4. sent + 1 \in Nat /\ sent' \in 0..MaxEvents
  BY DEF TypeOK, fill_async
<1>5. buffer' \in [0..Capacity - 1 -> Word]
  <2> DEFINE F(i) == IF \E k \in 0..Room - 1 : i = Wrap(write_pos + k)
                     THEN [event |-> sent + 1,
                           part |-> 1 + (IF i >= write_pos THEN i - write_pos
                                         ELSE i + Capacity - write_pos)]
                     ELSE buffer[i]
  <2>1. buffer' = [i \in 0..Capacity - 1 |-> F(i)]
    BY DEF fill_async, Room
  <2>2. ASSUME NEW i \in 0..Capacity - 1
        PROVE  F(i) \in Word
    <3>1. CASE \E k \in 0..Room - 1 : i = Wrap(write_pos + k)
      <4> DEFINE part == 1 + (IF i >= write_pos THEN i - write_pos
                              ELSE i + Capacity - write_pos)
      <4>1. part \in 0..EventWords
        BY <1>1, <3>1 DEF TypeOK, Wrap, EventWords
      <4> HIDE DEF part
      <4>2. [event |-> sent + 1, part |-> part] \in Word
        BY <1>4, <4>1 DEF Word
      <4> QED
        BY <3>1, <4>2 DEF part
    <3>2. CASE ~ \E k \in 0..Room - 1 : i = Wrap(write_pos + k)
      BY <3>2 DEF TypeOK
    <3> QED
      BY <3>1, <3>2
  <2> HIDE DEF F
  <2> QED
    BY <2>1, <2>2
<1> QED
  BY <1>3, <1>4, <1>5 DEF TypeOK, fill_async

LEMMA ReadTypeOK ==
  ASSUME TypeOK, AsyncRead
  PROVE  TypeOK'
<1> DEFINE len == AtMost(EventWords, size)
<1> USE CapacityAssumption
<1>1. len \in 0..EventWords /\ len <= size
  BY DEF TypeOK, AtMost, EventWords
<1>2. joyevent' \in Seq(Word) /\ Len(joyevent') = len
  <2>1. \A i \in 1..len : Stored(i - 1) \in Word
    BY <1>1 DEF TypeOK, Stored, Wrap
  <2>2. joyevent' = [i \in 1..len |-> Stored(i - 1)]
    BY DEF AsyncRead
  <2> QED
    BY <1>1, <2>1, <2>2 DEF EventWords
<1>3. /\ read_pos' = Wrap(read_pos + len)
      /\ size' = size - len
      /\ write_pos' = write_pos
  BY DEF AsyncRead
<1> HIDE DEF len
<1>4. /\ size' \in 0..Capacity
      /\ read_pos' \in 0..Capacity - 1
      /\ write_pos' = Wrap(read_pos' + size')
  BY <1>1, <1>3 DEF TypeOK, Wrap
<1>5. async_event' \in BOOLEAN
  <2>1. async_event' = (async_event \/ size - AtMost(EventWords, size) # 0)
    BY DEF AsyncRead
  <2> QED
    BY <2>1, Zenon
<1>6. /\ pc' = "check"
      /\ UNCHANGED <<buffer, write_pos, sent, applied, dropped>>
  BY DEF AsyncRead
<1> QED
  BY <1>1, <1>2, <1>4, <1>5, <1>6 DEF TypeOK

LEMMA FlushTypeOK ==
  ASSUME TypeOK, rjmUsbAsyncFlush
  PROVE  /\ buffer' \in [0..Capacity - 1 -> Word]
         /\ read_pos' \in 0..Capacity - 1
         /\ write_pos' \in 0..Capacity - 1
         /\ size' \in 0..Capacity
         /\ write_pos' = Wrap(read_pos' + size')
         /\ async_event' \in BOOLEAN
         /\ dropped' \in BOOLEAN
<1>1. dropped' \in BOOLEAN
  <2>1. dropped' = (dropped \/ size > 0)
    BY DEF rjmUsbAsyncFlush
  <2> QED
    BY <2>1, Zenon
<1>2. /\ size' = 0 /\ read_pos' = 0 /\ write_pos' = 0
      /\ async_event' = FALSE /\ buffer' = buffer
  BY DEF rjmUsbAsyncFlush
<1> QED
  BY <1>1, <1>2, CapacityAssumption DEF TypeOK, Wrap

\* What is left of TypeOK after a flush is what each caller leaves alone.
LEMMA FlushCallersTypeOK ==
  ASSUME TypeOK, FlushByOther \/ FlushByMain
  PROVE  TypeOK'
  BY FlushTypeOK DEF TypeOK, FlushByOther, FlushByMain

LEMMA HandleTypeOK ==
  ASSUME TypeOK, handle_joyevent
  PROVE  TypeOK'
<1>1. joyevent \in Seq(Word) /\ Len(joyevent) = 3
  BY DEF TypeOK, handle_joyevent, Accepted, EventWords
<1>2. joyevent[3] \in Word
  BY <1>1
<1> QED
  BY <1>2 DEF TypeOK, handle_joyevent, ring, Word

-----------------------------------------------------------------------------
\* The shape of the stored words.

LEMMA FillWellCut ==
  ASSUME TypeOK, WellCut, fill_async
  PROVE  WellCut'
<1>1. /\ Room \in {0, 1, 3}
      /\ (size + Room) % 3 \in {0, 1}
  BY RoomForPacket
<1>2. /\ size' = size + Room
      /\ \A i \in 0..size - 1 : Stored(i)' = Stored(i)
      /\ \A j \in size..size + Room - 1 : Stored(j)' = Packet(j - size)
  BY FillAppends
<1>3. size \in Nat /\ sent \in Nat
  BY CapacityAssumption DEF TypeOK
<1>4. \A j \in size..size + Room - 1 :
        Stored(j)' = [event |-> sent + 1, part |-> 1 + j - size]
  BY <1>2, <1>3 DEF Packet
<1>5. ASSUME NEW i \in 0..size' - 1
      PROVE  /\ Stored(i)'.part \in 1..EventWords
             /\ Stored(i)'.part = 2 => i < size' - 1
  <2>1. CASE i \in 0..size - 1
    <3>1. Stored(i)' = Stored(i)
      BY <1>2, <2>1
    <3>2. Stored(i).part \in 1..EventWords /\ (Stored(i).part = 2 => i < size - 1)
      BY <2>1 DEF WellCut
    <3> QED
      BY <1>1, <1>2, <1>3, <3>1, <3>2
  <2>2. CASE i \in size..size + Room - 1
    <3>1. Stored(i)' = [event |-> sent + 1, part |-> 1 + i - size]
      BY <1>4, <2>2
    <3> QED
      BY <1>1, <1>2, <1>3, <2>2, <3>1 DEF EventWords
  <2> QED
    BY <1>1, <1>2, <1>3, <1>5, <2>1, <2>2
<1>6. ASSUME NEW i \in 0..size' - 2
      PROVE  \/ /\ Stored(i + 1)'.part = 1
                /\ Stored(i)'.part # 2
             \/ /\ Stored(i + 1)'.part = Stored(i)'.part + 1
                /\ Stored(i + 1)'.event = Stored(i)'.event
  <2>1. CASE i \in 0..size - 2
    <3>1. i + 1 \in 0..size - 1 /\ i \in 0..size - 1
      BY <1>3, <2>1
    <3> QED
      BY <1>2, <2>1, <3>1 DEF WellCut
  <2>2. CASE i = size - 1
    <3>1. i \in 0..size - 1 /\ i + 1 \in size..size + Room - 1 /\ i + 1 - size = 0
      BY <1>1, <1>2, <1>3, <1>6, <2>2
    <3>2. Stored(i + 1)'.part = 1
      BY <1>3, <1>4, <3>1
    <3>3. Stored(i)'.part # 2
      <4>1. Stored(i)' = Stored(i)
        BY <1>2, <3>1
      <4>2. Stored(i).part = 2 => i < size - 1
        BY <3>1 DEF WellCut
      <4> QED
        BY <1>3, <2>2, <4>1, <4>2
    <3> QED
      BY <3>2, <3>3
  <2>3. CASE i \in size..size + Room - 2
    <3>1. i \in size..size + Room - 1 /\ i + 1 \in size..size + Room - 1
      BY <1>1, <1>3, <2>3
    <3>2. /\ Stored(i)' = [event |-> sent + 1, part |-> 1 + i - size]
          /\ Stored(i + 1)' = [event |-> sent + 1, part |-> 1 + (i + 1) - size]
      BY <1>4, <3>1
    <3>3. 1 + (i + 1) - size = (1 + i - size) + 1
      BY <1>3, <3>1
    <3> QED
      BY <3>2, <3>3
  <2> QED
    BY <1>1, <1>2, <1>3, <1>6, <2>1, <2>2, <2>3
<1> QED
  BY <1>1, <1>2, <1>5, <1>6 DEF WellCut

\* Reading takes words off the front.
LEMMA ReadShifts ==
  ASSUME TypeOK, AsyncRead
  PROVE  LET len == AtMost(EventWords, size)
         IN  /\ size' = size - len
             /\ \A i \in 0..size' - 1 : Stored(i)' = Stored(i + len)
<1> DEFINE len == AtMost(EventWords, size)
<1> USE CapacityAssumption
<1>1. len \in 0..EventWords /\ len <= size
  BY DEF TypeOK, AtMost, EventWords
<1>2. /\ buffer' = buffer
      /\ read_pos' = Wrap(read_pos + len)
      /\ size' = size - len
  BY DEF AsyncRead
<1> HIDE DEF len
<1>3. ASSUME NEW i \in 0..size' - 1
      PROVE  Stored(i)' = Stored(i + len)
  <2>1. Wrap(read_pos' + i) = Wrap(read_pos + (i + len))
    BY <1>1, <1>2 DEF TypeOK, Wrap
  <2> QED
    BY <1>2, <2>1 DEF Stored, Wrap
<1> QED
  BY <1>2, <1>3 DEF len

LEMMA ReadWellCut ==
  ASSUME TypeOK, WellCut, AsyncRead
  PROVE  WellCut'
<1> DEFINE len == AtMost(EventWords, size)
<1>1. /\ size' = size - len
      /\ \A i \in 0..size' - 1 : Stored(i)' = Stored(i + len)
  BY ReadShifts
<1>2. size \in Nat
  BY CapacityAssumption DEF TypeOK
<1>3. len = size \/ (size >= 3 /\ len = 3)
  BY <1>2 DEF AtMost, EventWords
<1> HIDE DEF len
<1>4. size' \in Nat /\ size' % 3 \in {0, 1}
  <2>1. size % 3 \in {0, 1}
    BY DEF WellCut
  <2> QED
    BY <1>1, <1>2, <1>3, <2>1
<1>5. ASSUME NEW i \in 0..size' - 1
      PROVE  /\ Stored(i)'.part \in 1..EventWords
             /\ Stored(i)'.part = 2 => i < size' - 1
  <2>1. i + len \in 0..size - 1 /\ Stored(i)' = Stored(i + len)
    BY <1>1, <1>2, <1>3
  <2>2. /\ Stored(i + len).part \in 1..EventWords
        /\ Stored(i + len).part = 2 => i + len < size - 1
    BY <2>1 DEF WellCut
  <2> QED
    BY <1>1, <1>2, <1>3, <2>1, <2>2
<1>6. ASSUME NEW i \in 0..size' - 2
      PROVE  \/ /\ Stored(i + 1)'.part = 1
                /\ Stored(i)'.part # 2
             \/ /\ Stored(i + 1)'.part = Stored(i)'.part + 1
                /\ Stored(i + 1)'.event = Stored(i)'.event
  <2>1. /\ i + len \in 0..size - 2
        /\ i + 1 \in 0..size' - 1 /\ i \in 0..size' - 1
        /\ (i + 1) + len = (i + len) + 1
    BY <1>1, <1>2, <1>3
  <2>2. /\ Stored(i)' = Stored(i + len)
        /\ Stored(i + 1)' = Stored((i + len) + 1)
    BY <1>1, <2>1
  <2> QED
    BY <2>1, <2>2 DEF WellCut
<1> QED
  BY <1>4, <1>5, <1>6 DEF WellCut

\* An empty ring is well cut.
LEMMA FlushWellCut ==
  ASSUME rjmUsbAsyncFlush
  PROVE  WellCut'
  BY DEF WellCut, rjmUsbAsyncFlush

\* What main_thread takes off a well-cut ring is one whole event, if it has
\* the look of one.
LEMMA ReadIsWhole ==
  ASSUME TypeOK, WellCut, AsyncRead, Accepted(joyevent')
  PROVE  \A k \in 1..EventWords :
           joyevent'[k] = [event |-> joyevent'[1].event, part |-> k]
<1> DEFINE len == AtMost(EventWords, size)
<1>1. size \in Nat
  BY CapacityAssumption DEF TypeOK
<1>2. joyevent' = [i \in 1..len |-> Stored(i - 1)]
  BY DEF AsyncRead
<1>3. len = 3 /\ size >= 3
  BY <1>1, <1>2 DEF Accepted, EventWords, AtMost
<1> HIDE DEF len
<1>4. /\ joyevent'[1] = Stored(0)
      /\ joyevent'[2] = Stored(1)
      /\ joyevent'[3] = Stored(2)
  BY <1>2, <1>3
<1>5. /\ Stored(0) \in Word /\ Stored(1) \in Word /\ Stored(2) \in Word
  BY <1>1, <1>3, CapacityAssumption DEF TypeOK, Stored, Wrap
<1>6. /\ Stored(0).part \in {1, 3}
      /\ Stored(1).part \in {2, 3}
  BY <1>4 DEF Accepted, MayBeMagic, MayBeType
<1>7. \A i \in {0, 1} :
        \/ /\ Stored(i + 1).part = 1
           /\ Stored(i).part # 2
        \/ /\ Stored(i + 1).part = Stored(i).part + 1
           /\ Stored(i + 1).event = Stored(i).event
  BY <1>1, <1>3 DEF WellCut
<1>8. /\ Stored(1).part = Stored(0).part + 1
      /\ Stored(1).event = Stored(0).event
  BY <1>6, <1>7
<1>9. Stored(0).part = 1 /\ Stored(1).part = 2
  BY <1>6, <1>8
<1>10. Stored(2).part = 3 /\ Stored(2).event = Stored(1).event
  BY <1>7, <1>9
<1> QED
  BY <1>4, <1>5, <1>8, <1>9, <1>10 DEF Word, EventWords

-----------------------------------------------------------------------------
LEMMA InitIInv == Init => IInv
<1> SUFFICES ASSUME Init PROVE IInv
  OBVIOUS
<1>1. NoWord \in Word
  BY DEF NoWord, Word, EventWords
<1>2. joyevent \in Seq(Word) /\ Len(joyevent) = 0
  BY DEF Init
<1>3. buffer \in [0..Capacity - 1 -> Word]
  BY <1>1 DEF Init
<1>4. write_pos = Wrap(read_pos + size)
  BY CapacityAssumption DEF Init, Wrap
<1>5. /\ read_pos = 0 /\ write_pos = 0 /\ size = 0 /\ sent = 0 /\ applied = 0
      /\ async_event = FALSE /\ dropped = FALSE /\ pc = "wait"
  BY DEF Init
<1>6. /\ read_pos \in 0..Capacity - 1 /\ write_pos \in 0..Capacity - 1
      /\ size \in 0..Capacity /\ sent \in 0..MaxEvents /\ applied \in Nat
  BY <1>5, CapacityAssumption
<1>7. async_event \in BOOLEAN /\ dropped \in BOOLEAN
  BY <1>5
<1>8. Len(joyevent) <= EventWords
  BY <1>2 DEF EventWords
<1>9. TypeOK
  BY <1>2, <1>3, <1>4, <1>5, <1>6, <1>7, <1>8, Zenon DEF TypeOK
<1> QED
  BY <1>9 DEF Init, IInv, WellCut, AcceptedEventIsWhole

\* Steps that touch neither the ring nor what main_thread holds, or that
\* leave main_thread outside "check".
LEMMA KeepsRing ==
  ASSUME TypeOK, WellCut, UNCHANGED ring
  PROVE  WellCut'
  BY DEF WellCut, ring, Stored, Wrap

LEMMA NextIInv == IInv /\ [Next]_vars => IInv'
<1> SUFFICES ASSUME IInv, [Next]_vars
             PROVE  IInv'
  OBVIOUS
<1> USE DEF IInv
<1>1. CASE fill_async
  <2>1. AcceptedEventIsWhole'
    BY <1>1 DEF AcceptedEventIsWhole, fill_async
  <2> QED
    BY <1>1, <2>1, FillTypeOK, FillWellCut
<1>2. CASE FlushByOther
  <2>1. AcceptedEventIsWhole'
    BY <1>2 DEF AcceptedEventIsWhole, FlushByOther
  <2> QED
    BY <1>2, <2>1, FlushCallersTypeOK, FlushWellCut DEF FlushByOther
<1>3. CASE Wake
  <2>1. TypeOK'
    BY <1>3 DEF TypeOK, Wake, ring
  <2>2. AcceptedEventIsWhole'
    BY <1>3 DEF AcceptedEventIsWhole, Wake
  <2> QED
    BY <1>3, <2>1, <2>2, KeepsRing DEF Wake
<1>4. CASE AsyncReadNotReady
  <2>1. TypeOK'
    BY <1>4 DEF TypeOK, AsyncReadNotReady, ring, EventWords
  <2>2. AcceptedEventIsWhole'
    BY <1>4 DEF AcceptedEventIsWhole, AsyncReadNotReady
  <2> QED
    BY <1>4, <2>1, <2>2, KeepsRing DEF AsyncReadNotReady
<1>5. CASE AsyncReadWait
  <2>1. TypeOK'
    BY <1>5 DEF TypeOK, AsyncReadWait, ring
  <2>2. AcceptedEventIsWhole'
    BY <1>5 DEF AcceptedEventIsWhole, AsyncReadWait
  <2> QED
    BY <1>5, <2>1, <2>2, KeepsRing DEF AsyncReadWait
<1>6. CASE AsyncRead
  <2>1. AcceptedEventIsWhole'
    BY <1>6, ReadIsWhole DEF AcceptedEventIsWhole
  <2> QED
    BY <1>6, <2>1, ReadTypeOK, ReadWellCut
<1>7. CASE RejectEvent
  <2>1. TypeOK'
    BY <1>7 DEF TypeOK, RejectEvent, ring
  <2>2. AcceptedEventIsWhole'
    BY <1>7 DEF AcceptedEventIsWhole, RejectEvent
  <2> QED
    BY <1>7, <2>1, <2>2, KeepsRing DEF RejectEvent
<1>8. CASE FlushByMain
  <2>1. AcceptedEventIsWhole'
    BY <1>8 DEF AcceptedEventIsWhole, FlushByMain
  <2> QED
    BY <1>8, <2>1, FlushCallersTypeOK, FlushWellCut DEF FlushByMain
<1>9. CASE handle_joyevent
  <2>1. AcceptedEventIsWhole'
    BY <1>9 DEF AcceptedEventIsWhole, handle_joyevent
  <2> QED
    BY <1>9, <2>1, HandleTypeOK, KeepsRing DEF handle_joyevent
<1>10. CASE IgnoreEvent
  <2>1. TypeOK'
    BY <1>10 DEF TypeOK, IgnoreEvent, ring
  <2>2. AcceptedEventIsWhole'
    BY <1>10 DEF AcceptedEventIsWhole, IgnoreEvent
  <2> QED
    BY <1>10, <2>1, <2>2, KeepsRing DEF IgnoreEvent
<1>11. CASE UNCHANGED vars
  <2>1. TypeOK'
    BY <1>11 DEF TypeOK, vars
  <2>2. AcceptedEventIsWhole'
    BY <1>11 DEF AcceptedEventIsWhole, vars
  <2> QED
    BY <1>11, <2>1, <2>2, KeepsRing DEF vars, ring
<1> QED
  BY <1>1, <1>2, <1>3, <1>4, <1>5, <1>6, <1>7, <1>8, <1>9, <1>10, <1>11
     DEF Next, MainThread

LEMMA Invariance == Spec => []IInv
  BY InitIInv, NextIInv, PTL DEF Spec

\* The cursors of the ring agree in every reachable state, whatever the
\* capacity, as long as it is a multiple of an event plus one word.
THEOREM TypeCorrect == Spec => []TypeOK
  BY Invariance, PTL DEF IInv

\* The stored words never hold an event cut after its type.
THEOREM StoredWellCut == Spec => []WellCut
  BY Invariance, PTL DEF IInv

\* main_thread never pairs the type of one event with the value of another.
THEOREM WholeEvents == Spec => []AcceptedEventIsWhole
  BY Invariance, PTL DEF IInv

\* A word that is stored wakes main_thread: between the wait that consumes the
\* event flag and the copy that sets it again for what is left, pc is "read".
THEOREM WakeupKept == Spec => []NoLostWakeup
<1>1. Init => NoLostWakeup
  BY DEF Init, NoLostWakeup
<1>2. TypeOK /\ NoLostWakeup /\ [Next]_vars => NoLostWakeup'
  <2> SUFFICES ASSUME TypeOK, NoLostWakeup, [Next]_vars
               PROVE  NoLostWakeup'
    OBVIOUS
  <2>1. CASE fill_async
    BY <2>1 DEF NoLostWakeup, fill_async
  <2>2. CASE FlushByOther \/ FlushByMain
    BY <2>2 DEF NoLostWakeup, FlushByOther, FlushByMain, rjmUsbAsyncFlush
  <2>3. CASE AsyncRead
    <3>1. /\ size' = size - AtMost(EventWords, size)
          /\ async_event' = (async_event \/ size - AtMost(EventWords, size) # 0)
      BY <2>3 DEF AsyncRead
    <3>2. size' # 0 => async_event'
      BY <3>1, Zenon
    <3> QED
      BY <3>2 DEF NoLostWakeup
  <2>4. CASE Wake \/ AsyncReadNotReady \/ AsyncReadWait \/ RejectEvent
    BY <2>4 DEF NoLostWakeup, Wake, AsyncReadNotReady, AsyncReadWait,
                RejectEvent, ring
  <2>5. CASE handle_joyevent \/ IgnoreEvent
    BY <2>5 DEF NoLostWakeup, handle_joyevent, IgnoreEvent, ring
  <2>6. CASE UNCHANGED vars
    BY <2>6 DEF NoLostWakeup, vars
  <2> QED
    BY <2>1, <2>2, <2>3, <2>4, <2>5, <2>6 DEF Next, MainThread
<1> QED
  BY <1>1, <1>2, TypeCorrect, PTL DEF Spec

-----------------------------------------------------------------------------
(***************************************************************************)
(* The ring implements the lossy channel of EventChannel.                  *)
(*                                                                         *)
(* Two facts carry the proof.  InOrder: the ring, and the event main_thread*)
(* holds in front of it, are in the order of sending and newer than what   *)
(* was applied.  Complete: as long as nothing was lost, the ring is the    *)
(* run of consecutive whole events that starts after the one in hand.      *)
(***************************************************************************)

\* Nothing stored has been applied; words are stored in the order of sending,
\* and a magic is newer than all that is before it.
StoredInOrder ==
  /\ applied <= sent
  /\ \A i \in 0..size - 1 : Stored(i).event \in applied + 1..sent
  /\ \A i, j \in 0..size - 1 : i < j =>
       /\ Stored(i).event <= Stored(j).event
       /\ Stored(j).part = 1 => Stored(i).event < Stored(j).event

\* The event main_thread is about to apply is newer than the last applied and
\* older than what is stored.
HandInOrder ==
  pc = "check" /\ Accepted(joyevent) =>
    /\ joyevent[3].event \in applied + 1..sent
    /\ \A i \in 0..size - 1 : joyevent[3].event < Stored(i).event

InOrder == StoredInOrder /\ HandInOrder

\* Without a loss, what main_thread holds is the event after the last applied,
\* and what is stored is the events after that, whole.
HandComplete ==
  InHand = 1 =>
    /\ Len(joyevent) = EventWords
    /\ \A k \in 1..EventWords :
         joyevent[k] = [event |-> applied + 1, part |-> k]
StoredComplete ==
  \A n \in Nat : \A k \in 1..EventWords :
    EventWords * n + k <= size =>
      Stored(EventWords * n + k - 1) =
        [event |-> applied + InHand + 1 + n, part |-> k]
Complete ==
  ~dropped =>
    /\ EventWords * (sent - applied - InHand) = size
    /\ HandComplete
    /\ StoredComplete

-----------------------------------------------------------------------------
\* The order of sending.

\* What is appended is newer than what is stored.
LEMMA FillInOrder ==
  ASSUME TypeOK, WellCut, InOrder, fill_async
  PROVE  InOrder'
<1>1. /\ size \in Nat /\ sent \in Nat /\ applied \in Nat /\ applied <= sent
      /\ sent' = sent + 1
      /\ UNCHANGED <<applied, pc, joyevent>>
  BY CapacityAssumption DEF TypeOK, fill_async, InOrder, StoredInOrder
<1>2. /\ Room \in {0, 1, 3}
      /\ size' = size + Room
      /\ \A i \in 0..size - 1 : Stored(i)' = Stored(i)
      /\ \A j \in size..size + Room - 1 :
           Stored(j)' = [event |-> sent + 1, part |-> 1 + j - size]
  BY <1>1, RoomForPacket, FillAppends DEF Packet
<1>3. \A i \in 0..size' - 1 :
        \/ /\ i \in 0..size - 1
           /\ Stored(i)' = Stored(i)
           /\ Stored(i).event \in applied + 1..sent
        \/ /\ i \in size..size + Room - 1
           /\ Stored(i)'.event = sent + 1
           /\ Stored(i)'.part = 1 + i - size
  <2> SUFFICES ASSUME NEW i \in 0..size' - 1
               PROVE  \/ /\ i \in 0..size - 1
                         /\ Stored(i)' = Stored(i)
                         /\ Stored(i).event \in applied + 1..sent
                      \/ /\ i \in size..size + Room - 1
                         /\ Stored(i)'.event = sent + 1
                         /\ Stored(i)'.part = 1 + i - size
    OBVIOUS
  <2>1. i \in 0..size - 1 \/ i \in size..size + Room - 1
    BY <1>1, <1>2
  <2> QED
    BY <1>2, <2>1 DEF InOrder, StoredInOrder
<1>4. \A i \in 0..size' - 1 : Stored(i)'.event \in applied' + 1..sent'
  BY <1>1, <1>3
<1>5. ASSUME NEW i \in 0..size' - 1, NEW j \in 0..size' - 1, i < j
      PROVE  /\ Stored(i)'.event <= Stored(j)'.event
             /\ Stored(j)'.part = 1 => Stored(i)'.event < Stored(j)'.event
  <2>1. CASE j \in 0..size - 1
    <3>1. i \in 0..size - 1
      BY <1>1, <1>5, <2>1
    <3>2. Stored(i)' = Stored(i) /\ Stored(j)' = Stored(j)
      BY <1>2, <2>1, <3>1
    <3> QED
      BY <1>5, <2>1, <3>1, <3>2 DEF InOrder, StoredInOrder
  <2>2. CASE j \in size..size + Room - 1
    <3>1. Stored(j)'.event = sent + 1 /\ Stored(j)'.part = 1 + j - size
      BY <1>2, <2>2
    <3>2. CASE i \in 0..size - 1
      <4>1. Stored(i)'.event \in applied + 1..sent
        BY <1>2, <3>2 DEF InOrder, StoredInOrder
      <4> QED
        BY <1>1, <3>1, <4>1
    <3>3. CASE i \in size..size + Room - 1
      <4>1. Stored(i)'.event = sent + 1 /\ j # size
        BY <1>1, <1>2, <1>5, <3>3
      <4> QED
        BY <1>1, <1>2, <2>2, <3>1, <4>1
    <3> QED
      BY <1>3, <3>2, <3>3
  <2> QED
    BY <1>3, <2>1, <2>2
<1>6. HandInOrder'
  <2> SUFFICES ASSUME pc = "check", Accepted(joyevent)
               PROVE  /\ joyevent[3].event \in applied + 1..sent + 1
                      /\ \A i \in 0..size' - 1 :
                           joyevent[3].event < Stored(i)'.event
    BY <1>1 DEF HandInOrder, Accepted
  <2>1. /\ joyevent[3].event \in applied + 1..sent
        /\ \A i \in 0..size - 1 : joyevent[3].event < Stored(i).event
    BY DEF InOrder, HandInOrder
  <2> QED
    BY <1>1, <1>3, <2>1
<1> QED
  BY <1>1, <1>4, <1>5, <1>6 DEF InOrder, StoredInOrder

\* What is read is what is oldest.
LEMMA ReadInOrder ==
  ASSUME TypeOK, WellCut, InOrder, AsyncRead
  PROVE  InOrder'
<1> DEFINE len == AtMost(EventWords, size)
<1>1. /\ size' = size - len
      /\ \A i \in 0..size' - 1 : Stored(i)' = Stored(i + len)
  BY ReadShifts
<1>2. /\ size \in Nat /\ sent \in Nat /\ applied \in Nat /\ applied <= sent
      /\ len \in 0..3 /\ len <= size /\ (len = 3 <=> size >= 3)
      /\ joyevent' = [i \in 1..len |-> Stored(i - 1)]
      /\ UNCHANGED <<applied, sent>>
  BY CapacityAssumption
     DEF TypeOK, AsyncRead, AtMost, EventWords, InOrder, StoredInOrder
<1> HIDE DEF len
<1>3. \A i \in 0..size' - 1 : i + len \in 0..size - 1
  BY <1>1, <1>2
<1>4. StoredInOrder'
  <2>1. \A i \in 0..size' - 1 : Stored(i)'.event \in applied' + 1..sent'
    BY <1>1, <1>2, <1>3 DEF InOrder, StoredInOrder
  <2>2. ASSUME NEW i \in 0..size' - 1, NEW j \in 0..size' - 1, i < j
        PROVE  /\ Stored(i)'.event <= Stored(j)'.event
               /\ Stored(j)'.part = 1 => Stored(i)'.event < Stored(j)'.event
    <3>1. /\ i + len \in 0..size - 1 /\ j + len \in 0..size - 1
          /\ i + len < j + len
      BY <1>1, <1>2, <2>2
    <3>2. Stored(i)' = Stored(i + len) /\ Stored(j)' = Stored(j + len)
      BY <1>1
    <3> QED
      BY <3>1, <3>2 DEF InOrder, StoredInOrder
  <2> QED
    BY <1>2, <2>1, <2>2 DEF StoredInOrder
<1>5. ASSUME Accepted(joyevent')
      PROVE  /\ joyevent'[3].event \in applied' + 1..sent'
             /\ \A i \in 0..size' - 1 : joyevent'[3].event < Stored(i)'.event
  <2>1. len = 3 /\ size >= 3
    BY <1>2, <1>5 DEF Accepted, EventWords
  <2>2. joyevent'[3] = Stored(2) /\ Stored(2).part = 3
    <3>1. joyevent'[3] = Stored(2)
      BY <1>2, <2>1
    <3>2. joyevent'[3].part = 3
      BY <1>5, ReadIsWhole DEF EventWords
    <3> QED
      BY <3>1, <3>2
  <2>3. Stored(2).event \in applied' + 1..sent'
    <3>1. 2 \in 0..size - 1
      BY <1>2, <2>1
    <3> QED
      BY <1>2, <3>1 DEF InOrder, StoredInOrder
  <2>4. ASSUME NEW i \in 0..size' - 1
        PROVE  Stored(2).event < Stored(i)'.event
    <3>1. /\ i + 3 \in 0..size - 1 /\ 2 \in 0..size - 1 /\ 3 \in 0..size - 1
          /\ 2 \in 0..size - 2
          /\ Stored(i)' = Stored(i + 3)
      BY <1>1, <1>2, <1>3, <2>1
    <3>2. Stored(3).part = 1
      <4>1. Stored(3).part \in 1..3
        BY <3>1 DEF WellCut, EventWords
      <4>2. \/ Stored(2 + 1).part = 1
            \/ Stored(2 + 1).part = Stored(2).part + 1
        BY <3>1 DEF WellCut
      <4> QED
        BY <2>2, <4>1, <4>2
    <3>3. Stored(2).event < Stored(3).event
      BY <3>1, <3>2 DEF InOrder, StoredInOrder
    <3>4. Stored(3).event <= Stored(i + 3).event
      <4>1. Stored(3).event \in Nat
        BY <1>2, <3>1 DEF InOrder, StoredInOrder
      <4>2. CASE i = 0
        BY <4>1, <4>2
      <4>3. CASE i # 0
        BY <1>1, <1>2, <3>1, <4>3 DEF InOrder, StoredInOrder
      <4> QED
        BY <4>2, <4>3
    <3>5. /\ Stored(2).event \in Nat /\ Stored(3).event \in Nat
          /\ Stored(i + 3).event \in Nat
      BY <1>2, <3>1 DEF InOrder, StoredInOrder
    <3> QED
      BY <3>1, <3>3, <3>4, <3>5
  <2> QED
    BY <2>2, <2>3, <2>4
<1> QED
  BY <1>4, <1>5 DEF InOrder, HandInOrder, Accepted

\* A flush empties the ring; the event in hand is not touched.
LEMMA FlushInOrder ==
  ASSUME TypeOK, InOrder, FlushByOther \/ FlushByMain
  PROVE  InOrder'
<1>1. /\ 0..size' - 1 = {}
      /\ UNCHANGED <<joyevent, sent, applied>>
      /\ pc' # "check" \/ pc' = pc
  BY DEF FlushByOther, FlushByMain, rjmUsbAsyncFlush
<1>2. StoredInOrder'
  BY <1>1 DEF InOrder, StoredInOrder
<1>3. HandInOrder'
  BY <1>1 DEF InOrder, HandInOrder, Accepted
<1> QED
  BY <1>2, <1>3 DEF InOrder

\* Applying the event in hand leaves only newer ones.
LEMMA HandleInOrder ==
  ASSUME TypeOK, InOrder, handle_joyevent
  PROVE  InOrder'
<1>1. /\ joyevent[3].event \in applied + 1..sent
      /\ \A i \in 0..size - 1 : joyevent[3].event < Stored(i).event
      /\ applied' = joyevent[3].event
      /\ pc' = "wait"
      /\ UNCHANGED <<ring, sent>>
  BY DEF InOrder, HandInOrder, handle_joyevent
<1>2. applied \in Nat /\ sent \in Nat
  BY DEF TypeOK
<1>3. /\ size' = size /\ sent' = sent
      /\ \A i \in 0..size - 1 : Stored(i)' = Stored(i)
  BY <1>1 DEF ring, Stored, Wrap
<1>4. \A i \in 0..size' - 1 : Stored(i)'.event \in applied' + 1..sent'
  BY <1>1, <1>2, <1>3 DEF InOrder, StoredInOrder
<1>5. \A i, j \in 0..size' - 1 : i < j =>
        /\ Stored(i)'.event <= Stored(j)'.event
        /\ Stored(j)'.part = 1 => Stored(i)'.event < Stored(j)'.event
  BY <1>3 DEF InOrder, StoredInOrder
<1> QED
  BY <1>1, <1>2, <1>3, <1>4, <1>5 DEF InOrder, StoredInOrder, HandInOrder

\* The other steps leave the ring alone and take up no new event.
LEMMA OthersInOrder ==
  ASSUME TypeOK, InOrder,
         \/ Wake \/ AsyncReadNotReady \/ AsyncReadWait
         \/ RejectEvent \/ IgnoreEvent \/ UNCHANGED vars
  PROVE  InOrder'
<1>1. UNCHANGED <<ring, sent, applied>>
  BY DEF Wake, AsyncReadNotReady, AsyncReadWait, RejectEvent, IgnoreEvent,
         vars, ring
<1>2. pc' # "check" \/ UNCHANGED <<pc, joyevent>>
  BY DEF Wake, AsyncReadNotReady, AsyncReadWait, RejectEvent, IgnoreEvent, vars
<1>3. StoredInOrder'
  BY <1>1 DEF InOrder, StoredInOrder, ring, Stored, Wrap
<1>4. HandInOrder'
  BY <1>1, <1>2 DEF InOrder, HandInOrder, Accepted, ring, Stored, Wrap
<1> QED
  BY <1>3, <1>4 DEF InOrder

-----------------------------------------------------------------------------
\* Nothing is missing before the first loss.

\* Without a loss, a packet was stored whole, behind whole events.
LEMMA FillComplete ==
  ASSUME TypeOK, WellCut, Complete, fill_async
  PROVE  Complete'
<1> SUFFICES ASSUME ~dropped'
             PROVE  /\ (EventWords * (sent - applied - InHand) = size)'
                    /\ HandComplete'
                    /\ StoredComplete'
  BY DEF Complete
<1>1. /\ size \in Nat /\ sent \in Nat /\ applied \in Nat /\ InHand \in {0, 1}
      /\ sent' = sent + 1
      /\ UNCHANGED <<applied, pc, joyevent>>
      /\ InHand' = InHand
  BY CapacityAssumption DEF TypeOK, fill_async, InHand
<1>2. ~dropped /\ Room = 3
  <2>1. dropped' = (dropped \/ Room < EventWords)
    BY DEF fill_async, Room
  <2>2. ~dropped /\ ~(Room < EventWords)
    BY <2>1, Zenon
  <2> QED
    BY <2>2, RoomForPacket DEF EventWords
<1>3. /\ size' = size + 3
      /\ \A i \in 0..size - 1 : Stored(i)' = Stored(i)
      /\ \A j \in size..size + 2 :
           Stored(j)' = [event |-> sent + 1, part |-> 1 + j - size]
  BY <1>1, <1>2, FillAppends DEF Packet
<1>4. 3 * (sent - applied - InHand) = size
  BY <1>2 DEF Complete, EventWords
<1>5. (EventWords * (sent - applied - InHand) = size)'
  BY <1>1, <1>3, <1>4 DEF EventWords
<1>6. HandComplete'
  BY <1>1, <1>2 DEF Complete, HandComplete
<1>7. ASSUME NEW n \in Nat, NEW k \in 1..3, 3 * n + k <= size'
      PROVE  Stored(3 * n + k - 1)' =
               [event |-> applied + InHand + 1 + n, part |-> k]
  <2>1. CASE 3 * n + k <= size
    <3>1. Stored(3 * n + k - 1) =
            [event |-> applied + InHand + 1 + n, part |-> k]
      BY <1>2, <1>7, <2>1 DEF Complete, StoredComplete, EventWords
    <3>2. 3 * n + k - 1 \in 0..size - 1
      BY <1>1, <1>7, <2>1
    <3> QED
      BY <1>3, <3>1, <3>2
  <2>2. CASE 3 * n + k > size
    <3>1. n = sent - applied - InHand
      BY <1>1, <1>3, <1>4, <1>7, <2>2
    <3>2. /\ 3 * n + k - 1 \in size..size + 2
          /\ 1 + (3 * n + k - 1) - size = k
          /\ sent + 1 = applied + InHand + 1 + n
      BY <1>1, <1>4, <1>7, <3>1
    <3> QED
      BY <1>3, <3>2
  <2> QED
    BY <1>1, <2>1, <2>2
<1> QED
  BY <1>1, <1>5, <1>6, <1>7 DEF StoredComplete, EventWords

\* Without a loss, main_thread reads the next event whole, or nothing.
LEMMA ReadComplete ==
  ASSUME TypeOK, WellCut, Complete, AsyncRead
  PROVE  Complete'
<1> DEFINE len == AtMost(EventWords, size)
<1> SUFFICES ASSUME ~dropped'
             PROVE  /\ (EventWords * (sent - applied - InHand) = size)'
                    /\ HandComplete'
                    /\ StoredComplete'
  BY DEF Complete
<1>1. /\ size \in Nat /\ sent \in Nat /\ applied \in Nat
      /\ ~dropped /\ InHand = 0
      /\ pc' = "check"
      /\ joyevent' = [i \in 1..len |-> Stored(i - 1)]
      /\ UNCHANGED <<applied, sent>>
  BY CapacityAssumption DEF TypeOK, AsyncRead, InHand
<1>2. /\ size' = size - len
      /\ \A i \in 0..size' - 1 : Stored(i)' = Stored(i + len)
  BY ReadShifts
<1>3. /\ 3 * (sent - applied) = size
      /\ \A n \in Nat : \A k \in 1..3 : 3 * n + k <= size =>
           Stored(3 * n + k - 1) = [event |-> applied + 1 + n, part |-> k]
  BY <1>1 DEF Complete, StoredComplete, EventWords
<1>4. (size = 0 /\ len = 0) \/ (size >= 3 /\ len = 3)
  BY <1>1, <1>3 DEF AtMost, EventWords
<1> HIDE DEF len
<1>5. CASE size = 0 /\ len = 0
  <2>1. joyevent' = <<>>
    BY <1>1, <1>5
  <2>2. InHand' = 0
    BY <2>1 DEF InHand
  <2>3. StoredComplete'
    BY <1>1, <1>2, <1>5 DEF StoredComplete, EventWords
  <2> QED
    BY <1>1, <1>2, <1>3, <1>5, <2>2, <2>3 DEF EventWords, HandComplete
<1>6. CASE size >= 3 /\ len = 3
  <2>1. Len(joyevent') = 3 /\ \A k \in 1..3 : joyevent'[k] = Stored(k - 1)
    BY <1>1, <1>6
  <2>2. InHand' = 1
    <3>1. joyevent' # <<>>
      <4> SUFFICES ASSUME joyevent' = <<>> PROVE FALSE
        OBVIOUS
      <4> QED
        BY <2>1
    <3> QED
      BY <1>1, <3>1 DEF InHand
  <2>3. \A k \in 1..3 : Stored(k - 1) = [event |-> applied + 1, part |-> k]
    <3> SUFFICES ASSUME NEW k \in 1..3
                 PROVE  Stored(k - 1) = [event |-> applied + 1, part |-> k]
      OBVIOUS
    <3>1. Stored(3 * 0 + k - 1) = [event |-> applied + 1 + 0, part |-> k]
      <4>1. 0 \in Nat /\ 3 * 0 + k <= size
        BY <1>1, <1>6
      <4> QED
        BY <1>3, <4>1, Zenon
    <3>2. 3 * 0 + k - 1 = k - 1 /\ applied + 1 + 0 = applied + 1
      BY <1>1
    <3> QED
      BY <3>1, <3>2
  <2>4. HandComplete'
    BY <1>1, <2>1, <2>3 DEF HandComplete, EventWords
  <2>5. ASSUME NEW n \in Nat, NEW k \in 1..3, 3 * n + k <= size'
        PROVE  Stored(3 * n + k - 1)' =
                 [event |-> applied' + 1 + 1 + n, part |-> k]
    <3>1. Stored(3 * n + k - 1)' = Stored(3 * n + k - 1 + 3)
      BY <1>1, <1>2, <1>6, <2>5
    <3>2. Stored(3 * (n + 1) + k - 1) =
            [event |-> applied + 1 + (n + 1), part |-> k]
      <4>1. n + 1 \in Nat /\ 3 * (n + 1) + k <= size
        BY <1>1, <1>2, <1>6, <2>5
      <4> QED
        BY <1>3, <4>1, Zenon
    <3>3. /\ 3 * n + k - 1 + 3 = 3 * (n + 1) + k - 1
          /\ applied + 1 + (n + 1) = applied' + 1 + 1 + n
      BY <1>1
    <3> QED
      BY <3>1, <3>2, <3>3
  <2>6. StoredComplete'
    BY <2>2, <2>5 DEF StoredComplete, EventWords
  <2> QED
    BY <1>1, <1>2, <1>3, <1>6, <2>2, <2>4, <2>6 DEF EventWords
<1> QED
  BY <1>4, <1>5, <1>6

\* A flush that discards something is a loss; one that does not finds the
\* ring empty.
LEMMA FlushComplete ==
  ASSUME TypeOK, Complete, FlushByOther \/ FlushByMain
  PROVE  Complete'
<1> SUFFICES ASSUME ~dropped'
             PROVE  /\ (EventWords * (sent - applied - InHand) = size)'
                    /\ HandComplete'
                    /\ StoredComplete'
  BY DEF Complete
<1>1. /\ size \in Nat /\ size' = 0
      /\ dropped' = (dropped \/ size > 0)
      /\ InHand' = InHand
      /\ UNCHANGED <<joyevent, sent, applied>>
  BY CapacityAssumption
     DEF TypeOK, FlushByOther, FlushByMain, rjmUsbAsyncFlush, InHand
<1>2. ~dropped /\ ~(size > 0)
  BY <1>1, Zenon
<1>3. StoredComplete'
  BY <1>1 DEF StoredComplete, EventWords
<1> QED
  BY <1>1, <1>2, <1>3 DEF Complete, HandComplete

\* Applying the event in hand moves it from InHand to applied.
LEMMA HandleComplete ==
  ASSUME TypeOK, Complete, handle_joyevent
  PROVE  Complete'
<1> SUFFICES ASSUME ~dropped'
             PROVE  /\ (EventWords * (sent - applied - InHand) = size)'
                    /\ HandComplete'
                    /\ StoredComplete'
  BY DEF Complete
<1>1. /\ pc = "check" /\ pc' = "wait"
      /\ Len(joyevent) = 3
      /\ applied' = joyevent[3].event
      /\ ~dropped
      /\ UNCHANGED <<ring, joyevent, sent>>
  BY DEF handle_joyevent, Accepted, EventWords
<1>2. InHand = 1 /\ InHand' = 0
  BY <1>1 DEF InHand
<1>3. applied' = applied + 1
  BY <1>1, <1>2 DEF Complete, HandComplete, EventWords
<1>4. /\ applied \in Nat /\ sent \in Nat
      /\ applied' + InHand' = applied + InHand
  BY <1>2, <1>3 DEF TypeOK
<1>5. size' = size
  BY <1>1 DEF ring
<1>6. StoredComplete'
  <2>1. StoredComplete
    BY <1>1 DEF Complete
  <2> QED
    BY <1>1, <1>4, <2>1 DEF StoredComplete, ring, Stored, Wrap
<1>7. (EventWords * (sent - applied - InHand) = size)'
  <2>1. EventWords * (sent - applied - InHand) = size
    BY <1>1 DEF Complete
  <2> QED
    BY <1>1, <1>2, <1>3, <1>4, <1>5, <2>1
<1> QED
  BY <1>2, <1>6, <1>7 DEF HandComplete

\* Without a loss main_thread neither rejects nor ignores an event, and the
\* other steps leave the ring and what is in hand alone.
LEMMA OthersComplete ==
  ASSUME TypeOK, Complete,
         \/ Wake \/ AsyncReadNotReady \/ AsyncReadWait
         \/ RejectEvent \/ IgnoreEvent \/ UNCHANGED vars
  PROVE  Complete'
<1>1. UNCHANGED <<ring, sent, applied, dropped>>
  BY DEF Wake, AsyncReadNotReady, AsyncReadWait, RejectEvent, IgnoreEvent,
         vars, ring
<1> SUFFICES ASSUME ~dropped
             PROVE  /\ (EventWords * (sent - applied - InHand) = size)'
                    /\ HandComplete'
                    /\ StoredComplete'
  BY <1>1 DEF Complete
<1>2. InHand' = InHand /\ (InHand = 1 => joyevent' = joyevent)
  <2>1. CASE Wake \/ AsyncReadNotReady \/ AsyncReadWait \/ UNCHANGED vars
    BY <2>1 DEF Wake, AsyncReadNotReady, AsyncReadWait, vars, InHand
  <2>2. CASE RejectEvent \/ IgnoreEvent
    <3>1. InHand = 1 =>
            /\ Len(joyevent) = 3
            /\ joyevent[1].part = 1
            /\ joyevent[2].part = 2
      BY DEF Complete, HandComplete, EventWords
    <3>2. InHand = 0 /\ pc' # "check"
      BY <2>2, <3>1 DEF RejectEvent, IgnoreEvent, InHand, EventWords
    <3> QED
      BY <3>2 DEF InHand
  <2> QED
    BY <2>1, <2>2
<1> QED
  BY <1>1, <1>2
     DEF Complete, HandComplete, StoredComplete, ring, Stored, Wrap

-----------------------------------------------------------------------------
LEMMA InitOrderComplete == Init => InOrder /\ Complete
<1> SUFFICES ASSUME Init PROVE InOrder /\ Complete
  OBVIOUS
<1>1. /\ size = 0 /\ sent = 0 /\ applied = 0 /\ pc = "wait" /\ InHand = 0
  BY DEF Init, InHand
<1>2. InOrder
  BY <1>1 DEF InOrder, StoredInOrder, HandInOrder
<1>3. Complete
  BY <1>1 DEF Complete, HandComplete, StoredComplete, EventWords
<1> QED
  BY <1>2, <1>3

LEMMA NextOrderComplete ==
  IInv /\ InOrder /\ Complete /\ [Next]_vars => InOrder' /\ Complete'
<1> SUFFICES ASSUME IInv, InOrder, Complete, [Next]_vars
             PROVE  InOrder' /\ Complete'
  OBVIOUS
<1>1. TypeOK /\ WellCut
  BY DEF IInv
<1>2. CASE fill_async
  BY <1>1, <1>2, FillInOrder, FillComplete
<1>3. CASE AsyncRead
  BY <1>1, <1>3, ReadInOrder, ReadComplete
<1>4. CASE FlushByOther \/ FlushByMain
  BY <1>1, <1>4, FlushInOrder, FlushComplete
<1>5. CASE handle_joyevent
  BY <1>1, <1>5, HandleInOrder, HandleComplete
<1>6. CASE \/ Wake \/ AsyncReadNotReady \/ AsyncReadWait
           \/ RejectEvent \/ IgnoreEvent \/ UNCHANGED vars
  BY <1>1, <1>6, OthersInOrder, OthersComplete
<1> QED
  BY <1>2, <1>3, <1>4, <1>5, <1>6 DEF Next, MainThread

LEMMA OrderCompleteInvariance == Spec => [](IInv /\ InOrder /\ Complete)
  BY InitIInv, NextIInv, InitOrderComplete, NextOrderComplete, PTL DEF Spec

\* Unless a full ring cut an event or a flush discarded one, the ring holds
\* exactly the events sent and not yet taken.
THEOREM NothingLostSilently == Spec => []NoSilentLoss
<1>1. Complete => NoSilentLoss
  BY DEF Complete, NoSilentLoss
<1> QED
  BY <1>1, OrderCompleteInvariance, PTL

-----------------------------------------------------------------------------
\* A step of the ring is a step of the channel, or none.
LEMMA StepRefines ==
  IInv /\ InOrder /\ Complete /\ [Next]_vars => [Channel!Next]_Channel!vars
<1> SUFFICES ASSUME IInv, InOrder, Complete, [Next]_vars
             PROVE  [Channel!Next]_Channel!vars
  OBVIOUS
<1>1. /\ applied \in Nat /\ sent \in Nat /\ dropped \in BOOLEAN
  BY DEF IInv, TypeOK
<1>2. CASE fill_async
  <2>1. dropped' \in {dropped, TRUE}
    <3>1. dropped' = (dropped \/ Room < EventWords)
      BY <1>2 DEF fill_async, Room
    <3> QED
      BY <1>1, <3>1, Zenon
  <2>2. sent < MaxEvents /\ sent' = sent + 1 /\ applied' = applied
    BY <1>2 DEF fill_async
  <2>3. Channel!Send
    BY <2>1, <2>2 DEF Channel!Send
  <2> QED
    BY <2>3 DEF Channel!Next
<1>3. CASE FlushByOther \/ FlushByMain
  <2>1. dropped' \in {dropped, TRUE}
    <3>1. dropped' = (dropped \/ size > 0)
      BY <1>3 DEF FlushByOther, FlushByMain, rjmUsbAsyncFlush
    <3> QED
      BY <1>1, <3>1, Zenon
  <2>2. UNCHANGED <<sent, applied>>
    BY <1>3 DEF FlushByOther, FlushByMain
  <2>3. Channel!Lose \/ UNCHANGED Channel!vars
    BY <2>1, <2>2 DEF Channel!Lose, Channel!vars
  <2> QED
    BY <2>3 DEF Channel!Next
<1>4. CASE handle_joyevent
  <2>1. joyevent[3].event \in applied + 1..sent
    BY <1>4 DEF handle_joyevent, InOrder, HandInOrder
  <2>2. ~dropped => joyevent[3].event = applied + 1
    <3> SUFFICES ASSUME ~dropped PROVE joyevent[3].event = applied + 1
      OBVIOUS
    <3>1. InHand = 1
      BY <1>4 DEF handle_joyevent, Accepted, InHand, EventWords
    <3> QED
      BY <3>1 DEF Complete, HandComplete, EventWords
  <2>3. applied' = joyevent[3].event /\ UNCHANGED <<sent, dropped>>
    BY <1>4 DEF handle_joyevent
  <2>4. Channel!Apply
    BY <2>1, <2>2, <2>3 DEF Channel!Apply
  <2> QED
    BY <2>4 DEF Channel!Next
<1>5. CASE \/ Wake \/ AsyncReadNotReady \/ AsyncReadWait \/ AsyncRead
           \/ RejectEvent \/ IgnoreEvent \/ UNCHANGED vars
  BY <1>5 DEF Wake, AsyncReadNotReady, AsyncReadWait, AsyncRead, RejectEvent,
              IgnoreEvent, vars, Channel!vars
<1> QED
  BY <1>2, <1>3, <1>4, <1>5 DEF Next, MainThread

\* The ring, its reader and its flushes apply each event at most once, in the
\* order of sending, and skip none before the first loss.
THEOREM Refinement == Spec => ImplementsEventChannel
<1>1. Init => Channel!Init
  BY DEF Init, Channel!Init
<1> QED
  BY <1>1, StepRefines, OrderCompleteInvariance, PTL
     DEF Spec, ImplementsEventChannel, Channel!Spec

=============================================================================
