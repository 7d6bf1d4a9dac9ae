------------------------------ MODULE AsyncRing ------------------------------
(***************************************************************************)
(* The ring buffer g_async_endp of remotejoy_minus.c between the USB       *)
(* thread, which appends the payload of every 20-byte JoyEvent packet, and *)
(* main_thread of main.c, which takes sizeof(struct JoyEvent) bytes at a   *)
(* time and hands them to handle_joyevent.                                 *)
(*                                                                         *)
(* The unit is the 4-byte word: a JoyEvent is three of them (its magic,    *)
(* its type, its value), a packet's payload is always one JoyEvent, and    *)
(* every count in the code is a multiple of a word.  MAX_ASYNC_BUFFER is   *)
(* 4096 bytes, 1024 words, which is not a multiple of an event: when       *)
(* main_thread falls behind, fill_async stores what fits and an event is   *)
(* cut.  The module is about what a cut event does to the events behind it.*)
(*                                                                         *)
(* Actions are the sections the code runs with interrupts disabled, and    *)
(* the steps between them, at which another thread may run.                *)
(***************************************************************************)
EXTENDS Integers, Sequences

CONSTANTS
  Capacity,   \* MAX_ASYNC_BUFFER, in words
  MaxEvents   \* how many events the host sends (bounds the model only)

\* 4096 bytes are 1024 words and 1024 % 3 = 1.  A ring of 3k + 2 words would
\* break AcceptedEventIsWhole.
ASSUME CapacityAssumption ==
  /\ Capacity \in Nat \ {0}
  /\ Capacity % 3 = 1
  /\ MaxEvents \in Nat

VARIABLES
  buffer,       \* g_async_endp.buffer
  read_pos,     \* g_async_endp.read_pos
  write_pos,    \* g_async_endp.write_pos
  size,         \* g_async_endp.size
  async_event,  \* the RJM_ASYNC_JOY bit of g_async_event
  pc,           \* where main_thread is in its loop
  joyevent,     \* the words rjmUsbAsyncRead returned to main_thread
  sent,         \* how many events have reached fill_async
  applied,      \* the last event whose value handle_joyevent applied
  dropped       \* some event has been cut, discarded or flushed

ring == <<buffer, read_pos, write_pos, size>>
vars == <<buffer, read_pos, write_pos, size, async_event, pc, joyevent,
          sent, applied, dropped>>

EventWords == 3                  \* sizeof(struct JoyEvent) / 4
Word == [event : Nat, part : 0..EventWords]
NoWord == [event |-> 0, part |-> 0]

\* pos %= MAX_ASYNC_BUFFER, for a position that passed the end at most once.
Wrap(pos) == IF pos >= Capacity THEN pos - Capacity ELSE pos

\* The i-th word a reader would take.
Stored(i) == buffer[Wrap(read_pos + i)]

AtMost(a, b) == IF a < b THEN a ELSE b

-----------------------------------------------------------------------------
Init ==
  /\ buffer = [i \in 0..Capacity - 1 |-> NoWord]
  /\ read_pos = 0
  /\ write_pos = 0
  /\ size = 0
  /\ async_event = FALSE
  /\ pc = "wait"
  /\ joyevent = <<>>
  /\ sent = 0
  /\ applied = 0
  /\ dropped = FALSE

\* How many words of a packet the ring has room for.
\* Mutant: the packet's header (struct AsyncCommand, two words) is counted
\* although it is not stored.
Room_CountsHeader == AtMost(EventWords, Capacity - 2 - size)
Room == AtMost(EventWords, Capacity - size)

\* The USB thread has received one JoyEvent packet.
fill_async ==
  LET sizeleft == Room
  IN  /\ sent < MaxEvents
      /\ sent' = sent + 1
      /\ buffer' = [i \in 0..Capacity - 1 |->
            IF \E k \in 0..sizeleft - 1 : i = Wrap(write_pos + k)
            THEN [event |-> sent + 1,
                  part |-> 1 + (IF i >= write_pos THEN i - write_pos
                                ELSE i + Capacity - write_pos)]
            ELSE buffer[i]]
      /\ write_pos' = Wrap(write_pos + sizeleft)
      /\ size' = size + sizeleft
      /\ async_event' = TRUE
      /\ dropped' = (dropped \/ sizeleft < EventWords)
      /\ UNCHANGED <<read_pos, pc, joyevent, applied>>

\* What rjmUsbAsyncFlush does to the ring, whoever calls it.
rjmUsbAsyncFlush ==
  /\ size' = 0
  /\ read_pos' = 0
  /\ write_pos' = 0
  /\ async_event' = FALSE
  /\ dropped' = (dropped \/ size > 0)
  /\ UNCHANGED buffer

\* The USB thread (attach, detach) or the power callback flushes.
FlushByOther ==
  /\ rjmUsbAsyncFlush
  /\ UNCHANGED <<pc, joyevent, sent, applied>>

\* usb_detach, the USB thread's detach branch and rjmUsbSuspend wake the
\* reader although nothing was stored.
Wake ==
  /\ async_event' = TRUE
  /\ UNCHANGED <<ring, pc, joyevent, sent, applied, dropped>>

-----------------------------------------------------------------------------
\* rjmUsbAsyncRead: the wait on g_async_event is satisfied and clears it.
AsyncReadWait ==
  /\ pc = "wait"
  /\ async_event
  /\ async_event' = FALSE
  /\ pc' = "read"
  /\ UNCHANGED <<ring, joyevent, sent, applied, dropped>>

\* rjmUsbAsyncRead: the copy, with interrupts disabled.
\* Mutants: the flag is not set again when words remain; what remains is
\* discarded.
AsyncRead_NoWakeup ==
  LET len == AtMost(EventWords, size)
  IN  /\ pc = "read"
      /\ joyevent' = [i \in 1..len |-> Stored(i - 1)]
      /\ read_pos' = Wrap(read_pos + len)
      /\ size' = size - len
      /\ pc' = "check"
      /\ UNCHANGED <<buffer, write_pos, async_event, sent, applied, dropped>>
AsyncRead_DiscardsRest ==
  /\ pc = "read"
  /\ joyevent' = [i \in 1..AtMost(EventWords, size) |-> Stored(i - 1)]
  /\ read_pos' = write_pos
  /\ size' = 0
  /\ pc' = "check"
  /\ UNCHANGED <<buffer, write_pos, async_event, sent, applied, dropped>>
AsyncRead ==
  LET len == AtMost(EventWords, size)
  IN  /\ pc = "read"
      /\ joyevent' = [i \in 1..len |-> Stored(i - 1)]
      /\ read_pos' = Wrap(read_pos + len)
      /\ size' = size - len
      /\ async_event' = (async_event \/ size - len # 0)
      /\ pc' = "check"
      /\ UNCHANGED <<buffer, write_pos, sent, applied, dropped>>

\* rjmUsbAsyncRead returns -1 because the link went down; the outer loop of
\* main_thread resets the input, flushes and waits for a connection.
AsyncReadNotReady ==
  /\ pc \in {"wait", "read"}
  /\ joyevent' = <<>>
  /\ pc' = "flush"
  /\ UNCHANGED <<ring, async_event, sent, applied, dropped>>

\* The first word can pass the test joyevent.magic == JOY_MAGIC when it is a
\* magic, or a value that happens to equal it (an aim position can).
MayBeMagic(word) == word.part \in {1, 3}
\* The second word can select a case of handle_joyevent when it is a type, or
\* a value that happens to be a type's number.  A magic never is.
MayBeType(word) == word.part \in {2, 3}

Accepted(words) ==
  /\ Len(words) = EventWords
  /\ MayBeMagic(words[1])
  /\ MayBeType(words[2])

\* main_thread: a short read or a wrong magic resets the input state.
RejectEvent ==
  /\ pc = "check"
  /\ Len(joyevent) = EventWords => joyevent[1].part # 1
  /\ pc' = "flush"
  /\ UNCHANGED <<ring, async_event, joyevent, sent, applied, dropped>>

\* main_thread: rjmUsbAsyncFlush() after the reset.
FlushByMain ==
  /\ pc = "flush"
  /\ rjmUsbAsyncFlush
  /\ pc' = "wait"
  /\ UNCHANGED <<joyevent, sent, applied>>

\* main_thread: handle_joyevent applies the event's value.
handle_joyevent ==
  /\ pc = "check"
  /\ Accepted(joyevent)
  /\ applied' = joyevent[3].event
  /\ pc' = "wait"
  /\ UNCHANGED <<ring, async_event, joyevent, sent, dropped>>

\* main_thread: the magic is right and no case of handle_joyevent matches.
IgnoreEvent ==
  /\ pc = "check"
  /\ Len(joyevent) = EventWords
  /\ MayBeMagic(joyevent[1])
  /\ joyevent[2].part # 2
  /\ pc' = "wait"
  /\ UNCHANGED <<ring, async_event, joyevent, sent, applied, dropped>>

MainThread ==
  \/ AsyncReadWait
  \/ AsyncRead
  \/ RejectEvent
  \/ FlushByMain
  \/ handle_joyevent
  \/ IgnoreEvent

Next ==
  \/ fill_async
  \/ FlushByOther
  \/ Wake
  \/ AsyncReadNotReady
  \/ MainThread

Spec == Init /\ [][Next]_vars

\* main_thread is a kernel thread that is scheduled whenever it is ready.
FairSpec == Spec /\ WF_vars(MainThread)

-----------------------------------------------------------------------------
(***************************************************************************)
(* Properties                                                              *)
(***************************************************************************)

\* The variables have their types, and the three cursors of the ring agree:
\* write_pos is size words after read_pos.
TypeOK ==
  /\ buffer \in [0..Capacity - 1 -> Word]
  /\ read_pos \in 0..Capacity - 1
  /\ write_pos \in 0..Capacity - 1
  /\ size \in 0..Capacity
  /\ write_pos = Wrap(read_pos + size)
  /\ async_event \in BOOLEAN
  /\ pc \in {"wait", "read", "check", "flush"}
  /\ joyevent \in Seq(Word)
  /\ Len(joyevent) <= EventWords
  /\ sent \in 0..MaxEvents
  /\ applied \in Nat
  /\ dropped \in BOOLEAN

\* Whatever overflow has cut, the three words main_thread accepts are the
\* magic, the type and the value of one event: a type is never paired with
\* the value (or the magic) of another event, which would press buttons
\* nobody pressed.
AcceptedEventIsWhole ==
  pc = "check" /\ Accepted(joyevent) =>
    \A k \in 1..EventWords :
      joyevent[k] = [event |-> joyevent[1].event, part |-> k]

\* What the words in the ring look like.  Every word begins an event or
\* continues the event of the word before it; an event is never cut after its
\* type, because the free space, like the capacity, is never 3k + 2 words
\* wide; and the newest word is not a type.  This, with the types, is the
\* invariant AcceptedEventIsWhole rests on.
WellCut ==
  /\ size % 3 \in {0, 1}
  /\ \A i \in 0..size - 1 :
       /\ Stored(i).part \in 1..EventWords
       /\ Stored(i).part = 2 => i < size - 1
  /\ \A i \in 0..size - 2 :
       \/ /\ Stored(i + 1).part = 1
          /\ Stored(i).part # 2
       \/ /\ Stored(i + 1).part = Stored(i).part + 1
          /\ Stored(i + 1).event = Stored(i).event

\* A stored word is never stranded: unless main_thread has just consumed the
\* event flag and is about to read or to flush, the flag is set while the ring
\* holds anything, so that its next wait returns.
NoLostWakeup == size > 0 /\ pc \in {"wait", "check"} => async_event

\* Nothing disappears silently: unless some event was cut by a full ring or
\* flushed, every event sent has been applied, is in main_thread's hands, or
\* is stored whole.
InHand == IF pc = "check" /\ joyevent # <<>> THEN 1 ELSE 0
NoSilentLoss == ~dropped => EventWords * (sent - applied - InHand) = size

\* The ring, its reader and its flushes implement the lossy, ordered channel:
\* each event is applied at most once, in order, and none is skipped before
\* the first loss.
Channel == INSTANCE EventChannel WITH lossy <- dropped
ImplementsEventChannel == Channel!Spec

\* Once the host has sent its last event, main_thread empties the ring,
\* leftovers of a cut event included.
RingDrains == []<>(size = 0)

=============================================================================
