---------------------------- MODULE PspInputProofs ----------------------------
(***************************************************************************)
(* Theorems about the Pico 2 W's input stream, for every set of buttons,   *)
(* ring size and deadband: InputMirrored, Player2Mirrored, and that it is  *)
(* a PadChannel.                                                           *)
(*                                                                         *)
(* The first two speak of what the PSP will hold once it has the queue.    *)
(* They are inductive together with what ties the transfer in flight to    *)
(* the queue and to the marks, and with Calm: at no point of the queue     *)
(* does the PSP hold a button for an absent player 2.                      *)
(*                                                                         *)
(* The refinement maps each queued event to the buttons player 1 will hold *)
(* after it (AheadOf), and needs of the invariant that the event in flight *)
(* is the queue's head and that g_last is what the PSP will hold.          *)
(***************************************************************************)
EXTENDS PspInput, JoyEventsProofs

\* The aim a controller can have given; x is not cleared with active.
AimReadings ==
  {a \in [active : BOOLEAN, offscreen : BOOLEAN, x : AimsAt \cup {0}] :
     a.active => a.x \in AimsAt}

\* What process_queue chooses from.
SourcesOK ==
  /\ queue \in Seq(ButtonEvents)
  /\ pendingAxis \in [Axes -> SticksAt \cup {NoValue}]
  /\ aimLast \in AimReadings
  /\ aimPending \in BOOLEAN

TypeOK ==
  /\ SourcesOK
  /\ complete \in BOOLEAN
  /\ inflight \in {Idle} \cup Events
  /\ state \in [Players -> ReportedPads]
  /\ last \in [Players -> Pads]
  /\ aim \in AimReadings
  /\ psp \in InputState

\* Without a link nothing is queued, in flight or believed to be held.
Unlinked ==
  ~complete => /\ queue = <<>>
               /\ inflight = Idle
               /\ last = [p \in Players |-> NeutralPad]
               /\ pendingAxis = [axis \in Axes |-> NoValue]
               /\ aimLast = NoAim
               /\ ~aimPending
               /\ psp = Neutral

\* The event in flight is still in the queue, or its axis or the aim is still
\* marked.
InflightIsKept ==
  /\ inflight \in ButtonEvents => queue # <<>> /\ inflight = Head(queue)
  /\ inflight \in AnalogEvents => pendingAxis[inflight.axis] # NoValue
  /\ inflight \in AimEvents => aimPending

\* An axis of player 1 is marked with the value last taken.
MarkIsLast ==
  \A a \in {"x", "y"} :
    pendingAxis[<<0, a>>] # NoValue => pendingAxis[<<0, a>>] = last[0][a]

Present2(input) == input.buttons[1] # {} => input.p2_connected

\* Player 2 is present wherever it holds a button, after any part of the queue.
Calm(input, events) ==
  \A k \in 0..Len(events) : Present2(AfterAll(input, SubSeq(events, 1, k)))

\* What is to come agrees with what is believed to be held of player p.
Agrees(input, p, was) ==
  IF p = 0 THEN input.buttons[0] = was.buttons
  ELSE /\ input.p2_connected = was.connected
       /\ input.buttons[1] \subseteq was.buttons

\* What is to come is what g_last says, for both players.
Believed ==
  complete => /\ Agrees(Upcoming, 0, last[0])
              /\ Agrees(Upcoming, 1, last[1])

IInv ==
  /\ TypeOK
  /\ Unlinked
  /\ InflightIsKept
  /\ MarkIsLast
  /\ Calm(psp, queue)
  /\ Believed
  /\ Player1StickMirrored
  /\ AimMirrored

-----------------------------------------------------------------------------
(* Lemmas about Calm.                                                      *)

LEMMA ButtonEventsAreEvents ==
  ASSUME NEW q \in Seq(ButtonEvents)
  PROVE  q \in Seq(Events)
<1>1. ButtonEvents \subseteq Events
  BY DEF Events
<1> QED
  BY <1>1, SeqMonotonic

LEMMA CalmNow ==
  ASSUME NEW i, NEW q \in Seq(Events), Calm(i, q)
  PROVE  Present2(i)
<1>1. 0 \in 0..Len(q)
  BY LenProperties
<1>2. SubSeq(q, 1, 0) = <<>>
  BY SubSeqEmpty
<1>3. Present2(AfterAll(i, SubSeq(q, 1, 0)))
  BY <1>1 DEF Calm
<1> QED
  BY <1>2, <1>3, AfterAllEmpty

LEMMA CalmEnd ==
  ASSUME NEW i, NEW q \in Seq(Events), Calm(i, q)
  PROVE  Present2(AfterAll(i, q))
<1>1. Len(q) \in 0..Len(q)
  BY LenProperties
<1>2. SubSeq(q, 1, Len(q)) = q
  BY SubSeqFull
<1>3. Present2(AfterAll(i, SubSeq(q, 1, Len(q))))
  BY <1>1 DEF Calm
<1> QED
  BY <1>2, <1>3

LEMMA CalmEmpty ==
  ASSUME NEW i, Present2(i)
  PROVE  Calm(i, <<>>)
<1>1. ASSUME NEW k \in 0..Len(<<>>) PROVE Present2(AfterAll(i, SubSeq(<<>>, 1, k)))
  <2>1. k = 0
    OBVIOUS
  <2>2. SubSeq(<<>>, 1, 0) = <<>>
    BY SubSeqEmpty
  <2> QED
    BY <2>1, <2>2, AfterAllEmpty
<1> QED
  BY <1>1 DEF Calm

LEMMA CalmOne ==
  ASSUME NEW i, NEW e, Present2(i), Present2(handle_joyevent(i, e))
  PROVE  Calm(i, <<e>>)
<1>1. ASSUME NEW k \in 0..Len(<<e>>) PROVE Present2(AfterAll(i, SubSeq(<<e>>, 1, k)))
  <2>1. k = 0 \/ k = 1
    OBVIOUS
  <2>2. SubSeq(<<e>>, 1, 0) = <<>>
    BY SubSeqEmpty
  <2>3. SubSeq(<<e>>, 1, 1) = <<e>>
    <3>1. <<e>> \in Seq({e}) /\ Len(<<e>>) = 1
      OBVIOUS
    <3> QED
      BY <3>1, SubSeqFull
  <2> QED
    BY <2>1, <2>2, <2>3, AfterAllEmpty, AfterAllOne
<1> QED
  BY <1>1 DEF Calm

LEMMA PrefixOfConcat ==
  ASSUME NEW E, NEW q \in Seq(E), NEW u \in Seq(E), NEW k \in 0..(Len(q) + Len(u))
  PROVE  /\ k <= Len(q) => SubSeq(q \o u, 1, k) = SubSeq(q, 1, k)
         /\ k > Len(q) => SubSeq(q \o u, 1, k) = q \o SubSeq(u, 1, k - Len(q))
<1>1. Len(q) \in Nat /\ Len(u) \in Nat
  BY LenProperties
<1>2. ASSUME k <= Len(q)
      PROVE  SubSeq(q \o u, 1, k) = SubSeq(q, 1, k)
  <2>1. CASE k = 0
    <3>1. SubSeq(q \o u, 1, 0) = <<>> /\ SubSeq(q, 1, 0) = <<>>
      BY SubSeqEmpty
    <3> QED
      BY <2>1, <3>1
  <2>2. CASE k # 0
    <3>1. 1 \in 1..Len(q) /\ k \in 1..Len(q)
      BY <1>1, <1>2, <2>2
    <3> QED
      BY <3>1, SubSeqOfConcat1
  <2> QED
    BY <2>1, <2>2
<1>3. ASSUME k > Len(q)
      PROVE  SubSeq(q \o u, 1, k) = q \o SubSeq(u, 1, k - Len(q))
  <2> DEFINE n == k - Len(q)
  <2>1. n \in 0..Len(u) /\ n \in Nat /\ k = Len(q) + n
    BY <1>1, <1>3
  <2>2. q \o u \in Seq(E) /\ Len(q \o u) = Len(q) + Len(u)
    BY ConcatProperties
  <2>3. /\ SubSeq(q \o u, 1, k) \in Seq(E)
        /\ Len(SubSeq(q \o u, 1, k)) = k
    BY <2>2, PrefixIsSeq
  <2>4. SubSeq(u, 1, n) \in Seq(E) /\ Len(SubSeq(u, 1, n)) = n
    BY <2>1, PrefixIsSeq
  <2>5. /\ q \o SubSeq(u, 1, n) \in Seq(E)
        /\ Len(q \o SubSeq(u, 1, n)) = k
    BY <2>1, <2>4, ConcatProperties
  <2>6. ASSUME NEW j \in 1..k
        PROVE  SubSeq(q \o u, 1, k)[j] = (q \o SubSeq(u, 1, n))[j]
    <3>1. SubSeq(q \o u, 1, k)[j] = (q \o u)[j]
      BY <2>2, PrefixIsSeq
    <3>2. (q \o u)[j] = IF j <= Len(q) THEN q[j] ELSE u[j - Len(q)]
      BY <1>1, <2>1, ConcatProperties
    <3>3. (q \o SubSeq(u, 1, n))[j]
            = IF j <= Len(q) THEN q[j] ELSE SubSeq(u, 1, n)[j - Len(q)]
      BY <1>1, <2>1, <2>4, ConcatProperties
    <3>4. j > Len(q) => SubSeq(u, 1, n)[j - Len(q)] = u[j - Len(q)]
      <4>1. j > Len(q) => j - Len(q) \in 1..n
        BY <1>1, <2>1
      <4>2. \A l \in 1..n : SubSeq(u, 1, n)[l] = u[l]
        BY <2>1, PrefixIsSeq
      <4> QED
        BY <4>1, <4>2
    <3> QED
      BY <1>1, <2>1, <3>1, <3>2, <3>3, <3>4
  <2> HIDE DEF n
  <2>7. SubSeq(q \o u, 1, k) = q \o SubSeq(u, 1, n)
    BY <2>3, <2>5, <2>6, SeqEqual
  <2> QED
    BY <2>7 DEF n
<1> QED
  BY <1>2, <1>3

LEMMA CalmConcat ==
  ASSUME NEW i, NEW q \in Seq(Events), NEW u \in Seq(Events),
         Calm(i, q), Calm(AfterAll(i, q), u)
  PROVE  Calm(i, q \o u)
<1>1. Len(q) \in Nat /\ Len(u) \in Nat /\ Len(q \o u) = Len(q) + Len(u)
  BY LenProperties, ConcatProperties
<1>2. ASSUME NEW k \in 0..(Len(q) + Len(u))
      PROVE  Present2(AfterAll(i, SubSeq(q \o u, 1, k)))
  <2>1. CASE k <= Len(q)
    <3>1. k \in 0..Len(q)
      BY <1>1, <2>1
    <3>2. Present2(AfterAll(i, SubSeq(q, 1, k)))
      BY <3>1 DEF Calm
    <3> QED
      BY <2>1, <3>2, PrefixOfConcat
  <2>2. CASE k > Len(q)
    <3> DEFINE n == k - Len(q)
    <3>1. n \in 0..Len(u)
      BY <1>1, <2>2
    <3>2. Present2(AfterAll(AfterAll(i, q), SubSeq(u, 1, n)))
      BY <3>1 DEF Calm
    <3>3. SubSeq(u, 1, n) \in Seq(Events)
      BY <3>1, PrefixIsSeq
    <3>4. SubSeq(q \o u, 1, k) = q \o SubSeq(u, 1, n)
      BY <2>2, PrefixOfConcat
    <3> HIDE DEF n
    <3>5. AfterAll(i, q \o SubSeq(u, 1, n)) = AfterAll(AfterAll(i, q), SubSeq(u, 1, n))
      BY <3>3, AfterAllConcat
    <3> QED
      BY <3>2, <3>4, <3>5
  <2> QED
    BY <1>1, <2>1, <2>2
<1> QED
  BY <1>1, <1>2 DEF Calm

LEMMA CalmSame ==
  ASSUME NEW i \in InputState, NEW j \in InputState, SameHeld(i, j),
         NEW q \in Seq(Events), Calm(i, q)
  PROVE  Calm(j, q)
<1>1. ASSUME NEW k \in 0..Len(q)
      PROVE  Present2(AfterAll(j, SubSeq(q, 1, k)))
  <2>1. SubSeq(q, 1, k) \in Seq(Events)
    BY PrefixIsSeq
  <2>2. Present2(AfterAll(i, SubSeq(q, 1, k)))
    BY DEF Calm
  <2>3. SameHeld(AfterAll(i, SubSeq(q, 1, k)), AfterAll(j, SubSeq(q, 1, k)))
    BY <2>1, AfterAllSameHeld
  <2> QED
    BY <2>2, <2>3 DEF SameHeld, Present2
<1> QED
  BY <1>1 DEF Calm

\* The PSP takes the oldest event, which leaves the queue ...
LEMMA CalmTail ==
  ASSUME NEW i, NEW q \in Seq(Events), q # <<>>, Calm(i, q)
  PROVE  Calm(handle_joyevent(i, Head(q)), Tail(q))
<1>1. /\ Head(q) \in Events /\ Tail(q) \in Seq(Events)
      /\ Len(q) \in Nat /\ Len(q) # 0 /\ Len(Tail(q)) = Len(q) - 1
  BY HeadTailProperties, EmptySeq
<1>2. ASSUME NEW k \in 0..Len(Tail(q))
      PROVE  Present2(AfterAll(handle_joyevent(i, Head(q)), SubSeq(Tail(q), 1, k)))
  <2>1. k + 1 \in 0..Len(q) /\ k + 1 \in 1..Len(q) /\ 1 \in 1..Len(q)
    BY <1>1
  <2> DEFINE p == SubSeq(q, 1, k + 1)
  <2>2. p \in Seq(Events) /\ Len(p) = k + 1
    BY <2>1, PrefixIsSeq
  <2>3. p # <<>>
    BY <2>1, <2>2
  <2>4. Head(p) = q[1] /\ Tail(p) = SubSeq(q, 2, k + 1)
    <3>1. k + 1 \in 1..Len(q)
      BY <2>1
    <3>2. 1 + 1 = 2
      OBVIOUS
    <3> QED
      BY <2>1, <3>1, <3>2, HeadTailOfSubSeq
  <2>5. SubSeq(Tail(q), 1, k) = SubSeq(q, 2, k + 1)
    OBVIOUS
  <2>6. Present2(AfterAll(i, p))
    BY <2>1 DEF Calm
  <2> HIDE DEF p
  <2>7. AfterAll(i, p) = AfterAll(handle_joyevent(i, Head(p)), Tail(p))
    BY <2>2, <2>3, AfterAllHead
  <2>8. Head(q) = q[1]
    OBVIOUS
  <2> QED
    BY <2>4, <2>5, <2>6, <2>7, <2>8
<1> QED
  BY <1>2 DEF Calm

\* ... or stays in it, because the transfer seems to have failed.
LEMMA CalmTwice ==
  ASSUME NEW i \in InputState, NEW q \in Seq(Events), q # <<>>, Calm(i, q)
  PROVE  Calm(handle_joyevent(i, Head(q)), q)
<1>1. Head(q) \in Events /\ Tail(q) \in Seq(Events)
  BY HeadTailProperties
<1> DEFINE once == handle_joyevent(i, Head(q))
<1>2. once \in InputState
  BY <1>1, HandleFrame
<1>3. Present2(once)
  BY <1>1, CalmTail, CalmNow
<1>4. Calm(once, <<Head(q)>>)
  <2>1. SameHeld(handle_joyevent(once, Head(q)), once)
    BY <1>1, HandleTwice
  <2>2. Present2(handle_joyevent(once, Head(q)))
    BY <1>3, <2>1 DEF Present2, SameHeld
  <2> HIDE DEF once
  <2> QED
    BY <1>3, <2>2, CalmOne
<1>5. Calm(AfterAll(once, <<Head(q)>>), Tail(q))
  <2>1. Calm(once, Tail(q))
    BY CalmTail
  <2>2. handle_joyevent(once, Head(q)) \in InputState
    BY <1>1, <1>2, HandleFrame
  <2>3. SameHeld(once, handle_joyevent(once, Head(q)))
    BY <1>1, HandleTwice DEF SameHeld
  <2> HIDE DEF once
  <2>4. Calm(handle_joyevent(once, Head(q)), Tail(q))
    BY <1>1, <1>2, <2>1, <2>2, <2>3, CalmSame
  <2> QED
    BY <2>4, AfterAllOne
<1>6. <<Head(q)>> \in Seq(Events) /\ q = <<Head(q)>> \o Tail(q)
  BY <1>1
<1> HIDE DEF once
<1>7. Calm(once, <<Head(q)>> \o Tail(q))
  BY <1>1, <1>4, <1>5, <1>6, CalmConcat
<1> QED
  BY <1>6, <1>7 DEF once

-----------------------------------------------------------------------------
(* What queueing does to what is to come.                                  *)

\* The transitions of one player, if any.
Downs(p, b) == IF b # {} THEN <<DownEvent(p, b)>> ELSE <<>>
Ups(p, b) == IF b # {} THEN <<UpEvent(p, b)>> ELSE <<>>

LEMMA DownsEffect ==
  ASSUME NEW i \in InputState, Present2(i),
         NEW p \in Players, NEW b \in SUBSET Buttons,
         p = 1 /\ b # {} => i.p2_connected
  PROVE  /\ Downs(p, b) \in Seq(ButtonEvents)
         /\ AfterAll(i, Downs(p, b)) \in InputState
         /\ AfterAll(i, Downs(p, b)).buttons[p] = i.buttons[p] \cup b
         /\ \A r \in Players \ {p} : AfterAll(i, Downs(p, b)).buttons[r] = i.buttons[r]
         /\ AfterAll(i, Downs(p, b)).p2_connected = i.p2_connected
         /\ Calm(i, Downs(p, b))
<1> DEFINE e == DownEvent(p, b)
<1>1. CASE b = {}
  <2>1. Downs(p, b) = <<>> /\ AfterAll(i, <<>>) = i
    BY <1>1, AfterAllEmpty DEF Downs
  <2>2. i.buttons[p] \cup b = i.buttons[p]
    BY <1>1
  <2>3. <<>> \in Seq(ButtonEvents) /\ Calm(i, <<>>)
    BY CalmEmpty
  <2> QED
    BY <2>1, <2>2, <2>3
<1>2. CASE b # {}
  <2>1. Downs(p, b) = <<e>> /\ AfterAll(i, <<e>>) = handle_joyevent(i, e)
    BY <1>2, AfterAllOne DEF Downs
  <2>2. e \in ButtonEvents
    BY DEF ButtonEvents
  <2>3. /\ handle_joyevent(i, e) \in InputState
        /\ handle_joyevent(i, e).buttons[p] = i.buttons[p] \cup b
        /\ \A r \in Players \ {p} : handle_joyevent(i, e).buttons[r] = i.buttons[r]
        /\ handle_joyevent(i, e).p2_connected = i.p2_connected
    BY HandleDown
  <2> HIDE DEF e
  <2>4. Present2(handle_joyevent(i, e))
    BY <1>2, <2>3 DEF Present2, Players
  <2>5. Calm(i, <<e>>) /\ <<e>> \in Seq(ButtonEvents)
    BY <2>2, <2>4, CalmOne
  <2> QED
    BY <2>1, <2>3, <2>5
<1> QED
  BY <1>1, <1>2

LEMMA UpsEffect ==
  ASSUME NEW i \in InputState, Present2(i),
         NEW p \in Players, NEW b \in SUBSET Buttons
  PROVE  /\ Ups(p, b) \in Seq(ButtonEvents)
         /\ AfterAll(i, Ups(p, b)) \in InputState
         /\ AfterAll(i, Ups(p, b)).buttons[p] = i.buttons[p] \ b
         /\ \A r \in Players \ {p} : AfterAll(i, Ups(p, b)).buttons[r] = i.buttons[r]
         /\ AfterAll(i, Ups(p, b)).p2_connected = i.p2_connected
         /\ Calm(i, Ups(p, b))
<1> DEFINE e == UpEvent(p, b)
<1>1. CASE b = {}
  <2>1. Ups(p, b) = <<>> /\ AfterAll(i, <<>>) = i
    BY <1>1, AfterAllEmpty DEF Ups
  <2>2. i.buttons[p] \ b = i.buttons[p]
    BY <1>1
  <2>3. <<>> \in Seq(ButtonEvents) /\ Calm(i, <<>>)
    BY CalmEmpty
  <2> QED
    BY <2>1, <2>2, <2>3
<1>2. CASE b # {}
  <2>1. Ups(p, b) = <<e>> /\ AfterAll(i, <<e>>) = handle_joyevent(i, e)
    BY <1>2, AfterAllOne DEF Ups
  <2>2. e \in ButtonEvents
    BY DEF ButtonEvents
  <2>3. /\ handle_joyevent(i, e) \in InputState
        /\ handle_joyevent(i, e).buttons[p] = i.buttons[p] \ b
        /\ \A r \in Players \ {p} : handle_joyevent(i, e).buttons[r] = i.buttons[r]
        /\ handle_joyevent(i, e).p2_connected = i.p2_connected
    BY HandleUp
  <2> HIDE DEF e
  <2>4. Present2(handle_joyevent(i, e))
    BY <1>2, <2>3 DEF Present2, Players
  <2>5. Calm(i, <<e>>) /\ <<e>> \in Seq(ButtonEvents)
    BY <2>2, <2>4, CalmOne
  <2> QED
    BY <2>1, <2>3, <2>5
<1> QED
  BY <1>1, <1>2

\* Buttons are pressed for player 2 only if it is there.
MayPress(input, p, pad, was) ==
  p = 1 /\ pad.buttons \ was.buttons # {} => input.p2_connected

LEMMA ButtonChangesEffect ==
  ASSUME NEW i \in InputState, Present2(i), NEW p \in Players,
         NEW pad \in Pads, NEW was \in Pads, MayPress(i, p, pad, was),
         NEW u, u = button_changes(p, pad.buttons, was.buttons)
  PROVE  /\ u \in Seq(ButtonEvents)
         /\ AfterAll(i, u) \in InputState
         /\ AfterAll(i, u).buttons[p]
              = (i.buttons[p] \cup (pad.buttons \ was.buttons))
                  \ (was.buttons \ pad.buttons)
         /\ \A r \in Players \ {p} : AfterAll(i, u).buttons[r] = i.buttons[r]
         /\ AfterAll(i, u).p2_connected = i.p2_connected
         /\ Calm(i, u)
<1>1. PICK d \in SUBSET Buttons, r \in SUBSET Buttons :
        d = pad.buttons \ was.buttons /\ r = was.buttons \ pad.buttons
  BY DEF Pads
<1>2. PICK downs, ups, middle :
        downs = Downs(p, d) /\ ups = Ups(p, r) /\ middle = AfterAll(i, downs)
  OBVIOUS
<1>3. u = downs \o ups
  BY <1>1, <1>2 DEF button_changes, Downs, Ups
<1>4. /\ downs \in Seq(ButtonEvents)
      /\ middle \in InputState
      /\ middle.buttons[p] = i.buttons[p] \cup d
      /\ \A o \in Players \ {p} : middle.buttons[o] = i.buttons[o]
      /\ middle.p2_connected = i.p2_connected
      /\ Calm(i, downs)
  BY <1>1, <1>2, DownsEffect DEF MayPress
<1>5. Present2(middle)
  BY <1>2, <1>4, ButtonEventsAreEvents, CalmEnd
<1>6. /\ ups \in Seq(ButtonEvents)
      /\ AfterAll(middle, ups) \in InputState
      /\ AfterAll(middle, ups).buttons[p] = middle.buttons[p] \ r
      /\ \A o \in Players \ {p} : AfterAll(middle, ups).buttons[o] = middle.buttons[o]
      /\ AfterAll(middle, ups).p2_connected = middle.p2_connected
      /\ Calm(middle, ups)
  BY <1>2, <1>4, <1>5, UpsEffect
<1>7. downs \o ups \in Seq(ButtonEvents)
  BY <1>4, <1>6, ConcatProperties
<1>8. AfterAll(i, downs \o ups) = AfterAll(middle, ups)
  BY <1>2, <1>4, <1>6, AfterAllConcat
<1>9. Calm(i, downs \o ups)
  BY <1>2, <1>4, <1>6, ButtonEventsAreEvents, CalmConcat
<1>10. /\ AfterAll(i, downs \o ups).buttons[p] = (i.buttons[p] \cup d) \ r
       /\ \A o \in Players \ {p} : AfterAll(i, downs \o ups).buttons[o] = i.buttons[o]
       /\ AfterAll(i, downs \o ups).p2_connected = i.p2_connected
  BY <1>4, <1>6, <1>8
<1> QED
  BY <1>1, <1>3, <1>6, <1>7, <1>8, <1>9, <1>10

\* Events are added at the end of the queue.
LEMMA QueueGrows ==
  ASSUME NEW i \in InputState, NEW q \in Seq(ButtonEvents), Calm(i, q),
         NEW u \in Seq(ButtonEvents), Calm(AfterAll(i, q), u)
  PROVE  /\ q \o u \in Seq(ButtonEvents)
         /\ AfterAll(i, q \o u) = AfterAll(AfterAll(i, q), u)
         /\ Calm(i, q \o u)
         /\ q # <<>> => q \o u # <<>> /\ Head(q \o u) = Head(q)
<1>1. q \o u \in Seq(ButtonEvents) /\ AfterAll(i, q \o u) = AfterAll(AfterAll(i, q), u)
  BY ConcatProperties, AfterAllConcat
<1>2. Calm(i, q \o u)
  BY ButtonEventsAreEvents, CalmConcat
<1>3. q # <<>> => q \o u # <<>> /\ Head(q \o u) = Head(q)
  OBVIOUS
<1> QED
  BY <1>1, <1>2, <1>3

LEMMA QueueEvent ==
  ASSUME NEW i \in InputState, NEW q \in Seq(ButtonEvents), Calm(i, q),
         NEW c \in BOOLEAN, queue_free_count(q) > 0
  PROVE  LET q1 == queue_event(q, StatusEvent(c))
         IN  /\ q1 \in Seq(ButtonEvents)
             /\ AfterAll(i, q1) \in InputState
             /\ AfterAll(i, q1).buttons[0] = AfterAll(i, q).buttons[0]
             /\ AfterAll(i, q1).buttons[1]
                  = IF c THEN AfterAll(i, q).buttons[1] ELSE {}
             /\ AfterAll(i, q1).p2_connected = c
             /\ Calm(i, q1)
             /\ q # <<>> => q1 # <<>> /\ Head(q1) = Head(q)
<1>1. PICK e, j : e = StatusEvent(c) /\ j = AfterAll(i, q)
  OBVIOUS
<1>2. e \in ButtonEvents
  BY <1>1 DEF ButtonEvents
<1>3. queue_event(q, e) = q \o <<e>>
  BY <1>2, AppendIsConcat DEF queue_event
<1>4. j \in InputState /\ Present2(j)
  BY <1>1, ButtonEventsAreEvents, AfterAllTyped, CalmEnd
<1>5. /\ handle_joyevent(j, e) \in InputState
      /\ handle_joyevent(j, e).buttons[0] = j.buttons[0]
      /\ handle_joyevent(j, e).buttons[1] = IF c THEN j.buttons[1] ELSE {}
      /\ handle_joyevent(j, e).p2_connected = c
  BY <1>1, <1>4, HandleStatus
<1>6. Calm(j, <<e>>)
  <2>1. Present2(handle_joyevent(j, e))
    BY <1>5 DEF Present2
  <2> QED
    BY <1>4, <2>1, CalmOne
<1>7. <<e>> \in Seq(ButtonEvents) /\ AfterAll(j, <<e>>) = handle_joyevent(j, e)
  BY <1>2, AfterAllOne
<1>8. /\ q \o <<e>> \in Seq(ButtonEvents)
      /\ AfterAll(i, q \o <<e>>) = handle_joyevent(j, e)
      /\ Calm(i, q \o <<e>>)
      /\ q # <<>> => q \o <<e>> # <<>> /\ Head(q \o <<e>>) = Head(q)
  BY <1>1, <1>6, <1>7, QueueGrows
<1> QED
  BY <1>1, <1>3, <1>5, <1>8

\* sync_player for player 1, who is always there.
LEMMA SyncPlayer1 ==
  ASSUME NEW i \in InputState, NEW q \in Seq(ButtonEvents), Calm(i, q),
         NEW pad \in Pads, NEW was \in Pads, Agrees(AfterAll(i, q), 0, was)
  PROVE  LET r == sync_player(q, 0, pad, was)
         IN  /\ r.queue \in Seq(ButtonEvents)
             /\ r.last \in Pads /\ r.last.x = was.x /\ r.last.y = was.y
             /\ Calm(i, r.queue)
             /\ Agrees(AfterAll(i, r.queue), 0, r.last)
             /\ \A pad2 : Agrees(AfterAll(i, q), 1, pad2)
                            => Agrees(AfterAll(i, r.queue), 1, pad2)
             /\ q # <<>> => r.queue # <<>> /\ Head(r.queue) = Head(q)
<1>1. PICK u, j : u = button_changes(0, pad.buttons, was.buttons) /\ j = AfterAll(i, q)
  OBVIOUS
<1>2. pad.buttons \in SUBSET Buttons /\ was.buttons \in SUBSET Buttons
  BY DEF Pads
<1>3. j \in InputState /\ Present2(j)
  BY <1>1, ButtonEventsAreEvents, AfterAllTyped, CalmEnd
<1>4. 0 \in Players /\ 1 \in Players \ {0} /\ 0 # 1
  BY DEF Players
<1>5. /\ u \in Seq(ButtonEvents)
      /\ AfterAll(j, u) \in InputState
      /\ AfterAll(j, u).buttons[0]
           = (j.buttons[0] \cup (pad.buttons \ was.buttons)) \ (was.buttons \ pad.buttons)
      /\ AfterAll(j, u).buttons[1] = j.buttons[1]
      /\ AfterAll(j, u).p2_connected = j.p2_connected
      /\ Calm(j, u)
  <2>1. PICK p \in Players : p = 0
    BY <1>4
  <2>2. u = button_changes(p, pad.buttons, was.buttons) /\ MayPress(j, p, pad, was)
    BY <1>1, <2>1 DEF MayPress
  <2>3. /\ u \in Seq(ButtonEvents)
        /\ AfterAll(j, u) \in InputState
        /\ AfterAll(j, u).buttons[p]
             = (j.buttons[p] \cup (pad.buttons \ was.buttons))
                 \ (was.buttons \ pad.buttons)
        /\ \A o \in Players \ {p} : AfterAll(j, u).buttons[o] = j.buttons[o]
        /\ AfterAll(j, u).p2_connected = j.p2_connected
        /\ Calm(j, u)
    BY <1>3, <2>2, ButtonChangesEffect
  <2> QED
    BY <1>4, <2>1, <2>3
<1> DEFINE r == sync_player(q, 0, pad, was)
           l2 == [was EXCEPT !.connected = pad.connected, !.buttons = pad.buttons]
           l1 == [was EXCEPT !.connected = pad.connected, !.buttons = was.buttons]
<1>6. /\ l1 \in Pads /\ l1.x = was.x /\ l1.y = was.y /\ l1.buttons = was.buttons
      /\ l2 \in Pads /\ l2.x = was.x /\ l2.y = was.y /\ l2.buttons = pad.buttons
  BY DEF Pads
<1>7. CASE FitsIn(q, u)
  <2>1. r.queue = q \o u /\ r.last = l2
    BY <1>1, <1>7 DEF sync_player
  <2>2. /\ q \o u \in Seq(ButtonEvents)
        /\ AfterAll(i, q \o u) = AfterAll(j, u)
        /\ Calm(i, q \o u)
        /\ q # <<>> => q \o u # <<>> /\ Head(q \o u) = Head(q)
    BY <1>1, <1>5, QueueGrows
  <2>3. AfterAll(j, u).buttons[0] = pad.buttons
    BY <1>1, <1>4, <1>5 DEF Agrees
  <2> HIDE DEF r, l2
  <2> QED
    BY <1>1, <1>4, <1>5, <1>6, <2>1, <2>2, <2>3 DEF Agrees, r
<1>8. CASE ~FitsIn(q, u)
  <2>1. r.queue = q /\ r.last = l1
    BY <1>1, <1>8 DEF sync_player
  <2> HIDE DEF r, l1
  <2> QED
    BY <1>1, <1>6, <2>1 DEF Agrees, r
<1> QED
  BY <1>7, <1>8

\* A button that is pressed makes at least one event.
LEMMA PressIsAnEvent ==
  ASSUME NEW p, NEW pad, NEW was, pad.buttons \ was.buttons # {}
  PROVE  Len(button_changes(p, pad.buttons, was.buttons)) >= 1
<1>1. PICK d, r : /\ d = <<DownEvent(p, pad.buttons \ was.buttons)>>
                  /\ r \in {<<>>, <<UpEvent(p, was.buttons \ pad.buttons)>>}
                  /\ button_changes(p, pad.buttons, was.buttons) = d \o r
  BY DEF button_changes
<1>2. PICK E : d \in Seq(E) /\ r \in Seq(E)
  <2> DEFINE E == {DownEvent(p, pad.buttons \ was.buttons),
                   UpEvent(p, was.buttons \ pad.buttons)}
  <2>1. d \in Seq(E)
    BY <1>1
  <2>2. r \in Seq(E)
    <3>1. CASE r = <<>>
      BY <3>1
    <3>2. CASE r = <<UpEvent(p, was.buttons \ pad.buttons)>>
      BY <3>2
    <3> QED
      BY <1>1, <3>1, <3>2
  <2> HIDE DEF E
  <2> QED
    BY <2>1, <2>2
<1>3. Len(d) = 1 /\ Len(r) \in Nat
  BY <1>1, <1>2, LenProperties
<1>4. Len(d \o r) = Len(d) + Len(r)
  BY <1>2, ConcatProperties
<1> QED
  BY <1>1, <1>3, <1>4

\* sync_player for player 2: the presence first, then the buttons.
LEMMA SyncPlayer2 ==
  ASSUME NEW i \in InputState, NEW q \in Seq(ButtonEvents), Calm(i, q),
         NEW pad \in ReportedPads, NEW was \in Pads, Agrees(AfterAll(i, q), 1, was)
  PROVE  LET r == sync_player(q, 1, pad, was)
         IN  /\ r.queue \in Seq(ButtonEvents)
             /\ r.last \in Pads /\ r.last.x = was.x /\ r.last.y = was.y
             /\ Calm(i, r.queue)
             /\ Agrees(AfterAll(i, r.queue), 1, r.last)
             /\ \A pad1 : Agrees(AfterAll(i, q), 0, pad1)
                            => Agrees(AfterAll(i, r.queue), 0, pad1)
             /\ q # <<>> => r.queue # <<>> /\ Head(r.queue) = Head(q)
<1> DEFINE status == pad.connected # was.connected
           queued == status /\ queue_free_count(q) > 0
           r == sync_player(q, 1, pad, was)
<1>1. PICK q1, u, j : /\ q1 = IF status THEN queue_event(q, StatusEvent(pad.connected))
                              ELSE q
                      /\ u = button_changes(1, pad.buttons, was.buttons)
                      /\ j = AfterAll(i, q1)
  OBVIOUS
<1>2. PICK w1, w2 :
        /\ w1 = [was EXCEPT !.connected = IF queued THEN pad.connected ELSE was.connected,
                            !.buttons = was.buttons]
        /\ w2 = [was EXCEPT !.connected = IF queued THEN pad.connected ELSE was.connected,
                            !.buttons = pad.buttons]
  OBVIOUS
<1>3. r = IF FitsIn(q1, u) THEN [queue |-> q1 \o u, last |-> w2]
          ELSE [queue |-> q1, last |-> w1]
  <2>1. CASE FitsIn(q1, u)
    BY <1>1, <1>2, <2>1 DEF sync_player
  <2>2. CASE ~FitsIn(q1, u)
    BY <1>1, <1>2, <2>2 DEF sync_player
  <2> QED
    BY <2>1, <2>2
<1>4. pad \in Pads /\ (pad.buttons # {} => pad.connected)
  BY DEF ReportedPads, NeutralPad
<1>5. /\ w1 \in Pads /\ w1.x = was.x /\ w1.y = was.y /\ w1.buttons = was.buttons
      /\ w2 \in Pads /\ w2.x = was.x /\ w2.y = was.y /\ w2.buttons = pad.buttons
      /\ w1.connected = IF queued THEN pad.connected ELSE was.connected
      /\ w2.connected = IF queued THEN pad.connected ELSE was.connected
  BY <1>2, <1>4 DEF Pads
<1>6. /\ q1 \in Seq(ButtonEvents)
      /\ Calm(i, q1)
      /\ Agrees(j, 1, w1)
      /\ j.buttons[0] = AfterAll(i, q).buttons[0]
      /\ q # <<>> => q1 # <<>> /\ Head(q1) = Head(q)
      /\ FitsIn(q1, u) => MayPress(j, 1, pad, was)
  <2>1. CASE queued
    <3>1. pad.connected \in BOOLEAN /\ queue_free_count(q) > 0
      BY <1>4, <2>1 DEF Pads
    <3>2. /\ q1 \in Seq(ButtonEvents)
          /\ j.buttons[0] = AfterAll(i, q).buttons[0]
          /\ j.buttons[1] = IF pad.connected THEN AfterAll(i, q).buttons[1] ELSE {}
          /\ j.p2_connected = pad.connected
          /\ Calm(i, q1)
          /\ q # <<>> => q1 # <<>> /\ Head(q1) = Head(q)
      BY <1>1, <2>1, <3>1, QueueEvent
    <3>3. Agrees(j, 1, w1)
      BY <1>5, <2>1, <3>2 DEF Agrees
    <3>4. MayPress(j, 1, pad, was)
      BY <1>4, <3>2 DEF MayPress
    <3> QED
      BY <3>2, <3>3, <3>4
  <2>2. CASE status /\ ~queued
    <3>1. q1 = q
      BY <1>1, <2>2 DEF queue_event
    <3>2. Agrees(j, 1, w1)
      BY <1>1, <1>5, <2>2, <3>1 DEF Agrees
    <3>3. ASSUME FitsIn(q1, u)
          PROVE  MayPress(j, 1, pad, was)
      <4>1. queue_free_count(q) \in Int
        BY PspInputAssumption, LenProperties DEF queue_free_count
      <4>2. Len(u) <= queue_free_count(q) /\ ~(queue_free_count(q) > 0)
        BY <2>2, <3>1, <3>3 DEF FitsIn
      <4>3. pad.buttons \ was.buttons = {}
        <5>1. SUFFICES ASSUME pad.buttons \ was.buttons # {} PROVE FALSE
          OBVIOUS
        <5>2. Len(u) >= 1 /\ Len(u) \in Int
          <6>1. Len(u) >= 1
            BY <1>1, <5>1, PressIsAnEvent
          <6>2. Len(u) \in Int
            BY <4>1, <4>2
          <6> QED
            BY <6>1, <6>2
        <5> QED
          BY <4>1, <4>2, <5>2
      <4> QED
        BY <4>3 DEF MayPress
    <3> QED
      BY <1>1, <3>1, <3>2, <3>3
  <2>3. CASE ~status
    <3>1. q1 = q
      BY <1>1, <2>3
    <3>2. Agrees(j, 1, w1) /\ j.p2_connected = pad.connected
      BY <1>1, <1>5, <2>3, <3>1 DEF Agrees
    <3>3. MayPress(j, 1, pad, was)
      BY <1>4, <3>2 DEF MayPress
    <3> QED
      BY <1>1, <3>1, <3>2, <3>3
  <2> QED
    BY <2>1, <2>2, <2>3
<1>7. j \in InputState /\ Present2(j) /\ 1 \in Players /\ 0 \in Players \ {1}
  BY <1>1, <1>6, ButtonEventsAreEvents, AfterAllTyped, CalmEnd DEF Players
<1> HIDE DEF r, status, queued
<1>8. CASE FitsIn(q1, u)
  <2>1. /\ u \in Seq(ButtonEvents)
        /\ AfterAll(j, u).buttons[1]
             = (j.buttons[1] \cup (pad.buttons \ was.buttons))
                 \ (was.buttons \ pad.buttons)
        /\ AfterAll(j, u).buttons[0] = j.buttons[0]
        /\ AfterAll(j, u).p2_connected = j.p2_connected
        /\ Calm(j, u)
    <3>1. PICK p \in Players : p = 1
      BY <1>7
    <3>2. u = button_changes(p, pad.buttons, was.buttons) /\ MayPress(j, p, pad, was)
      BY <1>1, <1>6, <1>8, <3>1
    <3>3. /\ u \in Seq(ButtonEvents)
          /\ AfterAll(j, u).buttons[p]
               = (j.buttons[p] \cup (pad.buttons \ was.buttons))
                   \ (was.buttons \ pad.buttons)
          /\ \A o \in Players \ {p} : AfterAll(j, u).buttons[o] = j.buttons[o]
          /\ AfterAll(j, u).p2_connected = j.p2_connected
          /\ Calm(j, u)
      BY <1>4, <1>7, <3>2, ButtonChangesEffect
    <3> QED
      BY <1>7, <3>1, <3>3
  <2>2. /\ q1 \o u \in Seq(ButtonEvents)
        /\ AfterAll(i, q1 \o u) = AfterAll(j, u)
        /\ Calm(i, q1 \o u)
        /\ q1 # <<>> => q1 \o u # <<>> /\ Head(q1 \o u) = Head(q1)
    <3>1. Calm(AfterAll(i, q1), u) /\ AfterAll(i, q1) = j
      BY <1>1, <2>1
    <3> QED
      BY <1>6, <2>1, <3>1, QueueGrows
  <2>3. AfterAll(j, u).buttons[1] \subseteq pad.buttons
    BY <1>5, <1>6, <2>1 DEF Agrees
  <2>4. Agrees(AfterAll(j, u), 1, w2)
    BY <1>5, <1>6, <2>1, <2>3 DEF Agrees
  <2>5. r.queue = q1 \o u /\ r.last = w2
    BY <1>3, <1>8
  <2> QED
    BY <1>5, <1>6, <2>1, <2>2, <2>4, <2>5 DEF Agrees, r
<1>9. CASE ~FitsIn(q1, u)
  <2>1. r.queue = q1 /\ r.last = w1
    BY <1>3, <1>9
  <2> QED
    BY <1>1, <1>5, <1>6, <2>1 DEF Agrees, r
<1> QED
  BY <1>8, <1>9

-----------------------------------------------------------------------------
(* The transfer in flight.                                                 *)

\* An event is of one kind, and none is Idle.
LEMMA EventKinds ==
  ASSUME NEW e
  PROVE  /\ e \in ButtonEvents => e.type \in {"down", "up", "status"}
         /\ e \in AnalogEvents => e.type = "analog"
         /\ e \in AimEvents => e.type \in {"aim", "offscreen", "release"}
         /\ e \in MusicEvents => e.type = "music"
         /\ Idle.type = "none"
BY DEF ButtonEvents, AnalogEvents, AimEvents, MusicEvents, DownEvent, UpEvent,
       StatusEvent, AnalogEvent, AimEvent, OffscreenEvent, ReleaseEvent, MusicEvent,
       Idle

LEMMA AimEventTyped ==
  ASSUME NEW a \in AimReadings
  PROVE  aim_event(a) \in AimEvents
BY DEF AimReadings, aim_event, AimEvents

\* What process_queue chooses is in the queue, or is marked.
NextTransferIsKept ==
  /\ NextTransfer \in {Idle} \cup Events
  /\ NextTransfer \in ButtonEvents => queue # <<>> /\ NextTransfer = Head(queue)
  /\ NextTransfer \in AnalogEvents => pendingAxis[NextTransfer.axis] # NoValue
  /\ NextTransfer \in AimEvents => aimPending

LEMMA NextTransferKept == SourcesOK => NextTransferIsKept
<1> SUFFICES ASSUME SourcesOK PROVE NextTransferIsKept
  OBVIOUS
<1> USE DEF SourcesOK, NextTransferIsKept
<1>1. CASE queue # <<>>
  <2>1. NextTransfer = Head(queue)
    BY <1>1 DEF NextTransfer
  <2>2. Head(queue) \in ButtonEvents
    BY <1>1, HeadTailProperties
  <2>3. Head(queue) \notin AnalogEvents /\ Head(queue) \notin AimEvents
    BY <2>2, EventKinds
  <2> QED
    BY <1>1, <2>1, <2>2, <2>3 DEF Events
<1>2. CASE queue = <<>> /\ \E axis \in Axes : AxisIsPending(axis)
  <2> DEFINE First(k) == /\ AxisIsPending(AxisOrder[k])
                         /\ \A j \in 1..(k - 1) : ~AxisIsPending(AxisOrder[j])
             first == CHOOSE k \in DOMAIN AxisOrder : First(k)
  <2>1. NextTransfer = AnalogEvent(AxisOrder[first], pendingAxis[AxisOrder[first]])
    BY <1>2 DEF NextTransfer
  <2>2. /\ DOMAIN AxisOrder = 1..4
        /\ AxisOrder[1] = <<0, "x">> /\ AxisOrder[2] = <<0, "y">>
        /\ AxisOrder[3] = <<1, "x">> /\ AxisOrder[4] = <<1, "y">>
    BY DEF AxisOrder
  <2>3. \E k \in DOMAIN AxisOrder : First(k)
    <3>1. \E k \in 1..4 : AxisIsPending(AxisOrder[k])
      BY <1>2, <2>2 DEF Axes, Players
    <3> DEFINE T == {k \in 1..4 : AxisIsPending(AxisOrder[k])}
    <3>2. T \in SUBSET Nat /\ T # {}
      BY <3>1
    <3> HIDE DEF T
    <3>3. PICK k \in T : \A j \in T : k <= j
      BY <3>2, LeastNumber
    <3>4. k \in 1..4 /\ AxisIsPending(AxisOrder[k])
      BY DEF T
    <3>5. \A j \in 1..(k - 1) : j \notin T /\ j \in 1..4
      BY <3>2, <3>3, <3>4
    <3>6. \A j \in 1..(k - 1) : ~AxisIsPending(AxisOrder[j])
      BY <3>5 DEF T
    <3> QED
      BY <2>2, <3>4, <3>6
  <2>4. first \in DOMAIN AxisOrder /\ First(first)
    BY <2>3
  <2> HIDE DEF first
  <2>5. AxisOrder[first] \in Axes
    <3> HIDE DEF First
    <3>1. first \in 1..4
      BY <2>2, <2>4
    <3>2. first \in {1, 2, 3, 4}
      BY <3>1
    <3> QED
      BY <2>2, <3>2 DEF Axes, Players
  <2>6. /\ pendingAxis[AxisOrder[first]] # NoValue
        /\ pendingAxis[AxisOrder[first]] \in SticksAt
    BY <2>4, <2>5 DEF AxisIsPending
  <2>7. NextTransfer \in AnalogEvents /\ NextTransfer.axis = AxisOrder[first]
    BY <2>1, <2>5, <2>6 DEF AnalogEvents, AnalogEvent
  <2>8. NextTransfer \notin ButtonEvents /\ NextTransfer \notin AimEvents
    BY <2>7, EventKinds
  <2> QED
    BY <2>6, <2>7, <2>8 DEF Events
<1>3. CASE queue = <<>> /\ ~(\E axis \in Axes : AxisIsPending(axis)) /\ aimPending
  <2>1. NextTransfer = aim_event(aimLast)
    BY <1>3 DEF NextTransfer
  <2>2. aim_event(aimLast) \in AimEvents
    BY AimEventTyped
  <2>3. NextTransfer \notin ButtonEvents /\ NextTransfer \notin AnalogEvents
    BY <2>1, <2>2, EventKinds
  <2> QED
    BY <1>3, <2>1, <2>2, <2>3 DEF Events
<1>4. CASE queue = <<>> /\ ~(\E axis \in Axes : AxisIsPending(axis)) /\ ~aimPending
  <2>1. NextTransfer = Idle
    BY <1>4 DEF NextTransfer
  <2> QED
    BY <2>1, EventKinds DEF Events
<1> QED
  BY <1>1, <1>2, <1>3, <1>4

\* The end of every handler: what was in flight stays so, or the next transfer
\* is started, if any.
LEMMA ProcessQueue ==
  ASSUME SourcesOK', complete' \in BOOLEAN,
         NEW busy, NEW submitted, process_queue(busy, submitted),
         busy => /\ inflight \in {Idle} \cup Events
                 /\ inflight \in ButtonEvents => queue' # <<>> /\ inflight = Head(queue')
                 /\ inflight \in AnalogEvents => pendingAxis'[inflight.axis] # NoValue
                 /\ inflight \in AimEvents => aimPending'
  PROVE  /\ inflight' \in {Idle} \cup Events
         /\ InflightIsKept'
         /\ ~busy /\ ~complete' => inflight' = Idle
<1>1. SourcesOK' => NextTransferIsKept'
  BY NextTransferKept, PTL
<1>2. CASE busy
  <2>1. inflight' = inflight
    BY <1>2 DEF process_queue
  <2> QED
    BY <1>2, <2>1 DEF InflightIsKept
<1>3. CASE ~busy /\ complete' /\ submitted
  <2>1. inflight' = NextTransfer'
    BY <1>3 DEF process_queue
  <2> QED
    BY <1>1, <1>3, <2>1 DEF InflightIsKept, NextTransferIsKept
<1>4. CASE ~busy /\ ~(complete' /\ submitted)
  <2>1. inflight' = Idle
    BY <1>4 DEF process_queue
  <2>2. Idle \notin ButtonEvents /\ Idle \notin AnalogEvents /\ Idle \notin AimEvents
    BY EventKinds
  <2> QED
    BY <2>1, <2>2 DEF InflightIsKept
<1> QED
  BY <1>2, <1>3, <1>4

\* A handler that clears no mark and only adds to the queue.
LEMMA InflightStays ==
  ASSUME TypeOK, InflightIsKept, SourcesOK', complete' \in BOOLEAN,
         NEW submitted, process_queue(Busy, submitted),
         queue # <<>> => queue' # <<>> /\ Head(queue') = Head(queue),
         \A axis \in Axes : pendingAxis[axis] # NoValue => pendingAxis'[axis] # NoValue,
         aimPending => aimPending'
  PROVE  /\ inflight' \in {Idle} \cup Events
         /\ InflightIsKept'
         /\ inflight = Idle /\ ~complete' => inflight' = Idle
<1>1. inflight \in {Idle} \cup Events
  BY DEF TypeOK
<1>2. inflight \in AnalogEvents => inflight.axis \in Axes
  BY DEF AnalogEvents, AnalogEvent
<1>3. /\ inflight \in ButtonEvents => queue' # <<>> /\ inflight = Head(queue')
      /\ inflight \in AnalogEvents => pendingAxis'[inflight.axis] # NoValue
      /\ inflight \in AimEvents => aimPending'
  BY <1>2 DEF InflightIsKept
<1>4. /\ inflight' \in {Idle} \cup Events
      /\ InflightIsKept'
      /\ ~Busy /\ ~complete' => inflight' = Idle
  BY <1>1, <1>3, ProcessQueue
<1> QED
  BY <1>4 DEF Busy

-----------------------------------------------------------------------------
(* The steps.                                                              *)

LEMMA InitIInv == Init => IInv
<1> SUFFICES ASSUME Init PROVE IInv
  OBVIOUS
<1> USE DEF Init
<1>1. NeutralPad \in ReportedPads /\ NeutralPad \in Pads
  BY JoyEventsAssumption DEF NeutralPad, ReportedPads, Pads
<1>2. Neutral \in InputState
  BY JoyEventsAssumption DEF Neutral, InputState, AimEvents
<1>3. NoAim \in AimReadings
  BY DEF NoAim, AimReadings
<1>4. TypeOK
  <2>1. queue \in Seq(ButtonEvents)
    OBVIOUS
  <2>2. SourcesOK
    BY <1>3, <2>1 DEF SourcesOK
  <2> QED
    BY <1>1, <1>2, <1>3, <2>2 DEF TypeOK
<1>5. Unlinked /\ MarkIsLast /\ Believed /\ Player1StickMirrored /\ AimMirrored
  BY DEF Unlinked, MarkIsLast, Believed, Player1StickMirrored, AimMirrored, Axes, Players
<1>6. InflightIsKept
  BY EventKinds DEF InflightIsKept
<1>7. Calm(psp, queue)
  <2>1. Present2(psp)
    BY DEF Present2, Neutral, Players
  <2> QED
    BY <2>1, CalmEmpty
<1> QED
  BY <1>4, <1>5, <1>6, <1>7 DEF IInv

\* A controller reports, connects or disconnects.
LEMMA SetStateKeepsIInv ==
  ASSUME IInv, NEW player \in Players, NEW pad \in ReportedPads, NEW submitted,
         rjm_psp_host_set_state(player, pad, submitted)
  PROVE  IInv'
<1> PICK set : set = IF inputEnabled THEN pad ELSE NeutralPad
  OBVIOUS
<1>1. set \in ReportedPads
  BY JoyEventsAssumption DEF NeutralPad, ReportedPads, Pads
<1>2. /\ state' = [state EXCEPT ![player] = set]
      /\ UNCHANGED <<complete, pendingAxis, aim, aimLast, aimPending, psp>>
      /\ process_queue(Busy, submitted)
      /\ complete => LET r == sync_player(queue, player, set, last[player])
                     IN  queue' = r.queue /\ last' = [last EXCEPT ![player] = r.last]
      /\ ~complete => UNCHANGED <<queue, last>>
  BY DEF rjm_psp_host_set_state
<1>3. /\ queue \in Seq(ButtonEvents) /\ psp \in InputState /\ last \in [Players -> Pads]
      /\ last[0] \in Pads /\ last[1] \in Pads
      /\ Calm(psp, queue)
      /\ complete => Agrees(AfterAll(psp, queue), 0, last[0])
      /\ complete => Agrees(AfterAll(psp, queue), 1, last[1])
  BY DEF IInv, TypeOK, SourcesOK, Believed, Upcoming, Players
<1>4. /\ queue' \in Seq(ButtonEvents)
      /\ Calm(psp, queue')
      /\ last' \in [Players -> Pads]
      /\ last'[0].x = last[0].x /\ last'[0].y = last[0].y
      /\ complete => /\ Agrees(AfterAll(psp, queue'), 0, last'[0])
                     /\ Agrees(AfterAll(psp, queue'), 1, last'[1])
      /\ ~complete => queue' = queue /\ last' = last
      /\ queue # <<>> => queue' # <<>> /\ Head(queue') = Head(queue)
  <2>1. CASE ~complete
    BY <1>2, <1>3, <2>1
  <2>2. CASE complete /\ player = 0
    <3>1. PICK r : r = sync_player(queue, 0, set, last[0])
      OBVIOUS
    <3>2. set \in Pads
      BY <1>1 DEF ReportedPads
    <3>3. /\ r.queue \in Seq(ButtonEvents)
          /\ r.last \in Pads /\ r.last.x = last[0].x /\ r.last.y = last[0].y
          /\ Calm(psp, r.queue)
          /\ Agrees(AfterAll(psp, r.queue), 0, r.last)
          /\ Agrees(AfterAll(psp, r.queue), 1, last[1])
          /\ queue # <<>> => r.queue # <<>> /\ Head(r.queue) = Head(queue)
      BY <1>3, <2>2, <3>1, <3>2, SyncPlayer1
    <3>4. queue' = r.queue /\ last' = [last EXCEPT ![0] = r.last]
      BY <1>2, <2>2, <3>1
    <3>5. last' \in [Players -> Pads] /\ last'[0] = r.last /\ last'[1] = last[1]
      BY <1>3, <3>3, <3>4 DEF Players
    <3> QED
      BY <2>2, <3>3, <3>4, <3>5
  <2>3. CASE complete /\ player = 1
    <3>1. PICK r : r = sync_player(queue, 1, set, last[1])
      OBVIOUS
    <3>3. /\ r.queue \in Seq(ButtonEvents)
          /\ r.last \in Pads
          /\ Calm(psp, r.queue)
          /\ Agrees(AfterAll(psp, r.queue), 1, r.last)
          /\ Agrees(AfterAll(psp, r.queue), 0, last[0])
          /\ queue # <<>> => r.queue # <<>> /\ Head(r.queue) = Head(queue)
      BY <1>1, <1>3, <2>3, <3>1, SyncPlayer2
    <3>4. queue' = r.queue /\ last' = [last EXCEPT ![1] = r.last]
      BY <1>2, <2>3, <3>1
    <3>5. last' \in [Players -> Pads] /\ last'[0] = last[0] /\ last'[1] = r.last
      BY <1>3, <3>3, <3>4 DEF Players
    <3> QED
      BY <2>3, <3>3, <3>4, <3>5
  <2> QED
    BY <2>1, <2>2, <2>3 DEF Players, IInv, TypeOK
<1>5. SourcesOK' /\ complete' \in BOOLEAN
  BY <1>2, <1>4 DEF IInv, TypeOK, SourcesOK
<1>6. /\ inflight' \in {Idle} \cup Events
      /\ InflightIsKept'
      /\ inflight = Idle /\ ~complete' => inflight' = Idle
  <2>1. TypeOK /\ InflightIsKept /\ process_queue(Busy, submitted)
    BY <1>2 DEF IInv
  <2>2. /\ \A axis \in Axes : pendingAxis[axis] # NoValue => pendingAxis'[axis] # NoValue
        /\ aimPending => aimPending'
    BY <1>2
  <2> QED
    BY <1>4, <1>5, <2>1, <2>2, InflightStays
<1>7. TypeOK'
  BY <1>1, <1>2, <1>4, <1>5, <1>6 DEF IInv, TypeOK
<1>8. Unlinked'
  BY <1>2, <1>4, <1>6 DEF IInv, Unlinked
<1>9. MarkIsLast' /\ Player1StickMirrored' /\ AimMirrored'
  BY <1>2, <1>4 DEF IInv, MarkIsLast, Player1StickMirrored, AimMirrored
<1>10. Believed' /\ Calm(psp, queue)'
  BY <1>2, <1>4 DEF Believed, Upcoming
<1> QED
  BY <1>6, <1>7, <1>8, <1>9, <1>10 DEF IInv

LEMMA AgreesSame ==
  ASSUME NEW i, NEW j, SameHeld(i, j), NEW p, NEW was, Agrees(i, p, was)
  PROVE  Agrees(j, p, was)
BY DEF SameHeld, Agrees

\* The transfer in flight completes; it may have been delivered although it
\* seems to have failed.
LEMMA EventSentKeepsIInv ==
  ASSUME IInv, NEW success \in BOOLEAN, NEW delivered \in BOOLEAN, NEW submitted,
         event_sent(success, delivered, submitted)
  PROVE  IInv'
<1>1. /\ inflight # Idle
      /\ success => delivered
      /\ psp' = IF delivered THEN handle_joyevent(psp, inflight) ELSE psp
      /\ queue' = IF success /\ inflight.type \in {"down", "up", "status"}
                  THEN Tail(queue) ELSE queue
      /\ pendingAxis' =
            IF success /\ inflight.type = "analog"
            THEN [pendingAxis EXCEPT ![inflight.axis] = axis_sent(@, inflight.value)]
            ELSE pendingAxis
      /\ aimPending' = (aimPending /\ ~(success /\ aim_sent(inflight, aim_event(aimLast))))
      /\ UNCHANGED <<complete, state, last, aim, aimLast>>
      /\ process_queue(FALSE, submitted)
  BY DEF event_sent, Busy
<1>2. /\ inflight \in Events /\ complete
      /\ queue \in Seq(ButtonEvents) /\ psp \in InputState
      /\ pendingAxis \in [Axes -> SticksAt \cup {NoValue}]
  BY <1>1 DEF IInv, TypeOK, SourcesOK, Unlinked
<1>3. /\ (inflight.type \in {"down", "up", "status"}) <=> inflight \in ButtonEvents
      /\ inflight.type = "analog" <=> inflight \in AnalogEvents
      /\ inflight \in AimEvents => inflight \notin ButtonEvents /\ inflight \notin AnalogEvents
      /\ inflight \in AnalogEvents => inflight \notin ButtonEvents
  BY <1>2, EventKinds DEF Events
<1>4. /\ handle_joyevent(psp, inflight) \in InputState
      /\ inflight \notin ButtonEvents => SameHeld(psp, handle_joyevent(psp, inflight))
      /\ inflight \notin AimEvents => handle_joyevent(psp, inflight).aim = psp.aim
      /\ inflight \notin AnalogEvents =>
           \A a \in Axes : a[1] = 0 => handle_joyevent(psp, inflight).stick[a] = psp.stick[a]
  BY <1>2, HandleFrame DEF SameHeld
<1>5. psp' \in InputState
  BY <1>1, <1>2, <1>4
<1>6. /\ queue' \in Seq(ButtonEvents)
      /\ Calm(psp', queue')
      /\ SameHeld(AfterAll(psp, queue), AfterAll(psp', queue'))
  <2>0. SameHeld(AfterAll(psp, queue), AfterAll(psp, queue)) /\ Calm(psp, queue)
    BY DEF SameHeld, IInv
  <2>1. CASE ~delivered
    BY <1>1, <1>2, <2>0, <2>1
  <2>2. CASE delivered /\ inflight \notin ButtonEvents
    <3>1. queue' = queue /\ psp' = handle_joyevent(psp, inflight)
      BY <1>1, <1>3, <2>2
    <3>2. queue \in Seq(Events)
      BY <1>2, ButtonEventsAreEvents
    <3>3. SameHeld(psp, psp')
      BY <1>4, <2>2, <3>1
    <3>4. Calm(psp', queue)
      BY <1>2, <1>5, <2>0, <3>2, <3>3, CalmSame
    <3>5. SameHeld(AfterAll(psp, queue), AfterAll(psp', queue))
      BY <1>2, <1>5, <3>2, <3>3, AfterAllSameHeld
    <3> QED
      BY <1>2, <3>1, <3>4, <3>5
  <2>3. CASE delivered /\ inflight \in ButtonEvents
    <3>1. /\ queue # <<>> /\ inflight = Head(queue)
          /\ psp' = handle_joyevent(psp, Head(queue))
      BY <1>1, <2>3 DEF IInv, InflightIsKept
    <3>2. queue \in Seq(Events)
      BY <1>2, ButtonEventsAreEvents
    <3>3. CASE success
      <4>1. queue' = Tail(queue)
        BY <1>1, <1>3, <2>3, <3>3
      <4>2. Tail(queue) \in Seq(ButtonEvents)
        BY <1>2, <3>1, HeadTailProperties
      <4>3. Calm(handle_joyevent(psp, Head(queue)), Tail(queue))
        BY <2>0, <3>1, <3>2, CalmTail
      <4>4. AfterAll(psp, queue) = AfterAll(handle_joyevent(psp, Head(queue)), Tail(queue))
        BY <3>1, <3>2, AfterAllHead
      <4> QED
        BY <2>0, <3>1, <4>1, <4>2, <4>3, <4>4
    <3>4. CASE ~success
      <4>1. queue' = queue
        BY <1>1, <3>4
      <4>2. Calm(handle_joyevent(psp, Head(queue)), queue)
        BY <1>2, <2>0, <3>1, <3>2, CalmTwice
      <4>3. SameHeld(AfterAll(handle_joyevent(psp, Head(queue)), queue),
                     AfterAll(psp, queue))
        BY <1>2, <3>1, <3>2, AfterAllHeadTwice
      <4> QED
        BY <1>2, <3>1, <4>1, <4>2, <4>3 DEF SameHeld
    <3> QED
      BY <3>3, <3>4
  <2> QED
    BY <2>1, <2>2, <2>3
<1>7. Believed' /\ Calm(psp, queue)'
  <2>1. /\ Agrees(AfterAll(psp, queue), 0, last[0])
        /\ Agrees(AfterAll(psp, queue), 1, last[1])
    BY <1>2 DEF IInv, Believed, Upcoming
  <2> QED
    BY <1>1, <1>6, <2>1, AgreesSame DEF Believed, Upcoming
<1>8. /\ pendingAxis' \in [Axes -> SticksAt \cup {NoValue}]
      /\ \A axis \in Axes :
           \/ pendingAxis'[axis] = pendingAxis[axis]
           \/ /\ success /\ inflight \in AnalogEvents
              /\ inflight.axis = axis /\ inflight.value = pendingAxis[axis]
  BY <1>1, <1>2, <1>3 DEF AnalogEvents, AnalogEvent, axis_sent
<1>9. \A axis \in Axes : pendingAxis'[axis] \in {NoValue, pendingAxis[axis]}
  BY <1>1, <1>2, <1>3 DEF AnalogEvents, AnalogEvent, axis_sent
<1>10. MarkIsLast'
  <2>1. \A a \in {"x", "y"} : <<0, a>> \in Axes
    BY DEF Axes, Players
  <2> QED
    BY <1>1, <1>9, <2>1 DEF IInv, MarkIsLast
<1>11. Player1StickMirrored'
  <2>1. SUFFICES ASSUME NEW a \in {"x", "y"}, pendingAxis'[<<0, a>>] = NoValue
                 PROVE  psp'.stick[<<0, a>>] = last[0][a]
    BY <1>1 DEF Player1StickMirrored
  <2>2. PICK axis \in Axes : axis = <<0, a>> /\ axis[1] = 0
    <3>1. <<0, a>> \in Axes /\ <<0, a>>[1] = 0
      BY DEF Axes, Players
    <3> QED
      BY <3>1
  <2>3. CASE inflight \in AnalogEvents /\ inflight.axis = axis
    <3>1. pendingAxis[axis] # NoValue
      BY <2>3 DEF IInv, InflightIsKept
    <3>2. pendingAxis'[axis] = NoValue
      BY <2>1, <2>2
    <3>3. success /\ inflight.value = pendingAxis[axis]
      BY <1>8, <3>1, <3>2
    <3>4. PICK v \in SticksAt : inflight = AnalogEvent(axis, v) /\ inflight.value = v
      BY <2>3 DEF AnalogEvents, AnalogEvent
    <3>5. psp'.stick[axis] = v
      BY <1>1, <1>2, <3>3, <3>4, HandleAnalog
    <3> QED
      BY <2>2, <3>1, <3>3, <3>4, <3>5 DEF IInv, MarkIsLast
  <2>4. CASE inflight \in AnalogEvents /\ inflight.axis # axis
    <3>1. PICK b \in Axes, v \in SticksAt : inflight = AnalogEvent(b, v) /\ b # axis
      BY <2>4 DEF AnalogEvents, AnalogEvent
    <3>2. psp'.stick[axis] = psp.stick[axis]
      BY <1>1, <1>2, <3>1, HandleAnalog
    <3>3. pendingAxis[axis] = NoValue
      BY <1>8, <2>1, <2>2, <2>4
    <3> QED
      BY <1>2, <2>2, <3>2, <3>3 DEF IInv, Player1StickMirrored
  <2>5. CASE inflight \notin AnalogEvents
    <3>1. psp'.stick[axis] = psp.stick[axis]
      BY <1>1, <1>4, <2>2, <2>5
    <3>2. pendingAxis[axis] = NoValue
      BY <1>8, <2>1, <2>2, <2>5
    <3> QED
      BY <1>2, <2>2, <3>1, <3>2 DEF IInv, Player1StickMirrored
  <2> QED
    BY <2>3, <2>4, <2>5
<1>12. AimMirrored'
  <2>1. SUFFICES ASSUME ~aimPending' PROVE psp'.aim = aim_event(aimLast)
    BY <1>1 DEF AimMirrored
  <2>2. CASE aimPending
    <3>1. success /\ inflight = aim_event(aimLast)
      BY <1>1, <2>1, <2>2 DEF aim_sent
    <3>2. inflight \in AimEvents
      BY <3>1, AimEventTyped DEF IInv, TypeOK, SourcesOK
    <3> QED
      BY <1>1, <1>2, <3>1, <3>2, HandleAim
  <2>3. CASE ~aimPending
    <3>1. inflight \notin AimEvents
      BY <2>3 DEF IInv, InflightIsKept
    <3>2. psp'.aim = psp.aim
      BY <1>1, <1>4, <3>1
    <3> QED
      BY <1>2, <2>3, <3>2 DEF IInv, AimMirrored
  <2> QED
    BY <2>2, <2>3
<1>13. SourcesOK' /\ complete' \in BOOLEAN
  BY <1>1, <1>6, <1>8 DEF IInv, TypeOK, SourcesOK
<1>14. inflight' \in {Idle} \cup Events /\ InflightIsKept'
  BY <1>1, <1>13, ProcessQueue
<1>15. TypeOK'
  BY <1>1, <1>5, <1>13, <1>14 DEF IInv, TypeOK
<1>16. Unlinked'
  BY <1>1, <1>2 DEF Unlinked
<1> QED
  BY <1>7, <1>10, <1>11, <1>12, <1>14, <1>15, <1>16 DEF IInv

\* A new aim.
LEMMA CheckAim ==
  ASSUME NEW a \in AimReadings, aimLast \in AimReadings, aimPending \in BOOLEAN,
         check_aim(a)
  PROVE  /\ aimLast' \in AimReadings /\ aimPending' \in BOOLEAN
         /\ aimPending => aimPending'
         /\ ~aimPending' => aimLast' = aimLast /\ ~aimPending
<1>1. CASE AimMoved(a, aimLast)
  <2>1. aimLast' = a /\ aimPending' = TRUE
    BY <1>1 DEF check_aim
  <2> QED
    BY <2>1
<1>2. CASE ~AimMoved(a, aimLast)
  <2>1. aimLast' = aimLast /\ aimPending' = aimPending
    BY <1>2 DEF check_aim
  <2> QED
    BY <2>1
<1> QED
  BY <1>1, <1>2

LEMMA SetAimKeepsIInv ==
  ASSUME IInv, NEW new \in AimStates, NEW submitted,
         rjm_psp_host_set_aim(new, submitted)
  PROVE  IInv'
<1> PICK set : set = IF inputEnabled THEN new ELSE NoAim
  OBVIOUS
<1>1. set \in AimReadings
  <2>1. NoAim \in AimReadings
    BY DEF NoAim, AimReadings
  <2>2. ASSUME NEW a \in [active : {TRUE}, offscreen : BOOLEAN, x : AimsAt]
        PROVE  a \in AimReadings
    BY DEF AimReadings
  <2> QED
    BY <2>1, <2>2 DEF AimStates
<1>2. /\ aim' = set
      /\ UNCHANGED <<complete, queue, state, last, pendingAxis, psp>>
      /\ complete => check_aim(set)
      /\ ~complete => UNCHANGED <<aimLast, aimPending>>
      /\ process_queue(Busy, submitted) \/ UNCHANGED inflight
      /\ ~complete => UNCHANGED inflight
  BY DEF rjm_psp_host_set_aim
<1>3. /\ aimLast' \in AimReadings /\ aimPending' \in BOOLEAN
      /\ aimPending => aimPending'
      /\ ~aimPending' => aimLast' = aimLast /\ ~aimPending
      /\ ~complete => aimLast' = aimLast /\ aimPending' = aimPending
  <2>1. aimLast \in AimReadings /\ aimPending \in BOOLEAN
    BY DEF IInv, TypeOK, SourcesOK
  <2>2. CASE complete
    BY <1>1, <1>2, <2>1, <2>2, CheckAim
  <2>3. CASE ~complete
    BY <1>2, <2>1, <2>3
  <2> QED
    BY <2>2, <2>3
<1>4. SourcesOK' /\ complete' \in BOOLEAN
  BY <1>2, <1>3 DEF IInv, TypeOK, SourcesOK
<1>5. inflight' \in {Idle} \cup Events /\ InflightIsKept'
  <2>1. CASE process_queue(Busy, submitted)
    <3>1. TypeOK /\ InflightIsKept
      BY DEF IInv
    <3> QED
      BY <1>2, <1>3, <1>4, <2>1, <3>1, InflightStays
  <2>2. CASE UNCHANGED inflight
    BY <1>2, <1>3, <2>2 DEF IInv, TypeOK, InflightIsKept
  <2> QED
    BY <1>2, <2>1, <2>2
<1>6. TypeOK'
  BY <1>1, <1>2, <1>4, <1>5 DEF IInv, TypeOK
<1>7. Unlinked' /\ MarkIsLast' /\ Player1StickMirrored'
  BY <1>2, <1>3 DEF IInv, Unlinked, MarkIsLast, Player1StickMirrored
<1>8. AimMirrored'
  BY <1>2, <1>3 DEF IInv, AimMirrored, aim_event
<1>9. Believed' /\ Calm(psp, queue)'
  BY <1>2 DEF IInv, Believed, Upcoming
<1> QED
  BY <1>5, <1>6, <1>7, <1>8, <1>9 DEF IInv

\* The portal takes the input away: nothing is told to the PSP yet.
LEMMA SetEnabledKeepsIInv ==
  ASSUME IInv, rjm_psp_host_set_enabled
  PROVE  IInv'
<1>1. /\ state' = [p \in Players |-> NeutralPad]
      /\ aim' = [aim EXCEPT !.active = FALSE]
      /\ UNCHANGED <<complete, queue, inflight, last, pendingAxis, aimLast,
                     aimPending, psp>>
  BY DEF rjm_psp_host_set_enabled
<1>2. NeutralPad \in ReportedPads
  BY JoyEventsAssumption DEF NeutralPad, ReportedPads, Pads
<1>3. aim' \in AimReadings
  BY <1>1 DEF IInv, TypeOK, AimReadings
<1>4. TypeOK'
  BY <1>1, <1>2, <1>3 DEF IInv, TypeOK, SourcesOK
<1>5. Unlinked' /\ InflightIsKept' /\ MarkIsLast' /\ Player1StickMirrored' /\ AimMirrored'
  BY <1>1 DEF IInv, Unlinked, InflightIsKept, MarkIsLast, Player1StickMirrored, AimMirrored
<1>6. Believed' /\ Calm(psp, queue)'
  BY <1>1 DEF IInv, Believed, Upcoming
<1> QED
  BY <1>4, <1>5, <1>6 DEF IInv

\* The two players in turn, as poll_state does.
LEMMA SyncBoth ==
  ASSUME NEW i \in InputState, NEW q \in Seq(ButtonEvents), Calm(i, q),
         NEW pad0 \in Pads, NEW pad1 \in ReportedPads,
         NEW was0 \in Pads, NEW was1 \in Pads,
         Agrees(AfterAll(i, q), 0, was0), Agrees(AfterAll(i, q), 1, was1),
         NEW r0, r0 = sync_player(q, 0, pad0, was0),
         NEW r1, r1 = sync_player(r0.queue, 1, pad1, was1)
  PROVE  /\ r1.queue \in Seq(ButtonEvents)
         /\ r0.last \in Pads /\ r0.last.x = was0.x /\ r0.last.y = was0.y
         /\ r1.last \in Pads
         /\ Calm(i, r1.queue)
         /\ Agrees(AfterAll(i, r1.queue), 0, r0.last)
         /\ Agrees(AfterAll(i, r1.queue), 1, r1.last)
         /\ q # <<>> => r1.queue # <<>> /\ Head(r1.queue) = Head(q)
<1>1. /\ r0.queue \in Seq(ButtonEvents)
      /\ r0.last \in Pads /\ r0.last.x = was0.x /\ r0.last.y = was0.y
      /\ Calm(i, r0.queue)
      /\ Agrees(AfterAll(i, r0.queue), 0, r0.last)
      /\ Agrees(AfterAll(i, r0.queue), 1, was1)
      /\ q # <<>> => r0.queue # <<>> /\ Head(r0.queue) = Head(q)
  BY SyncPlayer1
<1>2. PICK q0 \in Seq(ButtonEvents) : q0 = r0.queue
  BY <1>1
<1>3. /\ r1.queue \in Seq(ButtonEvents)
      /\ r1.last \in Pads
      /\ Calm(i, r1.queue)
      /\ Agrees(AfterAll(i, r1.queue), 1, r1.last)
      /\ Agrees(AfterAll(i, r1.queue), 0, r0.last)
      /\ q0 # <<>> => r1.queue # <<>> /\ Head(r1.queue) = Head(q0)
  BY <1>1, <1>2, SyncPlayer2
<1> QED
  BY <1>1, <1>2, <1>3

\* The timer: what could not be queued before is, and axes are marked.
LEMMA TimerKeepsIInv ==
  ASSUME IInv, NEW due \in BOOLEAN, NEW submitted, usb_timer(due, submitted)
  PROVE  IInv'
<1>1. /\ complete
      /\ UNCHANGED <<complete, state, aim, psp>>
      /\ process_queue(Busy, submitted)
      /\ due => poll_state
      /\ ~due => UNCHANGED <<queue, last, pendingAxis, aimLast, aimPending>>
  BY DEF usb_timer
<1>2. /\ queue \in Seq(ButtonEvents) /\ psp \in InputState
      /\ last \in [Players -> Pads] /\ last[0] \in Pads /\ last[1] \in Pads
      /\ state[0] \in Pads /\ state[1] \in Pads /\ state[1] \in ReportedPads
      /\ pendingAxis \in [Axes -> SticksAt \cup {NoValue}]
      /\ aim \in AimReadings /\ aimLast \in AimReadings /\ aimPending \in BOOLEAN
      /\ Calm(psp, queue)
      /\ Agrees(AfterAll(psp, queue), 0, last[0])
      /\ Agrees(AfterAll(psp, queue), 1, last[1])
  BY <1>1 DEF IInv, TypeOK, SourcesOK, Believed, Upcoming, Players, ReportedPads
<1> DEFINE Moved(p, a) == Distance(state[p][a], last[p][a]) >= ANALOG_DEADBAND
<1>3. /\ queue' \in Seq(ButtonEvents)
      /\ last' \in [Players -> Pads]
      /\ pendingAxis' \in [Axes -> SticksAt \cup {NoValue}]
      /\ \A axis \in Axes : pendingAxis[axis] # NoValue => pendingAxis'[axis] # NoValue
      /\ aimLast' \in AimReadings /\ aimPending' \in BOOLEAN
      /\ aimPending => aimPending'
      /\ ~aimPending' => aimLast' = aimLast /\ ~aimPending
      /\ Calm(psp, queue')
      /\ Agrees(AfterAll(psp, queue'), 0, last'[0])
      /\ Agrees(AfterAll(psp, queue'), 1, last'[1])
      /\ MarkIsLast' /\ Player1StickMirrored'
      /\ queue # <<>> => queue' # <<>> /\ Head(queue') = Head(queue)
  <2>1. CASE due
    <3>1. PICK r0, r1 : /\ r0 = sync_player(queue, 0, state[0], last[0])
                        /\ r1 = sync_player(r0.queue, 1, state[1], last[1])
      OBVIOUS
    <3>2. /\ queue' = r1.queue
          /\ last' = [p \in Players |->
                       [(IF p = 0 THEN r0.last ELSE r1.last) EXCEPT
                          !.x = IF Moved(p, "x") THEN state[p].x ELSE @,
                          !.y = IF Moved(p, "y") THEN state[p].y ELSE @]]
          /\ pendingAxis' = [axis \in Axes |->
                               IF Moved(axis[1], axis[2]) THEN state[axis[1]][axis[2]]
                               ELSE pendingAxis[axis]]
          /\ check_aim(aim)
      BY <1>1, <2>1, <3>1 DEF poll_state
    <3> HIDE DEF Moved
    <3>3. /\ r1.queue \in Seq(ButtonEvents)
          /\ r0.last \in Pads /\ r0.last.x = last[0].x /\ r0.last.y = last[0].y
          /\ r1.last \in Pads
          /\ Calm(psp, r1.queue)
          /\ Agrees(AfterAll(psp, r1.queue), 0, r0.last)
          /\ Agrees(AfterAll(psp, r1.queue), 1, r1.last)
          /\ queue # <<>> => r1.queue # <<>> /\ Head(r1.queue) = Head(queue)
      <4>1. PICK pad0, pad1, was0, was1 :
              pad0 = state[0] /\ pad1 = state[1] /\ was0 = last[0] /\ was1 = last[1]
        OBVIOUS
      <4> QED
        BY <1>2, <3>1, <4>1, SyncBoth
    <3>4. /\ last' \in [Players -> Pads]
          /\ last'[0].buttons = r0.last.buttons
          /\ last'[0].x = (IF Moved(0, "x") THEN state[0].x ELSE last[0].x)
          /\ last'[0].y = (IF Moved(0, "y") THEN state[0].y ELSE last[0].y)
          /\ last'[1].buttons = r1.last.buttons /\ last'[1].connected = r1.last.connected
      <4>1. 0 \in Players /\ 1 \in Players /\ 0 # 1 /\ Players = {0, 1}
        BY DEF Players
      <4>2. PICK l0, l1 :
              /\ l0 = [r0.last EXCEPT !.x = IF Moved(0, "x") THEN state[0].x ELSE @,
                                      !.y = IF Moved(0, "y") THEN state[0].y ELSE @]
              /\ l1 = [r1.last EXCEPT !.x = IF Moved(1, "x") THEN state[1].x ELSE @,
                                      !.y = IF Moved(1, "y") THEN state[1].y ELSE @]
        OBVIOUS
      <4>3. last' = [p \in Players |-> IF p = 0 THEN l0 ELSE l1]
        BY <3>2, <4>1, <4>2
      <4>4. /\ l0 \in Pads /\ l0.buttons = r0.last.buttons
            /\ l0.x = (IF Moved(0, "x") THEN state[0].x ELSE last[0].x)
            /\ l0.y = (IF Moved(0, "y") THEN state[0].y ELSE last[0].y)
        BY <1>2, <3>3, <4>2 DEF Pads
      <4>5. /\ l1 \in Pads
            /\ l1.buttons = r1.last.buttons /\ l1.connected = r1.last.connected
        BY <1>2, <3>3, <4>2 DEF Pads
      <4>6. last'[0] = l0 /\ last'[1] = l1
        BY <4>1, <4>3
      <4> QED
        BY <4>3, <4>4, <4>5, <4>6
    <3>5. /\ pendingAxis' \in [Axes -> SticksAt \cup {NoValue}]
          /\ \A axis \in Axes : pendingAxis[axis] # NoValue => pendingAxis'[axis] # NoValue
          /\ pendingAxis'[<<0, "x">>]
               = (IF Moved(0, "x") THEN state[0].x ELSE pendingAxis[<<0, "x">>])
          /\ pendingAxis'[<<0, "y">>]
               = (IF Moved(0, "y") THEN state[0].y ELSE pendingAxis[<<0, "y">>])
      <4>1. \A axis \in Axes : state[axis[1]][axis[2]] \in SticksAt
        BY <1>2 DEF Axes, Players, Pads
      <4>2. NoValue \notin SticksAt
        BY JoyEventsAssumption DEF NoValue
      <4>3. <<0, "x">> \in Axes /\ <<0, "y">> \in Axes
        BY DEF Axes, Players
      <4> QED
        BY <1>2, <3>2, <4>1, <4>2, <4>3
    <3>6. /\ aimLast' \in AimReadings /\ aimPending' \in BOOLEAN
          /\ aimPending => aimPending'
          /\ ~aimPending' => aimLast' = aimLast /\ ~aimPending
      BY <1>2, <3>2, CheckAim
    <3>7. /\ Agrees(AfterAll(psp, queue'), 0, last'[0])
          /\ Agrees(AfterAll(psp, queue'), 1, last'[1])
      BY <3>2, <3>3, <3>4 DEF Agrees
    <3>8. MarkIsLast' /\ Player1StickMirrored'
      <4>1. state[0].x # NoValue /\ state[0].y # NoValue
        BY <1>2, JoyEventsAssumption DEF Pads, NoValue
      <4> QED
        BY <1>1, <3>4, <3>5, <4>1 DEF IInv, MarkIsLast, Player1StickMirrored
    <3> QED
      BY <1>2, <3>2, <3>3, <3>4, <3>5, <3>6, <3>7, <3>8
  <2>2. CASE ~due
    BY <1>1, <1>2, <2>2 DEF IInv, MarkIsLast, Player1StickMirrored
  <2> QED
    BY <2>1, <2>2
<1>4. SourcesOK' /\ complete' \in BOOLEAN
  BY <1>1, <1>3 DEF SourcesOK
<1>5. inflight' \in {Idle} \cup Events /\ InflightIsKept'
  <2>1. TypeOK /\ InflightIsKept
    BY DEF IInv
  <2> QED
    BY <1>1, <1>3, <1>4, <2>1, InflightStays
<1>6. TypeOK'
  BY <1>1, <1>3, <1>4, <1>5 DEF IInv, TypeOK
<1>7. Unlinked' /\ AimMirrored'
  BY <1>1, <1>3 DEF IInv, Unlinked, AimMirrored
<1>8. Believed' /\ Calm(psp, queue)'
  BY <1>1, <1>3 DEF Believed, Upcoming
<1> QED
  BY <1>3, <1>5, <1>6, <1>7, <1>8 DEF IInv

\* The link comes up; nothing is held on either side.
LEMMA HelloKeepsIInv ==
  ASSUME IInv, hello_response_sent
  PROVE  IInv'
<1>1. /\ ~complete /\ complete' = TRUE
      /\ queue' = <<>>
      /\ last' = [p \in Players |-> NeutralPad]
      /\ UNCHANGED <<inflight, pendingAxis, aimLast, aimPending, psp, state, aim>>
  BY DEF hello_response_sent, inputs
<1>2. /\ queue = <<>> /\ inflight = Idle /\ last = [p \in Players |-> NeutralPad]
      /\ aimLast = NoAim /\ psp = Neutral
  BY <1>1 DEF IInv, Unlinked
<1>3. /\ queue' = queue /\ last' = last /\ psp' = psp
  BY <1>1, <1>2
<1>4. TypeOK'
  BY <1>1, <1>3 DEF IInv, TypeOK, SourcesOK
<1>5. Unlinked' /\ InflightIsKept' /\ MarkIsLast' /\ Calm(psp, queue)'
  BY <1>1, <1>3 DEF IInv, Unlinked, InflightIsKept, MarkIsLast
<1>6. Player1StickMirrored' /\ AimMirrored'
  BY <1>1, <1>2 DEF Player1StickMirrored, AimMirrored, Neutral, NeutralPad, NoAim,
                    aim_event, Axes, Players
<1>7. Believed'
  <2>1. AfterAll(psp', queue') = Neutral
    BY <1>1, <1>2, AfterAllEmpty
  <2>2. /\ Neutral.buttons[0] = {} /\ Neutral.buttons[1] = {}
        /\ Neutral.p2_connected = FALSE
    BY DEF Neutral, Players
  <2>3. /\ last'[0].buttons = {} /\ last'[1].buttons = {} /\ last'[1].connected = FALSE
    BY <1>1 DEF NeutralPad, Players
  <2>4. Agrees(Neutral, 0, last'[0]) /\ Agrees(Neutral, 1, last'[1])
    BY <2>2, <2>3 DEF Agrees
  <2> QED
    BY <2>1, <2>4 DEF Believed, Upcoming
<1> QED
  BY <1>4, <1>5, <1>6, <1>7 DEF IInv

\* The PSP is unplugged, whatever was queued or in flight.
LEMMA ResetKeepsIInv ==
  ASSUME IInv, reset_host
  PROVE  IInv'
<1>1. /\ complete' = FALSE /\ queue' = <<>> /\ inflight' = Idle
      /\ last' = [p \in Players |-> NeutralPad]
      /\ pendingAxis' = [axis \in Axes |-> NoValue]
      /\ aimLast' = NoAim /\ aimPending' = FALSE /\ psp' = Neutral
      /\ UNCHANGED <<state, aim>>
  BY DEF reset_host, inputs
<1>2. /\ NeutralPad \in Pads /\ NoAim \in AimReadings /\ Neutral \in InputState
  BY JoyEventsAssumption DEF NeutralPad, Pads, NoAim, AimReadings, Neutral, InputState,
                             AimEvents
<1>3. <<>> \in Seq(ButtonEvents)
  OBVIOUS
<1>4. TypeOK'
  BY <1>1, <1>2, <1>3 DEF IInv, TypeOK, SourcesOK
<1>5. Unlinked' /\ MarkIsLast' /\ Believed' /\ Player1StickMirrored' /\ AimMirrored'
  BY <1>1 DEF Unlinked, MarkIsLast, Believed, Player1StickMirrored, AimMirrored, Axes,
              Players
<1>6. InflightIsKept'
  BY <1>1, EventKinds DEF InflightIsKept
<1>7. Calm(psp, queue)'
  <2>1. Present2(Neutral)
    BY DEF Present2, Neutral, Players
  <2> QED
    BY <1>1, <2>1, CalmEmpty
<1> QED
  BY <1>4, <1>5, <1>6, <1>7 DEF IInv

LEMMA NextKeepsIInv == IInv /\ [Next]_vars => IInv'
<1> SUFFICES ASSUME IInv, [Next]_vars PROVE IInv'
  OBVIOUS
<1>1. CASE Controller
  BY <1>1, SetStateKeepsIInv, SetAimKeepsIInv, SetEnabledKeepsIInv DEF Controller
<1>2. CASE Usb
  BY <1>2, EventSentKeepsIInv, TimerKeepsIInv DEF Usb
<1>3. CASE Link
  BY <1>3, HelloKeepsIInv, ResetKeepsIInv DEF Link
<1>4. CASE UNCHANGED vars
  BY <1>4 DEF vars, IInv, TypeOK, SourcesOK, Unlinked, InflightIsKept, MarkIsLast,
              Believed, Upcoming, Player1StickMirrored, AimMirrored
<1> QED
  BY <1>1, <1>2, <1>3, <1>4 DEF Next

-----------------------------------------------------------------------------
(* The theorems.                                                           *)

\* The invariant holds in every state, whatever the controllers report, however
\* many transfers fail, and however often the PSP is unplugged (psp_host.c).
THEOREM InputInvariant == Spec => []IInv
<1>1. Init => IInv
  BY InitIInv
<1>2. IInv /\ [Next]_vars => IInv'
  BY NextKeepsIInv
<1> QED
  BY <1>1, <1>2, PTL DEF Spec

\* What process_queue, event_sent and poll_state leave the Pico believing of
\* player 1 at the PSP (g_last and the marks), the PSP holds or will hold when
\* it has the queue: no transition is lost halfway, sent twice to a different
\* end, or its mark cleared under a newer value.
THEOREM InputIsMirrored == Spec => []InputMirrored
<1>1. IInv => InputMirrored
  BY DEF IInv, InputMirrored, Believed, Agrees, Player1Mirrored
<1> QED
  BY <1>1, InputInvariant, PTL

\* The PSP never holds a button of player 2 the Pico does not believe held, nor
\* any while player 2 is away, at any moment of the stream.
THEOREM Player2IsMirrored == Spec => []Player2Mirrored
<1>1. IInv => Player2Mirrored
  <2> SUFFICES ASSUME IInv PROVE Player2Mirrored
    OBVIOUS
  <2>1. Player2NeverStuck
    BY DEF IInv, Believed, Agrees, Player2NeverStuck
  <2>2. queue \in Seq(Events)
    BY ButtonEventsAreEvents DEF IInv, TypeOK, SourcesOK
  <2>3. Present2(psp)
    BY <2>2, CalmNow DEF IInv
  <2> QED
    BY <2>1, <2>3 DEF Player2Mirrored, Player2Present, Present2
<1> QED
  BY <1>1, InputInvariant, PTL

-----------------------------------------------------------------------------
(* The queue as a channel: PspInput implements PadChannel.                 *)

\* A function over an initial segment is a sequence of that length.
LEMMA FunctionIsSeq ==
  ASSUME NEW S, NEW n \in Nat, NEW f \in [1..n -> S]
  PROVE  f \in Seq(S) /\ Len(f) = n
<1>1. f \in Seq(S)
  BY SeqDef
<1>2. Len(f) \in Nat /\ 1..Len(f) = 1..n
  BY <1>1, LenProperties
<1>3. Len(f) = n
  BY <1>2
<1> QED
  BY <1>1, <1>3

\* What is ahead has one entry for each queued event.
LEMMA AheadIs ==
  ASSUME NEW i \in InputState, NEW q \in Seq(ButtonEvents)
  PROVE  /\ AheadOf(i, q) \in Seq(SUBSET Buttons)
         /\ Len(AheadOf(i, q)) = Len(q)
         /\ \A n \in 1..Len(q) : AheadOf(i, q)[n] = AfterAll(i, SubSeq(q, 1, n)).buttons[0]
<1>1. Len(q) \in Nat
  BY LenProperties
<1>2. \A n \in 1..Len(q) : AfterAll(i, SubSeq(q, 1, n)).buttons[0] \in SUBSET Buttons
  <2>1. TAKE n \in 1..Len(q)
  <2>2. n \in 0..Len(q)
    BY <1>1
  <2>3. SubSeq(q, 1, n) \in Seq(ButtonEvents)
    BY <2>2, PrefixIsSeq
  <2>4. AfterAll(i, SubSeq(q, 1, n)) \in InputState
    BY <2>3, ButtonEventsAreEvents, AfterAllTyped
  <2> QED
    BY <2>4 DEF InputState, Players
<1>3. AheadOf(i, q) \in [1..Len(q) -> SUBSET Buttons]
  BY <1>2 DEF AheadOf
<1>4. \A n \in 1..Len(q) : AheadOf(i, q)[n] = AfterAll(i, SubSeq(q, 1, n)).buttons[0]
  BY DEF AheadOf
<1> QED
  BY <1>1, <1>3, <1>4, FunctionIsSeq

\* Nothing queued, nothing ahead.
LEMMA AheadEmpty ==
  ASSUME NEW i
  PROVE  AheadOf(i, <<>>) = <<>>
BY DEF AheadOf

\* Two queues along which the PSP holds the same.
LEMMA AheadEqual ==
  ASSUME NEW i \in InputState, NEW q \in Seq(ButtonEvents),
         NEW j \in InputState, NEW u \in Seq(ButtonEvents), Len(q) = Len(u),
         \A n \in 1..Len(q) : AfterAll(i, SubSeq(q, 1, n)).buttons[0]
                                = AfterAll(j, SubSeq(u, 1, n)).buttons[0]
  PROVE  AheadOf(i, q) = AheadOf(j, u)
BY DEF AheadOf

\* It depends on what the PSP holds, and not on its axes or aim.
LEMMA AheadSame ==
  ASSUME NEW i \in InputState, NEW j \in InputState, SameHeld(i, j),
         NEW q \in Seq(ButtonEvents)
  PROVE  AheadOf(i, q) = AheadOf(j, q)
<1>1. ASSUME NEW n \in 1..Len(q)
      PROVE  AfterAll(i, SubSeq(q, 1, n)).buttons[0] = AfterAll(j, SubSeq(q, 1, n)).buttons[0]
  <2>1. n \in 0..Len(q)
    BY LenProperties
  <2>2. SubSeq(q, 1, n) \in Seq(Events)
    BY <2>1, PrefixIsSeq, ButtonEventsAreEvents
  <2> QED
    BY <2>2, AfterAllSameHeld DEF SameHeld
<1> QED
  BY <1>1, AheadEqual

\* Its last entry is what the PSP holds in the end.
LEMMA AheadNewest ==
  ASSUME NEW i \in InputState, NEW q \in Seq(ButtonEvents)
  PROVE  /\ AheadOf(i, q) = <<>> <=> q = <<>>
         /\ AfterAll(i, q).buttons[0]
              = IF AheadOf(i, q) = <<>> THEN i.buttons[0]
                ELSE AheadOf(i, q)[Len(AheadOf(i, q))]
<1>1. /\ AheadOf(i, q) \in Seq(SUBSET Buttons) /\ Len(AheadOf(i, q)) = Len(q)
      /\ \A n \in 1..Len(q) : AheadOf(i, q)[n] = AfterAll(i, SubSeq(q, 1, n)).buttons[0]
      /\ Len(q) \in Nat
  BY AheadIs, LenProperties
<1>2. (AheadOf(i, q) = <<>> <=> Len(q) = 0) /\ (q = <<>> <=> Len(q) = 0)
  BY <1>1, EmptySeq
<1>3. CASE q = <<>>
  BY <1>2, <1>3, AfterAllEmpty
<1>4. CASE q # <<>>
  <2>1. Len(q) \in 1..Len(q) /\ SubSeq(q, 1, Len(q)) = q
    BY <1>1, <1>2, <1>4, SubSeqFull
  <2> QED
    BY <1>1, <1>2, <1>4, <2>1
<1> QED
  BY <1>2, <1>3, <1>4

\* What is put in behind a queue continues from the queue's end.
LEMMA AheadConcat ==
  ASSUME NEW i \in InputState, NEW q \in Seq(ButtonEvents), NEW u \in Seq(ButtonEvents)
  PROVE  /\ Len(AheadOf(i, q \o u)) = Len(q) + Len(u)
         /\ \A n \in 1..Len(q) : AheadOf(i, q \o u)[n] = AheadOf(i, q)[n]
         /\ \A n \in 1..Len(u) :
              AheadOf(i, q \o u)[Len(q) + n] = AheadOf(AfterAll(i, q), u)[n]
<1>1. /\ q \o u \in Seq(ButtonEvents) /\ Len(q \o u) = Len(q) + Len(u)
      /\ Len(q) \in Nat /\ Len(u) \in Nat
  BY ConcatProperties, LenProperties
<1>2. /\ Len(AheadOf(i, q \o u)) = Len(q) + Len(u)
      /\ \A n \in 1..(Len(q) + Len(u)) :
           AheadOf(i, q \o u)[n] = AfterAll(i, SubSeq(q \o u, 1, n)).buttons[0]
  BY <1>1, AheadIs
<1>3. ASSUME NEW n \in 1..Len(q)
      PROVE  AheadOf(i, q \o u)[n] = AheadOf(i, q)[n]
  <2>1. n \in 1..(Len(q) + Len(u)) /\ n \in 0..(Len(q) + Len(u)) /\ n <= Len(q)
    BY <1>1
  <2>2. SubSeq(q \o u, 1, n) = SubSeq(q, 1, n)
    BY <2>1, PrefixOfConcat
  <2> QED
    BY <1>2, <2>1, <2>2, AheadIs
<1>4. ASSUME NEW n \in 1..Len(u)
      PROVE  AheadOf(i, q \o u)[Len(q) + n] = AheadOf(AfterAll(i, q), u)[n]
  <2>1. PICK m \in Nat : m = Len(q) + n
    BY <1>1
  <2>2. /\ m \in 1..(Len(q) + Len(u)) /\ m \in 0..(Len(q) + Len(u)) /\ m > Len(q)
        /\ m - Len(q) = n /\ n \in 0..Len(u)
    BY <1>1, <2>1
  <2>3. SubSeq(q \o u, 1, m) = q \o SubSeq(u, 1, n)
    BY <2>2, PrefixOfConcat
  <2>4. SubSeq(u, 1, n) \in Seq(ButtonEvents)
    BY <2>2, PrefixIsSeq
  <2>5. AfterAll(i, q \o SubSeq(u, 1, n)) = AfterAll(AfterAll(i, q), SubSeq(u, 1, n))
    BY <2>4, AfterAllConcat
  <2>6. AheadOf(i, q \o u)[m] = AfterAll(AfterAll(i, q), SubSeq(u, 1, n)).buttons[0]
    BY <1>2, <2>2, <2>3, <2>5
  <2>7. AheadOf(AfterAll(i, q), u)[n] = AfterAll(AfterAll(i, q), SubSeq(u, 1, n)).buttons[0]
    BY DEF AheadOf
  <2> QED
    BY <2>1, <2>6, <2>7
<1> QED
  BY <1>2, <1>3, <1>4

\* Receiving the oldest event leaves the tail ahead; receiving it without taking
\* it off the queue leaves all of it, for an event twice is an event once.
LEMMA AheadHead ==
  ASSUME NEW i \in InputState, NEW q \in Seq(ButtonEvents), q # <<>>,
         NEW once, once = handle_joyevent(i, Head(q))
  PROVE  /\ AheadOf(i, q) # <<>>
         /\ Head(AheadOf(i, q)) = once.buttons[0]
         /\ AheadOf(once, Tail(q)) = Tail(AheadOf(i, q))
         /\ AheadOf(once, q) = AheadOf(i, q)
<1>1. /\ Head(q) \in Events /\ Tail(q) \in Seq(ButtonEvents)
      /\ Len(q) \in Nat /\ Len(q) # 0 /\ Len(Tail(q)) = Len(q) - 1
      /\ q \in Seq(Events)
  BY HeadTailProperties, EmptySeq, ButtonEventsAreEvents DEF Events
<1>2. once \in InputState
  BY <1>1, HandleFrame
<1>3. /\ AheadOf(i, q) \in Seq(SUBSET Buttons) /\ Len(AheadOf(i, q)) = Len(q)
      /\ \A n \in 1..Len(q) : AheadOf(i, q)[n] = AfterAll(i, SubSeq(q, 1, n)).buttons[0]
  BY AheadIs
<1>4. AheadOf(i, q) # <<>>
  BY <1>1, AheadNewest
<1>5. ASSUME NEW n \in 1..Len(q)
      PROVE  LET p == SubSeq(q, 1, n)
             IN  /\ p \in Seq(Events) /\ p # <<>> /\ Head(p) = Head(q)
                 /\ Tail(p) = SubSeq(Tail(q), 1, n - 1)
  <2>1. n \in 0..Len(q) /\ 1 \in 1..Len(q) /\ n \in 1..Len(q)
    BY <1>1
  <2> DEFINE p == SubSeq(q, 1, n)
  <2>2. p \in Seq(Events) /\ Len(p) = n
    BY <1>1, <2>1, PrefixIsSeq
  <2>3. p # <<>>
    BY <2>1, <2>2
  <2>4. Head(p) = q[1] /\ Tail(p) = SubSeq(q, 2, n)
    <3>1. 1 + 1 = 2
      OBVIOUS
    <3> QED
      BY <1>1, <2>1, <3>1, HeadTailOfSubSeq
  <2>5. SubSeq(Tail(q), 1, n - 1) = SubSeq(q, 2, n)
    OBVIOUS
  <2>6. Head(q) = q[1]
    OBVIOUS
  <2> QED
    BY <2>2, <2>3, <2>4, <2>5, <2>6
<1>6. Head(AheadOf(i, q)) = once.buttons[0]
  <2>1. 1 \in 1..Len(q) /\ 1 \in 0..Len(q)
    BY <1>1
  <2>2. Head(AheadOf(i, q)) = AfterAll(i, SubSeq(q, 1, 1)).buttons[0]
    BY <1>3, <1>4, <2>1
  <2>3. PICK p \in Seq(Events) : /\ p = SubSeq(q, 1, 1) /\ p # <<>> /\ Head(p) = Head(q)
                                 /\ Tail(p) = SubSeq(Tail(q), 1, 0)
    <3>1. 1 - 1 = 0
      OBVIOUS
    <3> QED
      BY <1>5, <2>1, <3>1
  <2>4. Tail(p) = <<>>
    BY <2>3, SubSeqEmpty
  <2>5. AfterAll(i, p) = once
    BY <2>3, <2>4, AfterAllHead, AfterAllEmpty
  <2> QED
    BY <2>2, <2>3, <2>5
<1>7. AheadOf(once, Tail(q)) = Tail(AheadOf(i, q))
  <2>1. /\ AheadOf(once, Tail(q)) \in Seq(SUBSET Buttons)
        /\ Len(AheadOf(once, Tail(q))) = Len(q) - 1
        /\ \A n \in 1..(Len(q) - 1) :
             AheadOf(once, Tail(q))[n] = AfterAll(once, SubSeq(Tail(q), 1, n)).buttons[0]
    BY <1>1, <1>2, AheadIs
  <2>2. /\ Tail(AheadOf(i, q)) \in Seq(SUBSET Buttons)
        /\ Len(Tail(AheadOf(i, q))) = Len(q) - 1
        /\ \A n \in 1..(Len(q) - 1) : Tail(AheadOf(i, q))[n] = AheadOf(i, q)[n + 1]
    BY <1>3, <1>4, HeadTailProperties
  <2>3. ASSUME NEW n \in 1..(Len(q) - 1)
        PROVE  AheadOf(once, Tail(q))[n] = Tail(AheadOf(i, q))[n]
    <3>1. PICK m \in 1..Len(q) : m = n + 1 /\ m - 1 = n
      BY <1>1
    <3>2. PICK p \in Seq(Events) : /\ p = SubSeq(q, 1, m) /\ p # <<>> /\ Head(p) = Head(q)
                                   /\ Tail(p) = SubSeq(Tail(q), 1, n)
      BY <1>5, <3>1
    <3>3. AfterAll(i, p) = AfterAll(once, Tail(p))
      BY <3>2, AfterAllHead
    <3> QED
      BY <1>3, <2>1, <2>2, <3>1, <3>2, <3>3
  <2> QED
    BY <2>1, <2>2, <2>3, SeqEqual
<1>8. AheadOf(once, q) = AheadOf(i, q)
  <2>1. ASSUME NEW n \in 1..Len(q)
        PROVE  AfterAll(once, SubSeq(q, 1, n)).buttons[0] = AfterAll(i, SubSeq(q, 1, n)).buttons[0]
    <3>1. PICK p \in Seq(Events) : p = SubSeq(q, 1, n) /\ p # <<>> /\ Head(p) = Head(q)
      BY <1>5
    <3>2. SameHeld(AfterAll(once, p), AfterAll(i, p))
      BY <3>1, AfterAllHeadTwice
    <3> QED
      BY <3>1, <3>2 DEF SameHeld
  <2> QED
    BY <1>2, <2>1, AheadEqual
<1> QED
  BY <1>4, <1>6, <1>7, <1>8

\* The events put in keep the PSP on the way to what the controllers hold now,
\* and leave it at its end or where it was.
OnTheWay(input, now) == Channel!OnTheWay(input.buttons[0], now)
Passes(input, events, seen) ==
  \A n \in 1..Len(events) : AheadOf(input, events)[n] \in seen
Puts(input, events, now) ==
  /\ Passes(input, events, OnTheWay(input, now))
  /\ AfterAll(input, events).buttons[0] \in {input.buttons[0], now}

\* A single event, no event, and one run of events after another.
LEMMA PassesOne ==
  ASSUME NEW i \in InputState, NEW e \in ButtonEvents,
         NEW seen, handle_joyevent(i, e).buttons[0] \in seen
  PROVE  <<e>> \in Seq(ButtonEvents) /\ Passes(i, <<e>>, seen)
<1>1. <<e>> \in Seq(ButtonEvents) /\ <<e>> # <<>> /\ Head(<<e>>) = e /\ Len(<<e>>) = 1
  OBVIOUS
<1>2. AheadOf(i, <<e>>) \in Seq(SUBSET Buttons) /\ Len(AheadOf(i, <<e>>)) = 1
  BY <1>1, AheadIs
<1>3. Head(AheadOf(i, <<e>>)) = handle_joyevent(i, e).buttons[0] /\ AheadOf(i, <<e>>) # <<>>
  BY <1>1, AheadHead
<1>4. Head(AheadOf(i, <<e>>)) = AheadOf(i, <<e>>)[1]
  BY <1>2, <1>3
<1> QED
  BY <1>1, <1>3, <1>4 DEF Passes

LEMMA PassesNone ==
  ASSUME NEW i, NEW seen
  PROVE  <<>> \in Seq(ButtonEvents) /\ Passes(i, <<>>, seen)
BY DEF Passes

LEMMA PassesConcat ==
  ASSUME NEW i \in InputState, NEW q \in Seq(ButtonEvents), NEW u \in Seq(ButtonEvents),
         NEW seen, Passes(i, q, seen), Passes(AfterAll(i, q), u, seen)
  PROVE  q \o u \in Seq(ButtonEvents) /\ Passes(i, q \o u, seen)
<1>1. /\ q \o u \in Seq(ButtonEvents) /\ Len(q \o u) = Len(q) + Len(u)
      /\ Len(q) \in Nat /\ Len(u) \in Nat
  BY ConcatProperties, LenProperties
<1>2. ASSUME NEW n \in 1..(Len(q) + Len(u))
      PROVE  AheadOf(i, q \o u)[n] \in seen
  <2>1. CASE n <= Len(q)
    <3>1. n \in 1..Len(q)
      BY <1>1, <2>1
    <3> QED
      BY <3>1, AheadConcat DEF Passes
  <2>2. CASE n > Len(q)
    <3>1. PICK m \in 1..Len(u) : n = Len(q) + m
      <4>1. n - Len(q) \in 1..Len(u) /\ n = Len(q) + (n - Len(q))
        BY <1>1, <2>2
      <4> QED
        BY <4>1
    <3> QED
      BY <3>1, AheadConcat DEF Passes
  <2> QED
    BY <1>1, <2>1, <2>2
<1> QED
  BY <1>1, <1>2 DEF Passes

\* Events that leave player 1's buttons alone.
Others == {e \in ButtonEvents :
             \A i \in InputState : handle_joyevent(i, e).buttons[0] = i.buttons[0]}

\* Such events show player 1's buttons as they were.
LEMMA OthersPut ==
  ASSUME NEW i \in InputState, NEW u \in Seq(Others)
  PROVE  /\ u \in Seq(ButtonEvents)
         /\ AfterAll(i, u).buttons[0] = i.buttons[0]
         /\ \A seen : i.buttons[0] \in seen => Passes(i, u, seen)
<1>1. Others \subseteq ButtonEvents /\ ButtonEvents \subseteq Events
  BY DEF Others, Events
<1>2. u \in Seq(ButtonEvents)
  BY <1>1, SeqMonotonic
<1> DEFINE Same == {j \in InputState : j.buttons[0] = i.buttons[0]}
<1>3. \A j \in Same, e \in Others : handle_joyevent(j, e) \in Same
  BY <1>1, HandleFrame DEF Others
<1>4. i \in Same
  OBVIOUS
<1>5. \A s \in Seq(Others) : AfterAll(i, s).buttons[0] = i.buttons[0]
  <2> TAKE s \in Seq(Others)
  <2> HIDE DEF Same
  <2>1. AfterAll(i, s) \in Same
    BY <1>3, <1>4, AfterAllStays
  <2> QED
    BY <2>1 DEF Same
<1>6. \A n \in 1..Len(u) : AheadOf(i, u)[n] = i.buttons[0]
  <2> TAKE n \in 1..Len(u)
  <2>1. n \in 0..Len(u)
    BY LenProperties
  <2>2. SubSeq(u, 1, n) \in Seq(Others)
    BY <2>1, PrefixIsSeq
  <2> QED
    BY <1>2, <1>5, <2>2, AheadIs
<1> QED
  BY <1>2, <1>5, <1>6 DEF Passes

\* queue_button_changes for player 1: what is pressed, then what is released.
LEMMA ChangesPut ==
  ASSUME NEW i \in InputState, NEW now \in SUBSET Buttons,
         NEW u, u = button_changes(0, now, i.buttons[0])
  PROVE  u \in Seq(ButtonEvents) /\ Puts(i, u, now)
<1>1. PICK was \in SUBSET Buttons : was = i.buttons[0]
  BY DEF InputState, Players
<1>2. PICK p \in Players : p = 0
  BY DEF Players
<1>3. PICK d \in SUBSET Buttons, r \in SUBSET Buttons : d = now \ was /\ r = was \ now
  OBVIOUS
<1>4. PICK seen : /\ seen = OnTheWay(i, now)
                  /\ was \in seen /\ was \cup now \in seen /\ now \in seen
  BY <1>1 DEF OnTheWay, Channel!OnTheWay
<1>5. PICK middle : /\ middle = AfterAll(i, Downs(p, d)) /\ middle \in InputState
                    /\ middle.buttons[0] = was \cup now
                    /\ Downs(p, d) \in Seq(ButtonEvents) /\ Passes(i, Downs(p, d), seen)
  <2>1. CASE d = {}
    <3>1. Downs(p, d) = <<>> /\ AfterAll(i, <<>>) = i
      BY <2>1, AfterAllEmpty DEF Downs
    <3>2. i.buttons[0] = was \cup now
      BY <1>1, <1>3, <2>1
    <3> QED
      BY <3>1, <3>2, PassesNone
  <2>2. CASE d # {}
    <3>1. PICK e : e = DownEvent(p, d)
      OBVIOUS
    <3>2. e \in ButtonEvents
      BY <3>1 DEF ButtonEvents
    <3>3. /\ handle_joyevent(i, e) \in InputState
          /\ handle_joyevent(i, e).buttons[p] = i.buttons[p] \cup d
      BY <3>1, HandleDown
    <3>4. handle_joyevent(i, e).buttons[0] = was \cup now
      BY <1>1, <1>2, <1>3, <3>3
    <3>5. Downs(p, d) = <<e>> /\ AfterAll(i, <<e>>) = handle_joyevent(i, e)
      BY <2>2, <3>1, AfterAllOne DEF Downs
    <3>6. <<e>> \in Seq(ButtonEvents) /\ Passes(i, <<e>>, seen)
      BY <1>4, <3>2, <3>4, PassesOne
    <3> QED
      BY <3>3, <3>4, <3>5, <3>6
  <2> QED
    BY <2>1, <2>2
<1>6. /\ AfterAll(middle, Ups(p, r)).buttons[0] = now
      /\ Ups(p, r) \in Seq(ButtonEvents) /\ Passes(middle, Ups(p, r), seen)
  <2>1. CASE r = {}
    <3>1. Ups(p, r) = <<>> /\ AfterAll(middle, <<>>) = middle
      BY <2>1, AfterAllEmpty DEF Ups
    <3>2. middle.buttons[0] = now
      BY <1>3, <1>5, <2>1
    <3> QED
      BY <3>1, <3>2, PassesNone
  <2>2. CASE r # {}
    <3>1. PICK e : e = UpEvent(p, r)
      OBVIOUS
    <3>2. e \in ButtonEvents
      BY <3>1 DEF ButtonEvents
    <3>3. handle_joyevent(middle, e).buttons[p] = middle.buttons[p] \ r
      BY <1>5, <3>1, HandleUp
    <3>4. handle_joyevent(middle, e).buttons[0] = now
      BY <1>2, <1>3, <1>5, <3>3
    <3>5. Ups(p, r) = <<e>> /\ AfterAll(middle, <<e>>) = handle_joyevent(middle, e)
      BY <2>2, <3>1, AfterAllOne DEF Ups
    <3>6. <<e>> \in Seq(ButtonEvents) /\ Passes(middle, <<e>>, seen)
      BY <1>4, <1>5, <3>2, <3>4, PassesOne
    <3> QED
      BY <3>4, <3>5, <3>6
  <2> QED
    BY <2>1, <2>2
<1>7. u = Downs(p, d) \o Ups(p, r)
  <2>1. u = button_changes(p, now, was)
    BY <1>1, <1>2
  <2> QED
    BY <1>3, <2>1 DEF button_changes, Downs, Ups
<1>8. u \in Seq(ButtonEvents) /\ Passes(i, u, seen)
  BY <1>5, <1>6, <1>7, PassesConcat
<1>9. AfterAll(i, u).buttons[0] = now
  <2>1. PICK s \in Seq(ButtonEvents), t \in Seq(ButtonEvents) :
          s = Downs(p, d) /\ t = Ups(p, r)
    BY <1>5, <1>6
  <2>2. AfterAll(i, s \o t) = AfterAll(AfterAll(i, s), t)
    BY AfterAllConcat
  <2> QED
    BY <1>5, <1>6, <1>7, <2>1, <2>2
<1> QED
  BY <1>4, <1>8, <1>9 DEF Puts

\* What sync_player puts in the stream for player 1: the change whole, or nothing.
LEMMA Sync1Puts ==
  ASSUME NEW i \in InputState, NEW q \in Seq(ButtonEvents),
         NEW pad \in Pads, NEW was \in Pads, AfterAll(i, q).buttons[0] = was.buttons
  PROVE  \E u \in Seq(ButtonEvents) :
           /\ sync_player(q, 0, pad, was).queue = q \o u
           /\ Puts(AfterAll(i, q), u, pad.buttons)
<1>1. PICK u, j : u = button_changes(0, pad.buttons, was.buttons) /\ j = AfterAll(i, q)
  OBVIOUS
<1>2. j \in InputState /\ pad.buttons \in SUBSET Buttons
  BY <1>1, ButtonEventsAreEvents, AfterAllTyped DEF Pads
<1>3. CASE FitsIn(q, u)
  <2>1. sync_player(q, 0, pad, was).queue = q \o u
    BY <1>1, <1>3 DEF sync_player
  <2>2. u \in Seq(ButtonEvents) /\ Puts(j, u, pad.buttons)
    BY <1>1, <1>2, ChangesPut
  <2> QED
    BY <1>1, <2>1, <2>2
<1>4. CASE ~FitsIn(q, u)
  <2>1. sync_player(q, 0, pad, was).queue = q
    BY <1>1, <1>4 DEF sync_player
  <2>2. q \o <<>> = q
    BY ConcatEmptySeq
  <2>3. <<>> \in Seq(ButtonEvents) /\ Puts(j, <<>>, pad.buttons)
    BY PassesNone, AfterAllEmpty DEF Puts
  <2> QED
    BY <1>1, <2>1, <2>2, <2>3
<1> QED
  BY <1>3, <1>4

\* For player 2 it is events that player 1 does not see.
LEMMA Sync2Puts ==
  ASSUME NEW q \in Seq(ButtonEvents), NEW pad \in Pads, NEW was \in Pads
  PROVE  \E u \in Seq(Others) : sync_player(q, 1, pad, was).queue = q \o u
<1> DEFINE status == pad.connected # was.connected
<1>1. PICK e, q1, u : /\ e = StatusEvent(pad.connected)
                      /\ q1 = IF status THEN queue_event(q, e) ELSE q
                      /\ u = button_changes(1, pad.buttons, was.buttons)
  OBVIOUS
<1>2. PICK p \in Players : p = 1 /\ 0 \in Players \ {p}
  BY DEF Players
<1>3. \A b \in SUBSET Buttons : DownEvent(p, b) \in Others /\ UpEvent(p, b) \in Others
  <2> TAKE b \in SUBSET Buttons
  <2>1. DownEvent(p, b) \in ButtonEvents /\ UpEvent(p, b) \in ButtonEvents
    BY DEF ButtonEvents
  <2> QED
    BY <1>2, <2>1, HandleDown, HandleUp DEF Others
<1>4. e \in Others
  <2>1. pad.connected \in BOOLEAN
    BY DEF Pads
  <2>2. e \in ButtonEvents
    BY <1>1, <2>1 DEF ButtonEvents
  <2> QED
    BY <1>1, <2>1, <2>2, HandleStatus DEF Others
<1>5. u \in Seq(Others)
  <2>1. PICK d \in SUBSET Buttons, r \in SUBSET Buttons :
          d = pad.buttons \ was.buttons /\ r = was.buttons \ pad.buttons
    BY DEF Pads
  <2>2. u = Downs(p, d) \o Ups(p, r)
    <3>1. u = button_changes(p, pad.buttons, was.buttons)
      BY <1>1, <1>2
    <3> QED
      BY <2>1, <3>1 DEF button_changes, Downs, Ups
  <2>3. Downs(p, d) \in Seq(Others) /\ Ups(p, r) \in Seq(Others)
    <3>1. PICK down \in Others, up \in Others : down = DownEvent(p, d) /\ up = UpEvent(p, r)
      BY <1>3
    <3>2. <<down>> \in Seq(Others) /\ <<up>> \in Seq(Others) /\ <<>> \in Seq(Others)
      OBVIOUS
    <3> QED
      BY <3>1, <3>2 DEF Downs, Ups
  <2> QED
    BY <2>2, <2>3, ConcatProperties
<1>6. PICK v \in Seq(Others) : q1 = q \o v
  <2>1. q \o <<>> = q /\ <<>> \in Seq(Others)
    BY ConcatEmptySeq
  <2>2. CASE q1 = q
    BY <2>1, <2>2
  <2>3. CASE q1 # q
    <3>1. q1 = Append(q, e)
      BY <1>1, <2>3 DEF queue_event
    <3>2. e \in ButtonEvents
      BY <1>4 DEF Others
    <3>3. q1 = q \o <<e>> /\ <<e>> \in Seq(Others)
      BY <1>4, <3>1, <3>2, AppendIsConcat
    <3> QED
      BY <3>3
  <2> QED
    BY <2>2, <2>3
<1>7. sync_player(q, 1, pad, was).queue = IF FitsIn(q1, u) THEN q1 \o u ELSE q1
  BY <1>1 DEF sync_player
<1>8. (q \o v) \o u = q \o (v \o u) /\ v \o u \in Seq(Others)
  <2>1. v \in Seq(ButtonEvents) /\ u \in Seq(ButtonEvents)
    BY <1>5, SeqMonotonic DEF Others
  <2> QED
    BY <1>5, <2>1, ConcatAssociative, ConcatProperties
<1> QED
  BY <1>6, <1>7, <1>8

\* poll_state: player 1's events, then player 2's.
LEMMA PutsThenOthers ==
  ASSUME NEW i \in InputState, NEW u \in Seq(ButtonEvents), NEW v \in Seq(Others),
         NEW now, Puts(i, u, now)
  PROVE  u \o v \in Seq(ButtonEvents) /\ Puts(i, u \o v, now)
<1>1. PICK j : j = AfterAll(i, u) /\ j \in InputState
  BY ButtonEventsAreEvents, AfterAllTyped
<1>2. PICK seen : seen = OnTheWay(i, now) /\ i.buttons[0] \in seen /\ j.buttons[0] \in seen
  <2>1. now \subseteq now /\ now \subseteq i.buttons[0] \cup now
    OBVIOUS
  <2>2. j.buttons[0] \in SUBSET Buttons /\ j.buttons[0] \in {i.buttons[0], now}
    BY <1>1 DEF InputState, Players, Puts
  <2> QED
    BY <2>1, <2>2 DEF OnTheWay, Channel!OnTheWay
<1>3. v \in Seq(ButtonEvents) /\ AfterAll(j, v).buttons[0] = j.buttons[0] /\ Passes(j, v, seen)
  BY <1>1, <1>2, OthersPut
<1>4. u \o v \in Seq(ButtonEvents) /\ Passes(i, u \o v, seen)
  BY <1>1, <1>2, <1>3, PassesConcat DEF Puts
<1>5. AfterAll(i, u \o v).buttons[0] = j.buttons[0]
  BY <1>1, <1>3, AfterAllConcat
<1> QED
  BY <1>1, <1>2, <1>4, <1>5 DEF Puts

\* A change takes a slot for what is pressed and one for what is released.
LEMMA ChangesAreTwo ==
  ASSUME NEW p, NEW now, NEW was, NEW u, u = button_changes(p, now, was)
  PROVE  Len(u) \in Nat /\ Len(u) <= 2
<1>1. PICK E, d, r : /\ E = {DownEvent(p, now \ was), UpEvent(p, was \ now)}
                     /\ d = (IF now \ was # {} THEN <<DownEvent(p, now \ was)>> ELSE <<>>)
                     /\ r = (IF was \ now # {} THEN <<UpEvent(p, was \ now)>> ELSE <<>>)
  OBVIOUS
<1>2. /\ d \in Seq(E) /\ Len(d) \in Nat /\ Len(d) <= 1
      /\ r \in Seq(E) /\ Len(r) \in Nat /\ Len(r) <= 1
  <2>1. \A e \in E : <<e>> \in Seq(E) /\ Len(<<e>>) = 1
    OBVIOUS
  <2>2. <<>> \in Seq(E) /\ Len(<<>>) = 0
    OBVIOUS
  <2>3. DownEvent(p, now \ was) \in E /\ UpEvent(p, was \ now) \in E
    BY <1>1
  <2>4. d = <<>> \/ \E e \in E : d = <<e>>
    BY <1>1, <2>3
  <2>5. r = <<>> \/ \E e \in E : r = <<e>>
    BY <1>1, <2>3
  <2>6. d \in Seq(E) /\ (Len(d) = 0 \/ Len(d) = 1)
    BY <2>1, <2>2, <2>4
  <2>7. r \in Seq(E) /\ (Len(r) = 0 \/ Len(r) = 1)
    BY <2>1, <2>2, <2>5
  <2>8. 0 \in Nat /\ 1 \in Nat /\ 0 <= 1 /\ 1 <= 1
    OBVIOUS
  <2> QED
    BY <2>6, <2>7, <2>8
<1>3. u = d \o r
  BY <1>1 DEF button_changes
<1> QED
  BY <1>2, <1>3, ConcatProperties

\* A change for which there is room is queued, and the PSP will hold it.
AtOnce ==
  state'[0].buttons # state[0].buttons /\ complete' /\ inputEnabled'
    /\ queue_free_count(queue) >= 2
  => Upcoming'.buttons[0] = state'[0].buttons

LEMMA SetStateAtOnce ==
  ASSUME IInv, NEW player \in Players, NEW pad \in ReportedPads, NEW submitted,
         rjm_psp_host_set_state(player, pad, submitted)
  PROVE  AtOnce
<1> SUFFICES ASSUME state'[0].buttons # state[0].buttons, complete',
                    queue_free_count(queue) >= 2
             PROVE  Upcoming'.buttons[0] = state'[0].buttons
  BY DEF AtOnce
<1>1. PICK set : set = IF inputEnabled THEN pad ELSE NeutralPad
  OBVIOUS
<1>2. /\ state' = [state EXCEPT ![player] = set]
      /\ complete
      /\ last' = [last EXCEPT ![player] = sync_player(queue, player, set, last[player]).last]
  BY <1>1 DEF rjm_psp_host_set_state
<1>3. /\ state \in [Players -> ReportedPads] /\ last \in [Players -> Pads]
      /\ queue \in Seq(ButtonEvents) /\ 0 \in Players
  BY DEF IInv, TypeOK, SourcesOK, Players
<1>4. player = 0 /\ state'[0] = set
  BY <1>2, <1>3
<1>5. PICK was \in Pads : was = last[0]
  BY <1>3
<1>6. PICK u : u = button_changes(0, set.buttons, was.buttons)
  OBVIOUS
<1>7. FitsIn(queue, u)
  <2>1. Len(u) \in Nat /\ Len(u) <= 2
    BY <1>6, ChangesAreTwo
  <2>2. Len(queue) \in Nat /\ EVENT_QUEUE_SIZE \in Nat
    BY <1>3, LenProperties, PspInputAssumption
  <2>3. queue_free_count(queue) \in Int
    BY <2>2 DEF queue_free_count
  <2> QED
    BY <2>1, <2>3 DEF FitsIn
<1>8. sync_player(queue, 0, set, was).last.buttons = set.buttons
  <2>1. sync_player(queue, 0, set, was).last
          = [was EXCEPT !.connected = set.connected, !.buttons = set.buttons]
    BY <1>6, <1>7 DEF sync_player
  <2> QED
    BY <2>1 DEF Pads
<1>9. last'[0].buttons = set.buttons
  BY <1>2, <1>3, <1>4, <1>5, <1>8
<1>10. IInv'
  BY SetStateKeepsIInv
<1>11. Upcoming'.buttons[0] = last'[0].buttons
  BY <1>10 DEF IInv, Believed, Agrees
<1> QED
  BY <1>4, <1>9, <1>11

\* Such a growth of the queue is the channel's Put.
LEMMA PutStep ==
  ASSUME TypeOK, psp' = psp, state'[0].buttons \in SUBSET Buttons,
         complete' = complete, AtOnce,
         inputEnabled' = inputEnabled \/ ~inputEnabled',
         NEW u \in Seq(ButtonEvents), queue' = queue \o u,
         Puts(AfterAll(psp, queue), u, state'[0].buttons)
  PROVE  Channel!Put
<1>1. PICK i \in InputState, old \in Seq(ButtonEvents) : i = psp /\ old = queue
  BY DEF TypeOK, SourcesOK
<1>2. PICK q, j, ahead, longer, now :
        /\ q = old \o u /\ j = AfterAll(i, old) /\ now = state'[0].buttons
        /\ ahead = AheadOf(i, old) /\ longer = AheadOf(i, q)
  OBVIOUS
<1>3. j \in InputState /\ q \in Seq(ButtonEvents) /\ Len(old) \in Nat /\ Len(u) \in Nat
  BY <1>2, ButtonEventsAreEvents, AfterAllTyped, ConcatProperties, LenProperties
<1>4. /\ ahead \in Seq(SUBSET Buttons) /\ Len(ahead) = Len(old)
      /\ longer \in Seq(SUBSET Buttons) /\ Len(longer) = Len(old) + Len(u)
      /\ \A n \in 1..Len(old) : longer[n] = ahead[n]
      /\ \A n \in 1..Len(u) : longer[Len(old) + n] = AheadOf(j, u)[n]
  <2>1. ahead \in Seq(SUBSET Buttons) /\ Len(ahead) = Len(old) /\ longer \in Seq(SUBSET Buttons)
    BY <1>2, <1>3, AheadIs
  <2> QED
    BY <1>2, <2>1, AheadConcat
<1>5. /\ j.buttons[0] = IF ahead = <<>> THEN i.buttons[0] ELSE ahead[Len(ahead)]
      /\ AfterAll(i, q).buttons[0]
           = IF longer = <<>> THEN i.buttons[0] ELSE longer[Len(longer)]
      /\ AfterAll(i, q) = AfterAll(j, u)
  BY <1>2, <1>3, AheadNewest, AfterAllConcat
<1>6. ASSUME NEW n \in Len(ahead) + 1..Len(longer)
      PROVE  longer[n] \in Channel!OnTheWay(j.buttons[0], now)
  <2>1. PICK m \in 1..Len(u) : n = Len(old) + m
    <3>1. n - Len(old) \in 1..Len(u) /\ n = Len(old) + (n - Len(old))
      BY <1>3, <1>4
    <3> QED
      BY <3>1
  <2> QED
    BY <1>1, <1>2, <1>4, <2>1 DEF Puts, Passes, OnTheWay
<1>7. psp' = i /\ queue' = q /\ AheadOf(psp, queue)' = longer
  BY <1>1, <1>2
<1>8. AfterAll(j, u).buttons[0] \in {j.buttons[0], now}
  BY <1>1, <1>2 DEF Puts
<1>9. Channel!Newest = j.buttons[0] /\ Channel!Newest' = AfterAll(j, u).buttons[0]
  BY <1>1, <1>2, <1>5, <1>7 DEF Channel!Newest
<1>10. state'[0].buttons # state[0].buttons /\ (complete' /\ inputEnabled')
         /\ queue_free_count(queue) >= 2 => AfterAll(j, u).buttons[0] = now
  BY <1>2, <1>5, <1>7 DEF AtOnce, Upcoming
<1>11. (complete /\ inputEnabled)' \in {complete /\ inputEnabled, FALSE}
  <2>1. CASE inputEnabled' = inputEnabled
    <3>1. (complete /\ inputEnabled)' = (complete /\ inputEnabled)
      BY <2>1, Zenon
    <3> QED
      BY <3>1, Zenon
  <2>2. CASE ~inputEnabled'
    <3>1. (complete /\ inputEnabled)' = FALSE
      BY <2>2, Zenon
    <3> QED
      BY <3>1, Zenon
  <2> QED
    BY <2>1, <2>2
<1>12. (queue_free_count(queue) >= 2)' \in BOOLEAN
  <2>1. queue_free_count(q) \in Int
    <3>1. Len(q) \in Nat
      BY <1>2, <1>3, LenProperties
    <3> QED
      BY <3>1, PspInputAssumption DEF queue_free_count
  <2>2. (queue_free_count(queue) >= 2)' = (queue_free_count(q) >= 2)
    BY <1>7 DEF queue_free_count
  <2>3. PICK a \in Int : a = queue_free_count(q)
    BY <2>1
  <2>4. (a >= 2) \in BOOLEAN
    OBVIOUS
  <2> QED
    BY <2>2, <2>3, <2>4
<1>13. /\ AheadOf(psp, queue) = ahead
       /\ state'[0].buttons = now
       /\ UNCHANGED psp.buttons[0]
  BY <1>1, <1>2
<1>14. /\ Len(longer) >= Len(ahead)
       /\ \A n \in 1..Len(ahead) : longer[n] = ahead[n]
  BY <1>3, <1>4
<1>15. /\ state'[0].buttons # state[0].buttons /\ (complete /\ inputEnabled)'
            /\ queue_free_count(queue) >= 2 => Channel!Newest' = now
       /\ Channel!Newest' \in {Channel!Newest, now}
       /\ \A n \in Len(ahead) + 1..Len(longer) :
            longer[n] \in Channel!OnTheWay(Channel!Newest, now)
  BY <1>6, <1>8, <1>9, <1>10
<1> QED
  BY <1>7, <1>11, <1>12, <1>13, <1>14, <1>15 DEF Channel!Put

\* A step that changes none of what the channel shows.
LEMMA StandsStill ==
  ASSUME queue' = queue, state'[0].buttons = state[0].buttons,
         psp'.buttons[0] = psp.buttons[0],
         AheadOf(psp', queue') = AheadOf(psp, queue),
         (complete' /\ inputEnabled') = (complete /\ inputEnabled)
  PROVE  UNCHANGED Channel!vars
<1>1. AheadOf(psp, queue)' = AheadOf(psp', queue')
  BY DEF AheadOf
<1>2. (queue_free_count(queue) >= 2)' = (queue_free_count(queue) >= 2)
  BY DEF queue_free_count
<1> QED
  BY <1>1, <1>2 DEF Channel!vars

\* The controllers hold nothing yet, and nothing is queued.
LEMMA InitChannel == Init => Channel!Init
<1> SUFFICES ASSUME Init PROVE Channel!Init
  OBVIOUS
<1>1. state[0].buttons = {} /\ psp.buttons[0] = {} /\ queue = <<>>
  BY DEF Init, Neutral, NeutralPad, Players
<1>2. ~complete /\ (queue_free_count(queue) >= 2) \in BOOLEAN
  BY DEF Init
<1> QED
  BY <1>1, <1>2, AheadEmpty DEF Channel!Init

\* A controller reports: what fits is put in, whole.
LEMMA SetStatePuts ==
  ASSUME IInv, NEW player \in Players, NEW pad \in ReportedPads, NEW submitted,
         rjm_psp_host_set_state(player, pad, submitted)
  PROVE  Channel!Put
<1> PICK set : set = IF inputEnabled THEN pad ELSE NeutralPad
  OBVIOUS
<1>1. set \in Pads
  BY JoyEventsAssumption DEF NeutralPad, ReportedPads, Pads
<1>2. /\ state' = [state EXCEPT ![player] = set]
      /\ psp' = psp
      /\ complete => queue' = sync_player(queue, player, set, last[player]).queue
      /\ ~complete => queue' = queue
  BY DEF rjm_psp_host_set_state
<1>3. PICK i \in InputState, old \in Seq(ButtonEvents), was0 \in Pads, was1 \in Pads :
        i = psp /\ old = queue /\ was0 = last[0] /\ was1 = last[1]
  BY DEF IInv, TypeOK, SourcesOK, Players
<1>4. /\ state \in [Players -> ReportedPads]
      /\ state'[0] = IF player = 0 THEN set ELSE state[0]
  BY <1>2 DEF IInv, TypeOK, Players
<1>5. state'[0].buttons \in SUBSET Buttons
  BY <1>1, <1>4 DEF ReportedPads, Pads, Players
<1>6. \E u \in Seq(ButtonEvents) :
        queue' = old \o u /\ Puts(AfterAll(i, old), u, state'[0].buttons)
  <2>1. PICK j : j = AfterAll(i, old) /\ j \in InputState
    BY ButtonEventsAreEvents, AfterAllTyped
  <2>2. Puts(j, <<>>, state'[0].buttons) /\ <<>> \in Seq(ButtonEvents)
    BY PassesNone, AfterAllEmpty DEF Puts
  <2>3. CASE ~complete
    <3>1. queue' = old \o <<>>
      BY <1>2, <1>3, <2>3, ConcatEmptySeq
    <3> QED
      BY <2>1, <2>2, <3>1
  <2>4. CASE complete /\ player = 0
    <3>1. queue' = sync_player(old, 0, set, was0).queue /\ state'[0] = set
      BY <1>2, <1>3, <1>4, <2>4
    <3>2. AfterAll(i, old).buttons[0] = was0.buttons
      BY <1>3, <2>4 DEF IInv, Believed, Upcoming, Agrees
    <3>3. PICK u \in Seq(ButtonEvents) :
            /\ sync_player(old, 0, set, was0).queue = old \o u
            /\ Puts(AfterAll(i, old), u, set.buttons)
      BY <1>1, <3>2, Sync1Puts
    <3> QED
      BY <3>1, <3>3
  <2>5. CASE complete /\ player = 1
    <3>1. queue' = sync_player(old, 1, set, was1).queue
      BY <1>2, <1>3, <2>5
    <3>2. PICK v \in Seq(Others) : sync_player(old, 1, set, was1).queue = old \o v
      BY <1>1, Sync2Puts
    <3>3. /\ <<>> \o v \in Seq(ButtonEvents) /\ Puts(j, <<>> \o v, state'[0].buttons)
      BY <2>1, <2>2, PutsThenOthers
    <3>4. <<>> \o v = v
      BY ConcatEmptySeq
    <3> QED
      BY <2>1, <3>1, <3>2, <3>3, <3>4
  <2> QED
    BY <2>3, <2>4, <2>5 DEF Players, IInv, TypeOK
<1>7. AtOnce
  BY SetStateAtOnce
<1>8. complete' = complete /\ inputEnabled' = inputEnabled /\ TypeOK
  BY DEF rjm_psp_host_set_state, IInv
<1> QED
  BY <1>2, <1>3, <1>5, <1>6, <1>7, <1>8, PutStep

\* The portal lets go of everything, and the queue is left to the next poll.
LEMMA SetEnabledPuts ==
  ASSUME IInv, rjm_psp_host_set_enabled
  PROVE  Channel!Put
<1>1. /\ state' = [p \in Players |-> NeutralPad] /\ psp' = psp /\ queue' = queue
  BY DEF rjm_psp_host_set_enabled
<1>2. state'[0].buttons \in SUBSET Buttons
  BY <1>1 DEF NeutralPad, Players
<1>3. /\ <<>> \in Seq(ButtonEvents)
      /\ Puts(AfterAll(psp, queue), <<>>, state'[0].buttons)
  BY PassesNone, AfterAllEmpty DEF Puts
<1>4. queue' = queue \o <<>>
  <2>1. queue \in Seq(ButtonEvents)
    BY DEF IInv, TypeOK, SourcesOK
  <2> QED
    BY <1>1, <2>1, ConcatEmptySeq
<1>5. complete' = complete /\ ~inputEnabled' /\ TypeOK
  BY DEF rjm_psp_host_set_enabled, IInv
<1>6. AtOnce
  BY <1>5 DEF AtOnce
<1> QED
  BY <1>1, <1>2, <1>3, <1>4, <1>5, <1>6, PutStep

\* The aim is not a button.
LEMMA SetAimStandsStill ==
  ASSUME NEW new, NEW submitted, rjm_psp_host_set_aim(new, submitted)
  PROVE  UNCHANGED Channel!vars
<1>1. UNCHANGED <<queue, state, psp, complete, inputEnabled>>
  BY DEF rjm_psp_host_set_aim
<1> QED
  BY <1>1, StandsStill

\* The timer: what had no room is put in, of player 1 and then of player 2.
LEMMA TimerPuts ==
  ASSUME IInv, NEW due \in BOOLEAN, NEW submitted, usb_timer(due, submitted)
  PROVE  Channel!Put \/ UNCHANGED Channel!vars
<1>1. /\ complete /\ UNCHANGED <<state, psp, complete, inputEnabled>>
      /\ due => queue' = sync_player(sync_player(queue, 0, state[0], last[0]).queue,
                                     1, state[1], last[1]).queue
      /\ ~due => queue' = queue
  BY DEF usb_timer, poll_state
<1>2. PICK i \in InputState, old \in Seq(ButtonEvents), pad0 \in Pads, pad1 \in Pads,
           was0 \in Pads, was1 \in Pads :
        /\ i = psp /\ old = queue /\ pad0 = state[0] /\ pad1 = state[1]
        /\ was0 = last[0] /\ was1 = last[1]
  BY DEF IInv, TypeOK, SourcesOK, Players, ReportedPads
<1>3. CASE due
  <2>1. AfterAll(i, old).buttons[0] = was0.buttons
    BY <1>1, <1>2 DEF IInv, Believed, Upcoming, Agrees
  <2>2. PICK u \in Seq(ButtonEvents) :
          /\ sync_player(old, 0, pad0, was0).queue = old \o u
          /\ Puts(AfterAll(i, old), u, pad0.buttons)
    BY <2>1, Sync1Puts
  <2>3. PICK q \in Seq(ButtonEvents) : q = old \o u
    BY ConcatProperties
  <2>4. PICK v \in Seq(Others) : sync_player(q, 1, pad1, was1).queue = q \o v
    BY Sync2Puts
  <2>5. queue' = (old \o u) \o v
    BY <1>1, <1>2, <1>3, <2>2, <2>3, <2>4
  <2>6. PICK j \in InputState : j = AfterAll(i, old)
    BY ButtonEventsAreEvents, AfterAllTyped
  <2>7. u \o v \in Seq(ButtonEvents) /\ Puts(j, u \o v, pad0.buttons)
    BY <2>2, <2>6, PutsThenOthers
  <2>8. v \in Seq(ButtonEvents)
    BY SeqMonotonic DEF Others
  <2>9. (old \o u) \o v = old \o (u \o v)
    BY <2>8, ConcatAssociative
  <2>10. state'[0].buttons = pad0.buttons /\ pad0.buttons \in SUBSET Buttons
    BY <1>1, <1>2 DEF Pads
  <2>11. TypeOK /\ AtOnce
    BY <1>1 DEF IInv, AtOnce
  <2> QED
    BY <1>1, <1>2, <2>5, <2>6, <2>7, <2>9, <2>10, <2>11, PutStep
<1>4. CASE ~due
  BY <1>1, <1>4, StandsStill
<1> QED
  BY <1>3, <1>4

\* A transfer completes: the PSP takes the oldest, and again if the Pico thinks
\* it has not; an axis or the aim moves nothing.
LEMMA EventSentReceives ==
  ASSUME IInv, NEW success \in BOOLEAN, NEW delivered \in BOOLEAN, NEW submitted,
         event_sent(success, delivered, submitted)
  PROVE  Channel!Receive \/ UNCHANGED Channel!vars
<1>1. /\ inflight # Idle
      /\ success => delivered
      /\ psp' = IF delivered THEN handle_joyevent(psp, inflight) ELSE psp
      /\ queue' = IF success /\ inflight.type \in {"down", "up", "status"}
                  THEN Tail(queue) ELSE queue
      /\ UNCHANGED <<state, complete, inputEnabled>>
  BY DEF event_sent, Busy
<1>2. PICK i \in InputState, old \in Seq(ButtonEvents) :
        i = psp /\ old = queue /\ inflight \in Events
  BY <1>1 DEF IInv, TypeOK, SourcesOK
<1>3. (inflight.type \in {"down", "up", "status"}) <=> inflight \in ButtonEvents
  BY <1>2, EventKinds DEF Events
<1>4. CASE ~delivered
  BY <1>1, <1>4, StandsStill
<1>5. CASE delivered /\ inflight \notin ButtonEvents
  <2>1. queue' = queue /\ psp' = handle_joyevent(i, inflight)
    BY <1>1, <1>2, <1>3, <1>5
  <2>2. psp' \in InputState /\ SameHeld(i, psp')
    BY <1>2, <1>5, <2>1, HandleFrame DEF SameHeld
  <2>3. AheadOf(i, old) = AheadOf(psp', old)
    BY <2>2, AheadSame
  <2>4. psp'.buttons[0] = i.buttons[0]
    BY <2>2 DEF SameHeld
  <2> QED
    BY <1>1, <1>2, <2>1, <2>3, <2>4, StandsStill
<1>6. CASE delivered /\ inflight \in ButtonEvents
  <2>1. /\ old # <<>> /\ psp' = handle_joyevent(i, Head(old))
    BY <1>1, <1>2, <1>6 DEF IInv, InflightIsKept
  <2>2. PICK once : once = handle_joyevent(i, Head(old))
    OBVIOUS
  <2>3. /\ AheadOf(i, old) # <<>>
        /\ Head(AheadOf(i, old)) = once.buttons[0]
        /\ AheadOf(once, Tail(old)) = Tail(AheadOf(i, old))
        /\ AheadOf(once, old) = AheadOf(i, old)
    BY <2>1, <2>2, AheadHead
  <2>4. queue' = Tail(old) \/ queue' = old
    BY <1>1, <1>2
  <2>5. AheadOf(psp, queue)' = AheadOf(psp', queue')
    BY DEF AheadOf
  <2>6. AheadOf(psp, queue)' \in {AheadOf(psp, queue), Tail(AheadOf(psp, queue))}
    BY <1>2, <2>1, <2>2, <2>3, <2>4, <2>5
  <2>7. (queue_free_count(queue) >= 2)' \in {queue_free_count(queue) >= 2, TRUE}
    <3>1. Len(old) \in Nat /\ Len(Tail(old)) = Len(old) - 1
      BY <2>1, LenProperties, HeadTailProperties
    <3>2. /\ queue_free_count(old) \in Int /\ queue_free_count(Tail(old)) \in Int
          /\ queue_free_count(Tail(old)) >= queue_free_count(old)
      BY <3>1, PspInputAssumption DEF queue_free_count
    <3>3. PICK a \in Int, b \in Int :
            a = queue_free_count(old) /\ b = queue_free_count(Tail(old)) /\ b >= a
      BY <3>2
    <3>4. (a >= 2) \in {a >= 2, TRUE} /\ (b >= 2) \in {a >= 2, TRUE}
      <4>1. a >= 2 => b >= 2
        BY <3>3
      <4>2. (b >= 2) = (a >= 2) \/ (b >= 2) = TRUE
        BY <4>1
      <4> QED
        BY <4>2
    <3>5. (queue_free_count(queue) >= 2) = (a >= 2)
      BY <1>2, <3>3
    <3>6. (queue_free_count(queue) >= 2)' = (queue_free_count(queue') >= 2)
      BY DEF queue_free_count
    <3>7. CASE queue' = old
      <4>1. (queue_free_count(queue') >= 2) = (a >= 2)
        BY <3>3, <3>7
      <4> QED
        BY <3>4, <3>5, <3>6, <4>1
    <3>8. CASE queue' = Tail(old)
      <4>1. (queue_free_count(queue') >= 2) = (b >= 2)
        BY <3>3, <3>8
      <4> QED
        BY <3>4, <3>5, <3>6, <4>1
    <3> QED
      BY <2>4, <3>7, <3>8
  <2> QED
    BY <1>1, <1>2, <2>1, <2>2, <2>3, <2>6, <2>7 DEF Channel!Receive
<1> QED
  BY <1>4, <1>5, <1>6

\* The link comes up with nothing queued and nothing held.
LEMMA HelloPlugs ==
  ASSUME IInv, hello_response_sent
  PROVE  Channel!Plug \/ UNCHANGED Channel!vars
<1>1. /\ ~complete /\ complete' = TRUE
      /\ queue = <<>> /\ queue' = queue /\ psp = Neutral
      /\ UNCHANGED <<state, psp, inputEnabled>>
  BY DEF hello_response_sent, inputs, IInv, Unlinked
<1>2. CASE inputEnabled
  <2>1. AheadOf(psp, queue) = <<>> /\ AheadOf(psp, queue)' = <<>>
    BY <1>1, AheadEmpty
  <2>2. psp.buttons[0] = {}
    BY <1>1 DEF Neutral, Players
  <2>3. (queue_free_count(queue) >= 2)' = (queue_free_count(queue) >= 2)
    BY <1>1 DEF queue_free_count
  <2> QED
    BY <1>1, <1>2, <2>1, <2>2, <2>3 DEF Channel!Plug
<1>3. CASE ~inputEnabled
  BY <1>1, <1>3, StandsStill
<1> QED
  BY <1>2, <1>3

LEMMA ResetUnplugs ==
  ASSUME IInv, reset_host
  PROVE  Channel!Unplug
<1>1. queue' = <<>> /\ psp' = Neutral /\ state' = state /\ complete' = FALSE
  BY DEF reset_host, inputs
<1>2. AheadOf(psp, queue)' = <<>>
  BY <1>1, AheadEmpty
<1>3. psp'.buttons[0] = {}
  BY <1>1 DEF Neutral, Players
<1> QED
  BY <1>1, <1>2, <1>3 DEF Channel!Unplug

\* Every step is a step of the channel, or one it does not see.
LEMMA StepImplements == IInv /\ [Next]_vars => [Channel!Next]_Channel!vars
<1> SUFFICES ASSUME IInv, [Next]_vars PROVE [Channel!Next]_Channel!vars
  OBVIOUS
<1>1. CASE Controller
  BY <1>1, SetStatePuts, SetAimStandsStill, SetEnabledPuts DEF Controller, Channel!Next
<1>2. CASE Usb
  BY <1>2, EventSentReceives, TimerPuts DEF Usb, Channel!Next
<1>3. CASE Link
  BY <1>3, HelloPlugs, ResetUnplugs DEF Link, Channel!Next
<1>4. CASE UNCHANGED vars
  <2>1. UNCHANGED <<queue, state, psp, complete, inputEnabled>>
    BY <1>4 DEF vars
  <2> QED
    BY <2>1, StandsStill
<1> QED
  BY <1>1, <1>2, <1>3, <1>4 DEF Next

\* psp_host.c's queue, full ring, retries and polls are a channel for player 1's
\* buttons: the PSP passes through what was put in, in order, skipping none,
\* and sees no release ahead of its press.
THEOREM PadChannelImplemented == Spec => ImplementsPadChannel
<1>1. Init => Channel!Init
  BY InitChannel
<1>2. IInv /\ [Next]_vars => [Channel!Next]_Channel!vars
  BY StepImplements
<1> QED
  BY <1>1, <1>2, InputInvariant, PTL DEF Spec, ImplementsPadChannel, Channel!Spec

=============================================================================
