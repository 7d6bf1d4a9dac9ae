--------------------------- MODULE Rp2040InputProofs ---------------------------
(***************************************************************************)
(* Theorems about the input side of the RP2040-Zero, for every set of      *)
(* buttons, queue size, deadband and set of profiles: ReleasedUnlessLost   *)
(* and GunSurvivesOverflow of the stream, PortReadRight and                *)
(* OneSwitchPerStart of the port.                                          *)
(*                                                                         *)
(* The stream's two are inductive with the fact that nothing is queued     *)
(* without a link.  What a poll adds to the queue is followed part by      *)
(* part: a prefix of the changes, the gun's report or nothing, a prefix of *)
(* the repeated buttons.  The port's need that a player who has switched   *)
(* the profile and not let go of START is in a chord.                      *)
(***************************************************************************)
EXTENDS Rp2040Input, JoyEventsProofs

Readings == AimsAt \cup {NoLight, NoGun}
Flags == {Unknown, 0, 1}
HeldType ==
  [pad : [Players -> Pads], p2_present : BOOLEAN, gun : Readings, music : BOOLEAN]

StreamTypeOK ==
  /\ held \in HeldType
  /\ complete \in BOOLEAN
  /\ queue \in Seq(Events)
  /\ inflight \in {Idle} \cup Events
  /\ last \in [Players -> Pads]
  /\ present \in Flags
  /\ music \in Flags
  /\ gun \in Readings
  /\ lit \in AimsAt \cup {NoGun}
  /\ psp \in InputState
  /\ dropped \in BOOLEAN
  /\ failed \in BOOLEAN

Unlinked == ~complete => queue = <<>> /\ inflight = Idle /\ psp = Neutral

\* What the two properties say of an input state to come.
Released(input, pads, flag) ==
  /\ \A p \in Players : input.buttons[p] \subseteq pads[p].buttons
  /\ flag # Unknown => input.p2_connected = (flag = 1)
AimIs(input, reading) ==
  input.aim = IF reading = NoGun THEN ReleaseEvent ELSE GunEvent(reading)
MusicIs(input, flag) == flag # Unknown => input.music = (flag = 1)

StreamInv ==
  /\ StreamTypeOK
  /\ Unlinked
  /\ complete /\ ~dropped /\ ~failed => Released(Upcoming, last, present)
  /\ complete /\ ~failed => AimIs(Upcoming, gun) /\ MusicIs(Upcoming, music)

-----------------------------------------------------------------------------
(* The queue.                                                              *)

NoEvents == <<>>
InFlight(busy) == IF busy THEN <<inflight>> ELSE NoEvents

\* No event is of two kinds.
LEMMA KindsDiffer ==
  /\ (ButtonEvents \cup AnalogEvents) \cap AimEvents = {}
  /\ (ButtonEvents \cup AnalogEvents) \cap MusicEvents = {}
  /\ AimEvents \cap ButtonEvents = {} /\ AimEvents \cap MusicEvents = {}
  /\ AnalogEvents \cap ButtonEvents = {} /\ MusicEvents \cap ButtonEvents = {}
  /\ Idle \notin Events
<1>1. ASSUME NEW e
      PROVE  /\ e \in ButtonEvents => e.type \in {"down", "up", "status"}
             /\ e \in AnalogEvents => e.type = "analog"
             /\ e \in AimEvents => e.type \in {"aim", "offscreen", "release"}
             /\ e \in MusicEvents => e.type = "music"
  BY DEF ButtonEvents, AnalogEvents, AimEvents, MusicEvents, DownEvent, UpEvent,
         StatusEvent, AnalogEvent, AimEvent, OffscreenEvent, ReleaseEvent, MusicEvent
<1>2. Idle.type = "none"
  BY DEF Idle
<1> QED
  BY <1>1, <1>2 DEF Events

\* What fits of the events is appended: all of them, or as many as there is
\* room for.
LEMMA Enqueue ==
  ASSUME EVENT_QUEUE_SIZE \in Nat, NEW E, NEW q \in Seq(E), NEW events \in Seq(E)
  PROVE  \E n \in 0..Len(events) :
           /\ enqueue(q, events) = q \o SubSeq(events, 1, n)
           /\ Fits(q, events) => n = Len(events)
           /\ Len(events) >= 1 => (n >= 1 <=> Len(q) + 1 <= Free)
<1>1. PICK l, k, f : l = Len(events) /\ k = Len(q) /\ f = Free
  OBVIOUS
<1>2. l \in Nat /\ k \in Nat /\ f \in Int
  BY <1>1, LenProperties DEF Free
<1>3. PICK n : n = IF l <= f - k THEN l ELSE IF f - k >= 0 THEN f - k ELSE 0
  OBVIOUS
<1>4. /\ n \in 0..l
      /\ k + l <= f => n = l
      /\ l >= 1 => (n >= 1 <=> k + 1 <= f)
  BY <1>2, <1>3
<1>5. enqueue(q, events) = q \o SubSeq(events, 1, n)
  <2>1. CASE l <= f - k
    BY <1>1, <1>3, <2>1 DEF enqueue
  <2>2. CASE ~(l <= f - k) /\ f - k >= 0
    BY <1>1, <1>3, <2>2 DEF enqueue
  <2>3. CASE ~(l <= f - k) /\ ~(f - k >= 0)
    <3>1. enqueue(q, events) = q \o SubSeq(events, 1, f - k)
      BY <1>1, <2>3 DEF enqueue
    <3>2. n = 0 /\ f - k \in Int /\ f - k < 1
      BY <1>2, <1>3, <2>3
    <3>3. SubSeq(events, 1, f - k) = <<>>
      BY <3>2, SubSeqEmpty
    <3>4. SubSeq(events, 1, 0) = <<>>
      BY SubSeqEmpty
    <3> QED
      BY <3>1, <3>2, <3>3, <3>4
  <2> QED
    BY <2>1, <2>2, <2>3
<1> QED
  BY <1>1, <1>4, <1>5 DEF Fits

\* Taking the head out of the queue and into the transfer changes nothing of
\* what is to come.
LEMMA ProcessEventQueue ==
  ASSUME NEW x, NEW q \in Seq(Events), NEW busy \in BOOLEAN, NEW submitted,
         busy => inflight \in Events,
         process_event_queue(q, busy, submitted)
  PROVE  /\ queue' \in Seq(Events)
         /\ inflight' \in {Idle} \cup Events
         /\ AfterAll(x, InFlight(Busy)' \o queue')
              = AfterAll(AfterAll(x, InFlight(busy)), q)
<1>0. NoEvents \in Seq(Events) /\ NoEvents = <<>>
  BY DEF NoEvents
<1>1. CASE complete /\ ~busy /\ q # <<>> /\ submitted
  <2>1. queue' = Tail(q) /\ inflight' = Head(q)
    BY <1>1 DEF process_event_queue
  <2>2. Tail(q) \in Seq(Events) /\ Head(q) \in Events
    BY <1>1, HeadTailProperties
  <2>3. InFlight(Busy)' = <<Head(q)>> /\ InFlight(busy) = NoEvents
    BY <1>1, <2>1, <2>2, KindsDiffer DEF InFlight, Busy
  <2>4. <<Head(q)>> \in Seq(Events)
    BY <2>2
  <2>5. AfterAll(x, <<Head(q)>> \o Tail(q)) = AfterAll(AfterAll(x, <<Head(q)>>), Tail(q))
    BY <2>2, <2>4, AfterAllConcat
  <2>6. AfterAll(x, <<Head(q)>>) = handle_joyevent(x, Head(q))
    BY AfterAllOne
  <2>7. AfterAll(x, q) = AfterAll(handle_joyevent(x, Head(q)), Tail(q))
    BY <1>1, AfterAllHead
  <2>8. AfterAll(x, NoEvents) = x
    BY AfterAllEmpty DEF NoEvents
  <2> QED
    BY <2>1, <2>2, <2>3, <2>5, <2>6, <2>7, <2>8
<1>2. CASE ~(complete /\ ~busy /\ q # <<>> /\ submitted)
  <2>1. queue' = q /\ inflight' = IF busy THEN inflight ELSE Idle
    BY <1>2 DEF process_event_queue
  <2>2. InFlight(Busy)' = InFlight(busy)
    BY <2>1, KindsDiffer DEF InFlight, Busy
  <2>3. InFlight(busy) \in Seq(Events)
    BY <1>0 DEF InFlight
  <2>4. AfterAll(x, InFlight(busy) \o q) = AfterAll(AfterAll(x, InFlight(busy)), q)
    BY <2>3, AfterAllConcat
  <2> QED
    BY <2>1, <2>2, <2>4
<1> QED
  BY <1>1, <1>2

-----------------------------------------------------------------------------
(* What a poll has to say.                                                 *)

PadEvents == ButtonEvents \cup AnalogEvents
Changes == MusicChange \o PadChanges(0) \o PresenceChange \o PadChanges(1)

\* An event that is made on a condition.
When(c, e) == IF c THEN <<e>> ELSE NoEvents

LEMMA Optional ==
  ASSUME NEW E, NEW e \in E, NEW c \in BOOLEAN, NEW i
  PROVE  /\ When(c, e) \in Seq(E)
         /\ c => AfterAll(i, When(c, e)) = handle_joyevent(i, e)
         /\ ~c => AfterAll(i, When(c, e)) = i
<1>1. <<e>> \in Seq(E) /\ AfterAll(i, <<e>>) = handle_joyevent(i, e)
  BY AfterAllOne
<1>2. NoEvents \in Seq(E) /\ AfterAll(i, NoEvents) = i
  BY AfterAllEmpty DEF NoEvents
<1> QED
  BY <1>1, <1>2 DEF When

\* A press, then a release, of what has changed.
Downs(p, b) == When(b # {}, DownEvent(p, b))
Ups(p, b) == When(b # {}, UpEvent(p, b))

PadDownUp(p, new, old) ==
  Downs(p, new.buttons \ old.buttons) \o Ups(p, old.buttons \ new.buttons)

LEMMA DownUp ==
  ASSUME NEW i \in InputState, NEW p \in Players, NEW new \in Pads, NEW old \in Pads,
         NEW s, s = PadDownUp(p, new, old)
  PROVE  /\ s \in Seq(ButtonEvents)
         /\ AfterAll(i, s) \in InputState
         /\ i.buttons[p] \subseteq old.buttons => AfterAll(i, s).buttons[p] \subseteq new.buttons
         /\ \A r \in Players \ {p} : AfterAll(i, s).buttons[r] = i.buttons[r]
         /\ AfterAll(i, s).p2_connected = i.p2_connected
<1>0. PICK now, was, d, u :
        /\ now = new.buttons /\ was = old.buttons
        /\ d = Downs(p, now \ was) /\ u = Ups(p, was \ now)
  OBVIOUS
<1> now \in SUBSET Buttons /\ was \in SUBSET Buttons
  BY <1>0 DEF Pads
<1>1. PICK e, f, c, g : /\ e = DownEvent(p, now \ was) /\ f = UpEvent(p, was \ now)
                        /\ c = (now \ was # {}) /\ g = (was \ now # {})
  OBVIOUS
<1>2. e \in ButtonEvents /\ f \in ButtonEvents /\ c \in BOOLEAN /\ g \in BOOLEAN
  BY <1>1 DEF ButtonEvents
<1>3. d = When(c, e) /\ u = When(g, f)
  BY <1>0, <1>1 DEF Downs, Ups
<1>4. PICK j : j = AfterAll(i, d)
  OBVIOUS
<1>5. d \in Seq(ButtonEvents) /\ (c => j = handle_joyevent(i, e)) /\ (~c => j = i)
  BY <1>2, <1>3, <1>4, Optional
<1>6. /\ j \in InputState
      /\ j.buttons[p] \subseteq i.buttons[p] \cup (now \ was)
      /\ \A r \in Players \ {p} : j.buttons[r] = i.buttons[r]
      /\ j.p2_connected = i.p2_connected
  <2>1. /\ handle_joyevent(i, e) \in InputState
        /\ handle_joyevent(i, e).buttons[p] = i.buttons[p] \cup (now \ was)
        /\ \A r \in Players \ {p} : handle_joyevent(i, e).buttons[r] = i.buttons[r]
        /\ handle_joyevent(i, e).p2_connected = i.p2_connected
    BY <1>1, HandleDown
  <2> QED
    BY <1>2, <1>5, <2>1
<1>7. /\ u \in Seq(ButtonEvents)
      /\ g => AfterAll(j, u) = handle_joyevent(j, f)
      /\ ~g => AfterAll(j, u) = j
  BY <1>2, <1>3, Optional
<1>8. /\ AfterAll(j, u) \in InputState
      /\ AfterAll(j, u).buttons[p] \subseteq j.buttons[p] \ (was \ now)
      /\ \A r \in Players \ {p} : AfterAll(j, u).buttons[r] = j.buttons[r]
      /\ AfterAll(j, u).p2_connected = j.p2_connected
  <2>1. /\ handle_joyevent(j, f) \in InputState
        /\ handle_joyevent(j, f).buttons[p] = j.buttons[p] \ (was \ now)
        /\ \A r \in Players \ {p} : handle_joyevent(j, f).buttons[r] = j.buttons[r]
        /\ handle_joyevent(j, f).p2_connected = j.p2_connected
    BY <1>1, <1>6, HandleUp
  <2>2. CASE g
    BY <1>7, <2>1, <2>2
  <2>3. CASE ~g
    BY <1>1, <1>6, <1>7, <2>3
  <2> QED
    BY <2>2, <2>3
<1>9. s \in Seq(ButtonEvents) /\ AfterAll(i, s) = AfterAll(j, u)
  <2>1. s = d \o u
    BY <1>0 DEF PadDownUp
  <2> QED
    BY <1>4, <1>5, <1>7, <2>1, ConcatProperties, AfterAllConcat
<1> QED
  BY <1>0, <1>6, <1>8, <1>9

LEMMA SubsetsOfEvents ==
  /\ ButtonEvents \subseteq Events /\ AnalogEvents \subseteq Events
  /\ AimEvents \subseteq Events /\ MusicEvents \subseteq Events
  /\ PadEvents \subseteq Events
BY DEF Events, PadEvents

\* What a player's pad makes of the input: no button is left that is not held.
LEMMA PadChangesEffect ==
  ASSUME StreamTypeOK, NEW i \in InputState, NEW p \in Players
  PROVE  /\ PadChanges(p) \in Seq(PadEvents)
         /\ AfterAll(i, PadChanges(p)) \in InputState
         /\ i.buttons[p] \subseteq last[p].buttons
              => AfterAll(i, PadChanges(p)).buttons[p] \subseteq held.pad[p].buttons
         /\ \A r \in Players \ {p} :
              AfterAll(i, PadChanges(p)).buttons[r] = i.buttons[r]
         /\ AfterAll(i, PadChanges(p)).p2_connected = i.p2_connected
<1>1. PICK now, was, b, x, y :
        /\ now = held.pad[p].buttons /\ was = last[p].buttons
        /\ b = ButtonChanges(p) /\ x = AxisChange(p, "x") /\ y = AxisChange(p, "y")
  OBVIOUS
<1>2. /\ now \in SUBSET Buttons /\ was \in SUBSET Buttons
      /\ held.pad[p].x \in SticksAt /\ held.pad[p].y \in SticksAt
  BY <1>1 DEF StreamTypeOK, HeldType, Pads
<1>3. /\ b \in Seq(ButtonEvents)
      /\ AfterAll(i, b) \in InputState
      /\ i.buttons[p] \subseteq was => AfterAll(i, b).buttons[p] \subseteq now
      /\ \A r \in Players \ {p} : AfterAll(i, b).buttons[r] = i.buttons[r]
      /\ AfterAll(i, b).p2_connected = i.p2_connected
  <2>1. PICK new \in Pads, old \in Pads : new = held.pad[p] /\ old = last[p]
    BY DEF StreamTypeOK, HeldType
  <2>2. b = PadDownUp(p, new, old)
    BY <1>1, <2>1 DEF PadDownUp, ButtonChanges, Downs, Ups, When, NoEvents
  <2> QED
    BY <1>1, <2>1, <2>2, DownUp
<1>4. x \in Seq(AnalogEvents) /\ y \in Seq(AnalogEvents)
  <2>1. /\ AnalogEvent(<<p, "x">>, held.pad[p].x) \in AnalogEvents
        /\ AnalogEvent(<<p, "y">>, held.pad[p].y) \in AnalogEvents
    BY <1>2 DEF AnalogEvents, Axes
  <2>2. <<>> \in Seq(AnalogEvents)
    OBVIOUS
  <2>3. x \in {<<>>, <<AnalogEvent(<<p, "x">>, held.pad[p].x)>>}
    BY <1>1 DEF AxisChange
  <2>4. y \in {<<>>, <<AnalogEvent(<<p, "y">>, held.pad[p].y)>>}
    BY <1>1 DEF AxisChange
  <2>5. ASSUME NEW e \in AnalogEvents PROVE <<e>> \in Seq(AnalogEvents)
    OBVIOUS
  <2> QED
    BY <2>1, <2>2, <2>3, <2>4, <2>5
<1>5. /\ b \in Seq(PadEvents) /\ x \in Seq(PadEvents) /\ y \in Seq(PadEvents)
      /\ b \o x \in Seq(PadEvents)
      /\ PadChanges(p) = (b \o x) \o y /\ PadChanges(p) \in Seq(PadEvents)
  <2>1. ButtonEvents \subseteq PadEvents /\ AnalogEvents \subseteq PadEvents
    BY DEF PadEvents
  <2>2. b \in Seq(PadEvents) /\ x \in Seq(PadEvents) /\ y \in Seq(PadEvents)
    BY <1>3, <1>4, <2>1, SeqMonotonic
  <2>3. b \o x \in Seq(PadEvents)
    BY <2>2, ConcatProperties
  <2>4. (b \o x) \o y \in Seq(PadEvents)
    BY <2>2, <2>3, ConcatProperties
  <2> QED
    BY <1>1, <2>2, <2>3, <2>4 DEF PadChanges
<1>6. PICK j, k : j = AfterAll(i, b) /\ k = AfterAll(j, x)
  OBVIOUS
<1>7. AfterAll(i, PadChanges(p)) = AfterAll(k, y)
  <2>1. PICK bx \in Seq(PadEvents) : bx = b \o x
    BY <1>5
  <2>2. AfterAll(i, bx) = k
    BY <1>5, <1>6, <2>1, AfterAllConcat
  <2>3. AfterAll(i, bx \o y) = AfterAll(AfterAll(i, bx), y)
    BY <1>5, AfterAllConcat
  <2> QED
    BY <1>5, <2>1, <2>2, <2>3
<1>8. ASSUME NEW h \in InputState, NEW s \in Seq(AnalogEvents)
      PROVE  /\ AfterAll(h, s) \in InputState
             /\ AfterAll(h, s).buttons = h.buttons
             /\ AfterAll(h, s).p2_connected = h.p2_connected
  <2>1. AnalogEvents \in SUBSET Events /\ AnalogEvents \cap ButtonEvents = {}
    BY SubsetsOfEvents, KindsDiffer
  <2>2. s \in Seq(Events)
    BY <2>1, SeqMonotonic
  <2> QED
    BY <2>1, <2>2, AfterAllFrame, AfterAllTyped
<1>9. /\ k \in InputState /\ k.buttons = j.buttons /\ k.p2_connected = j.p2_connected
  BY <1>3, <1>4, <1>6, <1>8
<1>10. /\ AfterAll(k, y) \in InputState /\ AfterAll(k, y).buttons = j.buttons
       /\ AfterAll(k, y).p2_connected = j.p2_connected
  BY <1>4, <1>8, <1>9
<1> QED
  BY <1>1, <1>3, <1>5, <1>6, <1>7, <1>10

\* Player 2's presence, as the input will know it.
LEMMA PresenceEffect ==
  ASSUME StreamTypeOK, NEW i \in InputState,
         present # Unknown => i.p2_connected = (present = 1)
  PROVE  /\ PresenceChange \in Seq(PadEvents)
         /\ AfterAll(i, PresenceChange) \in InputState
         /\ AfterAll(i, PresenceChange).p2_connected = held.p2_present
         /\ AfterAll(i, PresenceChange).buttons[0] = i.buttons[0]
         /\ AfterAll(i, PresenceChange).buttons[1] \subseteq i.buttons[1]
<1>1. PICK e, c, h : /\ h = held.p2_present /\ e = StatusEvent(h)
                     /\ c = (AsFlag(h) # present)
  OBVIOUS
<1>2. h \in BOOLEAN /\ c \in BOOLEAN
  BY <1>1 DEF StreamTypeOK, HeldType
<1>3. e \in PadEvents
  BY <1>1, <1>2 DEF PadEvents, ButtonEvents
<1>4. PresenceChange = When(c, e)
  BY <1>1 DEF PresenceChange, When, NoEvents
<1>5. /\ When(c, e) \in Seq(PadEvents)
      /\ c => AfterAll(i, When(c, e)) = handle_joyevent(i, e)
      /\ ~c => AfterAll(i, When(c, e)) = i
  BY <1>2, <1>3, Optional
<1>6. CASE c
  <2>1. /\ handle_joyevent(i, e) \in InputState
        /\ handle_joyevent(i, e).buttons[0] = i.buttons[0]
        /\ handle_joyevent(i, e).buttons[1] = IF h THEN i.buttons[1] ELSE {}
        /\ handle_joyevent(i, e).p2_connected = h
    BY <1>1, <1>2, HandleStatus
  <2> QED
    BY <1>1, <1>4, <1>5, <1>6, <2>1
<1>7. CASE ~c
  <2>1. present = IF h THEN 1 ELSE 0
    BY <1>1, <1>7 DEF AsFlag
  <2>2. i.p2_connected = h
    BY <1>2, <2>1 DEF Unknown
  <2> QED
    BY <1>1, <1>4, <1>5, <1>7, <2>2
<1> QED
  BY <1>2, <1>6, <1>7

LEMMA MusicChangeIs ==
  ASSUME StreamTypeOK
  PROVE  /\ MusicEvent(held.music) \in MusicEvents
         /\ MusicChange \in Seq(MusicEvents)
         /\ \/ MusicChange = NoEvents /\ AsFlag(held.music) = music
            \/ MusicChange = <<MusicEvent(held.music)>>
<1>1. MusicEvent(held.music) \in MusicEvents
  BY DEF StreamTypeOK, HeldType, MusicEvents
<1>2. NoEvents \in Seq(MusicEvents) /\ <<MusicEvent(held.music)>> \in Seq(MusicEvents)
  BY <1>1 DEF NoEvents
<1>3. \/ MusicChange = NoEvents /\ AsFlag(held.music) = music
      \/ MusicChange = <<MusicEvent(held.music)>>
  BY DEF MusicChange, NoEvents
<1> QED
  BY <1>1, <1>2, <1>3

\* All the changes of a poll: the input will hold no more than the controllers,
\* and know of player 2.
LEMMA ChangesEffect ==
  ASSUME StreamTypeOK, NEW i \in InputState, Released(i, last, present)
  PROVE  /\ Changes \in Seq(Events)
         /\ AfterAll(i, Changes) \in InputState
         /\ Released(AfterAll(i, Changes), held.pad, AsFlag(held.p2_present))
<1>1. PICK m, p0, s, p1 : /\ m = MusicChange /\ p0 = PadChanges(0)
                          /\ s = PresenceChange /\ p1 = PadChanges(1)
  OBVIOUS
<1>2. PICK i1, i2, i3, i4 : /\ i1 = AfterAll(i, m) /\ i2 = AfterAll(i1, p0)
                            /\ i3 = AfterAll(i2, s) /\ i4 = AfterAll(i3, p1)
  OBVIOUS
<1>3. 0 \in Players /\ 1 \in Players /\ 0 # 1 /\ Players = {0, 1}
  BY DEF Players
<1>4. m \in Seq(MusicEvents)
  BY <1>1, MusicChangeIs
<1>5. i1 \in InputState /\ i1.buttons = i.buttons /\ i1.p2_connected = i.p2_connected
  <2>1. MusicEvents \in SUBSET Events /\ MusicEvents \cap ButtonEvents = {}
    BY SubsetsOfEvents, KindsDiffer
  <2>2. m \in Seq(Events)
    BY <1>4, <2>1, SeqMonotonic
  <2> QED
    BY <1>2, <1>4, <2>1, <2>2, AfterAllFrame, AfterAllTyped
<1>6. /\ p0 \in Seq(PadEvents)
      /\ i2 \in InputState
      /\ i1.buttons[0] \subseteq last[0].buttons
           => i2.buttons[0] \subseteq held.pad[0].buttons
      /\ i2.buttons[1] = i1.buttons[1]
      /\ i2.p2_connected = i1.p2_connected
  BY <1>1, <1>2, <1>3, <1>5, PadChangesEffect
<1>7. /\ s \in Seq(PadEvents)
      /\ i3 \in InputState
      /\ i3.p2_connected = held.p2_present
      /\ i3.buttons[0] = i2.buttons[0] /\ i3.buttons[1] \subseteq i2.buttons[1]
  <2>1. present # Unknown => i2.p2_connected = (present = 1)
    BY <1>5, <1>6 DEF Released
  <2> QED
    BY <1>1, <1>2, <1>6, <2>1, PresenceEffect
<1>8. /\ p1 \in Seq(PadEvents)
      /\ i4 \in InputState
      /\ i3.buttons[1] \subseteq last[1].buttons
           => i4.buttons[1] \subseteq held.pad[1].buttons
      /\ i4.buttons[0] = i3.buttons[0]
      /\ i4.p2_connected = i3.p2_connected
  BY <1>1, <1>2, <1>3, <1>7, PadChangesEffect
<1>9. Changes \in Seq(Events) /\ AfterAll(i, Changes) = i4
  <2>1. m \in Seq(Events) /\ p0 \in Seq(Events) /\ s \in Seq(Events) /\ p1 \in Seq(Events)
    BY <1>4, <1>6, <1>7, <1>8, SubsetsOfEvents, SeqMonotonic
  <2>2. m \o p0 \in Seq(Events) /\ AfterAll(i, m \o p0) = i2
    BY <1>2, <2>1, ConcatProperties, AfterAllConcat
  <2>3. PICK a \in Seq(Events) : a = m \o p0
    BY <2>2
  <2>4. a \o s \in Seq(Events) /\ AfterAll(i, a \o s) = i3
    <3>1. AfterAll(i, a) = i2
      BY <2>2, <2>3
    <3>2. a \o s \in Seq(Events)
      BY <2>1, ConcatProperties
    <3>3. AfterAll(i, a \o s) = AfterAll(AfterAll(i, a), s)
      BY <2>1, AfterAllConcat
    <3> QED
      BY <1>2, <3>1, <3>2, <3>3
  <2>5. PICK b \in Seq(Events) : b = a \o s
    BY <2>4
  <2>6. b \o p1 \in Seq(Events) /\ AfterAll(i, b \o p1) = i4
    <3>1. AfterAll(i, b) = i3
      BY <2>4, <2>5
    <3>2. b \o p1 \in Seq(Events)
      BY <2>1, ConcatProperties
    <3>3. AfterAll(i, b \o p1) = AfterAll(AfterAll(i, b), p1)
      BY <2>1, AfterAllConcat
    <3> QED
      BY <1>2, <3>1, <3>2, <3>3
  <2> QED
    BY <1>1, <2>3, <2>5, <2>6 DEF Changes
<1>10. \A p \in Players : i.buttons[p] \subseteq last[p].buttons
  BY DEF Released
<1>11. i4.buttons[0] \subseteq held.pad[0].buttons /\ i4.buttons[1] \subseteq held.pad[1].buttons
  BY <1>3, <1>5, <1>6, <1>7, <1>8, <1>10
<1>12. i4.p2_connected = (AsFlag(held.p2_present) = 1)
  BY <1>7, <1>8 DEF AsFlag, StreamTypeOK, HeldType
<1> QED
  BY <1>3, <1>8, <1>9, <1>11, <1>12 DEF Released

LEMMA FirstOfConcat ==
  ASSUME NEW E, NEW s \in Seq(E), NEW t \in Seq(E), Len(s) >= 1
  PROVE  s \o t \in Seq(E) /\ Len(s \o t) >= 1 /\ (s \o t)[1] = s[1]
BY ConcatProperties, LenProperties

\* As many of the changes as fit: none concerns the gun, and the music
\* controller is told of first.
LEMMA SomeChangesEffect ==
  ASSUME StreamTypeOK, NEW i \in InputState, NEW n \in 0..Len(Changes)
  PROVE  /\ SubSeq(Changes, 1, n) \in Seq(Events)
         /\ AfterAll(i, SubSeq(Changes, 1, n)) \in InputState
         /\ AfterAll(i, SubSeq(Changes, 1, n)).aim = i.aim
         /\ n = 0 => AfterAll(i, SubSeq(Changes, 1, n)).music = i.music
         /\ MusicChange = NoEvents =>
              AfterAll(i, SubSeq(Changes, 1, n)).music = i.music
         /\ MusicChange # NoEvents =>
              /\ Len(Changes) >= 1
              /\ n >= 1 => AfterAll(i, SubSeq(Changes, 1, n)).music = held.music
<1>1. PICK m, p0, s, p1 : /\ m = MusicChange /\ p0 = PadChanges(0)
                          /\ s = PresenceChange /\ p1 = PadChanges(1)
  OBVIOUS
<1>2. PICK e : e = MusicEvent(held.music)
  OBVIOUS
<1> DEFINE E == IF m = NoEvents THEN PadEvents ELSE PadEvents \cup {e}
<1>3. /\ e \in MusicEvents
      /\ m = NoEvents \/ m = <<e>>
  BY <1>1, <1>2, MusicChangeIs
<1>4. m \in Seq(E) /\ p0 \in Seq(E) /\ s \in Seq(E) /\ p1 \in Seq(E)
  <2>1. p0 \in Seq(PadEvents) /\ p1 \in Seq(PadEvents)
    BY <1>1, PadChangesEffect DEF Players
  <2>2. s \in Seq(PadEvents)
    <3>1. StatusEvent(held.p2_present) \in PadEvents
      BY DEF StreamTypeOK, HeldType, PadEvents, ButtonEvents
    <3>2. <<StatusEvent(held.p2_present)>> \in Seq(PadEvents) /\ NoEvents \in Seq(PadEvents)
      BY <3>1 DEF NoEvents
    <3>3. s = NoEvents \/ s = <<StatusEvent(held.p2_present)>>
      BY <1>1 DEF PresenceChange, NoEvents
    <3> QED
      BY <3>2, <3>3
  <2>3. PadEvents \subseteq E
    OBVIOUS
  <2>4. p0 \in Seq(E) /\ s \in Seq(E) /\ p1 \in Seq(E)
    BY <2>1, <2>2, <2>3, SeqMonotonic
  <2>5. m \in Seq(E)
    <3>1. NoEvents \in Seq(E)
      BY DEF NoEvents
    <3>2. m # NoEvents => e \in E
      OBVIOUS
    <3> HIDE DEF E
    <3>3. m # NoEvents => <<e>> \in Seq(E)
      BY <3>2
    <3> QED
      BY <1>3, <3>1, <3>3
  <2> QED
    BY <2>4, <2>5
<1>5. E \in SUBSET Events /\ E \cap AimEvents = {}
  BY <1>3, SubsetsOfEvents, KindsDiffer DEF PadEvents
<1>6. m = NoEvents => E \cap MusicEvents = {}
  BY KindsDiffer DEF PadEvents
<1>7. E \ PadEvents \subseteq {e}
  OBVIOUS
<1> HIDE DEF E
<1>8. Changes \in Seq(E) /\ (m # NoEvents => Len(Changes) >= 1 /\ Changes[1] = e)
  <2>1. m \o p0 \in Seq(E)
    BY <1>4, ConcatProperties
  <2>2. PICK a \in Seq(E) : a = m \o p0
    BY <2>1
  <2>3. a \o s \in Seq(E)
    BY <1>4, ConcatProperties
  <2>4. PICK b \in Seq(E) : b = a \o s
    BY <2>3
  <2>5. b \o p1 \in Seq(E) /\ Changes = b \o p1
    BY <1>1, <1>4, <2>2, <2>4, ConcatProperties DEF Changes
  <2>6. ASSUME m # NoEvents PROVE Len(b \o p1) >= 1 /\ (b \o p1)[1] = e
    <3>1. Len(m) >= 1 /\ m[1] = e
      BY <1>3, <2>6
    <3>2. Len(a) >= 1 /\ a[1] = e
      BY <1>4, <2>2, <3>1, FirstOfConcat
    <3>3. Len(b) >= 1 /\ b[1] = e
      BY <1>4, <2>4, <3>2, FirstOfConcat
    <3> QED
      BY <1>4, <3>3, FirstOfConcat
  <2> QED
    BY <2>5, <2>6
<1>9. PICK c \in Seq(E) : c = Changes
  BY <1>8
<1>10. PICK k \in 0..Len(c) : k = n
  BY <1>9
<1>11. PICK t : t = SubSeq(c, 1, k)
  OBVIOUS
<1>12. /\ t \in Seq(E) /\ Len(t) = k
       /\ \A j \in 1..k : t[j] = c[j]
  BY <1>11, PrefixIsSeq
<1>13. t \in Seq(Events)
  BY <1>5, <1>12, SeqMonotonic
<1>14. /\ AfterAll(i, t) \in InputState
       /\ AfterAll(i, t).aim = i.aim
       /\ E \cap MusicEvents = {} => AfterAll(i, t).music = i.music
  BY <1>5, <1>12, <1>13, AfterAllTyped, AfterAllFrame
<1>15. k = 0 => AfterAll(i, t) = i
  <2>1. SubSeq(c, 1, 0) = <<>>
    BY SubSeqEmpty
  <2> QED
    BY <1>11, <2>1, AfterAllEmpty
<1>16. ASSUME m # NoEvents, k >= 1 PROVE AfterAll(i, t).music = held.music
  <2>1. k \in Nat /\ 1 \in 1..k /\ t # <<>>
    BY <1>10, <1>12, <1>16, LenProperties
  <2>2. t[1] = e /\ Head(t) = t[1]
    BY <1>8, <1>9, <1>12, <1>16, <2>1
  <2>3. AfterAll(i, t) = AfterAll(handle_joyevent(i, Head(t)), Tail(t))
    BY <1>12, <2>1, AfterAllHead
  <2>4. /\ handle_joyevent(i, e) \in InputState
        /\ handle_joyevent(i, e).music = held.music
    BY <1>2, HandleMusic DEF StreamTypeOK, HeldType
  <2> DEFINE Inputs == {j \in InputState : j.music = held.music}
  <2>5. \A j \in Inputs, f \in E : handle_joyevent(j, f) \in Inputs
    <3>1. SUFFICES ASSUME NEW j \in Inputs, NEW f \in E PROVE handle_joyevent(j, f) \in Inputs
      OBVIOUS
    <3>2. CASE f \in PadEvents
      <4>1. f \in Events /\ f \notin MusicEvents
        BY <3>2, SubsetsOfEvents, KindsDiffer DEF PadEvents
      <4> QED
        BY <4>1, HandleFrame
    <3>3. CASE f = e
      BY <1>2, <3>3, HandleMusic DEF StreamTypeOK, HeldType
    <3> QED
      BY <1>7, <3>2, <3>3
  <2>6. Tail(t) \in Seq(E)
    BY <1>12, <2>1, HeadTailProperties
  <2>7. handle_joyevent(i, e) \in Inputs
    BY <2>4
  <2> HIDE DEF Inputs
  <2>8. AfterAll(handle_joyevent(i, e), Tail(t)) \in Inputs
    BY <2>5, <2>6, <2>7, AfterAllStays
  <2> QED
    BY <2>2, <2>3, <2>8 DEF Inputs
<1> QED
  BY <1>1, <1>6, <1>8, <1>10, <1>9, <1>11, <1>13, <1>14, <1>15, <1>16

\* The gun's report is queued whole or not at all, and counts as made only if
\* it was queued.
LEMMA GunQueued ==
  ASSUME StreamTypeOK, NEW q \in Seq(Events), NEW i \in InputState
  PROVE  \E g \in Seq(Events) :
           /\ enqueue(q, GunChange) = q \o g
           /\ GunReported(Fits(q, GunChange)) \in Readings
           /\ AfterAll(i, g) \in InputState
           /\ AfterAll(i, g).buttons = i.buttons
           /\ AfterAll(i, g).p2_connected = i.p2_connected
           /\ AfterAll(i, g).music = i.music
           /\ AimIs(i, gun) => AimIs(AfterAll(i, g), GunReported(Fits(q, GunChange)))
<1>1. GunReading \in Readings
  BY DEF GunReading, StreamTypeOK, HeldType, Readings
<1>2. PICK e : e = IF GunReading = NoGun THEN ReleaseEvent ELSE GunEvent(GunReading)
  OBVIOUS
<1>3. e \in AimEvents /\ e \in Events
  BY <1>1, <1>2, SubsetsOfEvents DEF Readings, GunEvent, AimEvents
<1>4. \/ GunChange = NoEvents /\ GunReading = gun
      \/ GunChange = <<e>>
  BY <1>2 DEF GunChange, NoEvents
<1>5. /\ NoEvents \in Seq(Events) /\ q \o NoEvents = q
      /\ AfterAll(i, NoEvents) = i
      /\ <<e>> \in Seq(Events)
      /\ AfterAll(i, <<e>>) = handle_joyevent(i, e)
  BY <1>3, AfterAllEmpty, AfterAllOne DEF NoEvents
<1>6. /\ handle_joyevent(i, e) \in InputState
      /\ handle_joyevent(i, e).aim = e
      /\ handle_joyevent(i, e).buttons = i.buttons
      /\ handle_joyevent(i, e).p2_connected = i.p2_connected
      /\ handle_joyevent(i, e).music = i.music
  BY <1>3, HandleAim
<1>7. PICK c \in Seq(Events) : c = GunChange
  BY <1>4, <1>5
<1>8. PICK n \in 0..Len(c) :
        /\ enqueue(q, c) = q \o SubSeq(c, 1, n)
        /\ Fits(q, c) => n = Len(c)
        /\ Len(c) >= 1 => (n >= 1 <=> Len(q) + 1 <= Free)
  BY Enqueue, Rp2040SenderAssumption
<1>9. gun \in Readings
  BY DEF StreamTypeOK
<1>10. CASE c = NoEvents
  <2>1. Len(c) = 0 /\ n = 0 /\ SubSeq(c, 1, 0) = NoEvents
    BY <1>10, SubSeqEmpty DEF NoEvents
  <2>2. GunReported(Fits(q, c)) = gun
    BY <1>3, <1>4, <1>7, <1>10 DEF GunReported, NoEvents
  <2> NoEvents \in Seq(Events)
    BY <1>5
  <2>3. WITNESS NoEvents \in Seq(Events)
  <2> QED
    BY <1>5, <1>7, <1>8, <1>9, <2>1, <2>2
<1>11. CASE c = <<e>> /\ Fits(q, c)
  <2>1. Len(c) = 1 /\ n = 1 /\ SubSeq(c, 1, 1) = c
    <3>1. Len(c) = 1
      BY <1>11
    <3> QED
      BY <1>8, <1>11, <3>1, SubSeqFull
  <2>2. GunReported(Fits(q, c)) = GunReading
    BY <1>11 DEF GunReported
  <2>3. AimIs(handle_joyevent(i, e), GunReading)
    BY <1>2, <1>6 DEF AimIs
  <2>4. c \in Seq(Events)
    OBVIOUS
  <2>5. WITNESS c \in Seq(Events)
  <2> QED
    BY <1>1, <1>5, <1>6, <1>7, <1>8, <1>11, <2>1, <2>2, <2>3
<1>12. CASE c = <<e>> /\ ~Fits(q, c)
  <2>1. n = 0 /\ SubSeq(c, 1, 0) = NoEvents
    <3>1. Len(c) = 1
      BY <1>12
    <3>2. SubSeq(c, 1, 0) = NoEvents
      BY SubSeqEmpty DEF NoEvents
    <3> QED
      BY <1>8, <1>12, <3>1, <3>2 DEF Fits
  <2>2. GunReported(Fits(q, c)) = gun
    BY <1>12 DEF GunReported
  <2> NoEvents \in Seq(Events)
    BY <1>5
  <2>3. WITNESS NoEvents \in Seq(Events)
  <2> QED
    BY <1>5, <1>7, <1>8, <1>9, <2>1, <2>2
<1> QED
  BY <1>4, <1>7, <1>10, <1>11, <1>12

\* As many of the repeated buttons as fit: they are held, all of them.
LEMMA ReassertedEffect ==
  ASSUME StreamTypeOK, NEW i \in InputState, NEW rep,
         rep = Reasserted \/ rep = NoEvents
  PROVE  /\ rep \in Seq(Events)
         /\ \A n \in 0..Len(rep) :
              /\ SubSeq(rep, 1, n) \in Seq(Events)
              /\ AfterAll(i, SubSeq(rep, 1, n)) \in InputState
              /\ AfterAll(i, SubSeq(rep, 1, n)).aim = i.aim
              /\ AfterAll(i, SubSeq(rep, 1, n)).music = i.music
              /\ \A flag : Released(i, held.pad, flag) =>
                             Released(AfterAll(i, SubSeq(rep, 1, n)), held.pad, flag)
<1> DEFINE E == {DownEvent(p, held.pad[p].buttons) : p \in Players}
<1>1. E \subseteq ButtonEvents
  BY DEF StreamTypeOK, HeldType, Pads, ButtonEvents
<1>2. rep \in Seq(E)
  <2>1. PICK d0, d1 : /\ d0 = Downs(0, held.pad[0].buttons)
                      /\ d1 = Downs(1, held.pad[1].buttons)
    OBVIOUS
  <2>2. ASSUME NEW p \in Players PROVE Downs(p, held.pad[p].buttons) \in Seq(E)
    <3>1. PICK e \in E : e = DownEvent(p, held.pad[p].buttons)
      OBVIOUS
    <3>2. <<e>> \in Seq(E) /\ NoEvents \in Seq(E)
      BY DEF NoEvents
    <3> QED
      BY <3>1, <3>2 DEF Downs, When
  <2>3. d0 \in Seq(E) /\ d1 \in Seq(E)
    BY <2>1, <2>2 DEF Players
  <2>4. Reasserted = d0 \o d1
    BY <2>1 DEF Reasserted, Downs, When, NoEvents
  <2>5. NoEvents \in Seq(E)
    BY DEF NoEvents
  <2> HIDE DEF E
  <2>6. d0 \o d1 \in Seq(E)
    BY <2>3, ConcatProperties
  <2> QED
    BY <2>4, <2>5, <2>6
<1>3. E \in SUBSET Events /\ E \cap AimEvents = {} /\ E \cap MusicEvents = {}
  BY <1>1, SubsetsOfEvents, KindsDiffer
<1>4. \A j \in InputState, e \in E :
        /\ handle_joyevent(j, e) \in InputState
        /\ handle_joyevent(j, e).p2_connected = j.p2_connected
        /\ \A p \in Players : handle_joyevent(j, e).buttons[p]
                                \subseteq j.buttons[p] \cup held.pad[p].buttons
  <2>1. SUFFICES ASSUME NEW j \in InputState, NEW p \in Players, NEW e,
                        e = DownEvent(p, held.pad[p].buttons)
                 PROVE  /\ handle_joyevent(j, e) \in InputState
                        /\ handle_joyevent(j, e).p2_connected = j.p2_connected
                        /\ \A r \in Players : handle_joyevent(j, e).buttons[r]
                                \subseteq j.buttons[r] \cup held.pad[r].buttons
    OBVIOUS
  <2>2. held.pad[p].buttons \in SUBSET Buttons
    BY DEF StreamTypeOK, HeldType, Pads
  <2>3. PICK b \in SUBSET Buttons : b = held.pad[p].buttons
    BY <2>2
  <2>4. /\ handle_joyevent(j, e) \in InputState
        /\ handle_joyevent(j, e).buttons[p] = j.buttons[p] \cup b
        /\ \A r \in Players \ {p} : handle_joyevent(j, e).buttons[r] = j.buttons[r]
        /\ handle_joyevent(j, e).p2_connected = j.p2_connected
    BY <2>1, <2>3, HandleDown
  <2> QED
    BY <2>3, <2>4
<1> HIDE DEF E
<1>5. ASSUME NEW n \in 0..Len(rep)
      PROVE  /\ SubSeq(rep, 1, n) \in Seq(E)
             /\ SubSeq(rep, 1, n) \in Seq(Events)
  BY <1>2, <1>3, PrefixIsSeq, SeqMonotonic
<1>6. ASSUME NEW s \in Seq(E)
      PROVE  /\ AfterAll(i, s) \in InputState
             /\ AfterAll(i, s).aim = i.aim
             /\ AfterAll(i, s).music = i.music
  <2>1. s \in Seq(Events)
    BY <1>3, SeqMonotonic
  <2> QED
    BY <1>3, <2>1, AfterAllTyped, AfterAllFrame
<1>7. ASSUME NEW s \in Seq(E), NEW flag, Released(i, held.pad, flag)
      PROVE  Released(AfterAll(i, s), held.pad, flag)
  <2> DEFINE Inputs == {j \in InputState : Released(j, held.pad, flag)}
  <2>1. \A j \in Inputs, e \in E : handle_joyevent(j, e) \in Inputs
    BY <1>4 DEF Released
  <2>2. i \in Inputs
    BY <1>7
  <2> HIDE DEF Inputs
  <2>3. AfterAll(i, s) \in Inputs
    BY <2>1, <2>2, AfterAllStays
  <2> QED
    BY <2>3 DEF Inputs
<1>8. rep \in Seq(Events)
  BY <1>2, <1>3, SeqMonotonic
<1> QED
  BY <1>5, <1>6, <1>7, <1>8

-----------------------------------------------------------------------------
(* The steps of the stream.                                                *)

LEMMA InitStream == Init => StreamInv
<1> SUFFICES ASSUME Init PROVE StreamInv
  OBVIOUS
<1> USE DEF Init
<1>1. NeutralPads \in [Players -> Pads]
  BY JoyEventsAssumption DEF NeutralPads, NeutralPad, Pads
<1>2. Neutral \in InputState
  BY JoyEventsAssumption DEF Neutral, InputState, AimEvents
<1>3. queue \in Seq(Events)
  OBVIOUS
<1>4. StreamTypeOK
  BY <1>1, <1>2, <1>3 DEF StreamTypeOK, HeldType, Nothing, Readings, Flags
<1> QED
  BY <1>4 DEF StreamInv, Unlinked

\* What is to come is what comes after the transfer in flight and the queue.
LEMMA UpcomingIs ==
  ASSUME StreamTypeOK
  PROVE  /\ InFlight(Busy) \in Seq(Events)
         /\ AfterAll(psp, InFlight(Busy)) \in InputState
         /\ Upcoming = AfterAll(AfterAll(psp, InFlight(Busy)), queue)
         /\ Upcoming \in InputState
<1>1. InFlight(Busy) \in Seq(Events)
  <2>1. NoEvents \in Seq(Events)
    BY DEF NoEvents
  <2>2. CASE Busy
    <3>1. inflight \in Events
      BY <2>2 DEF StreamTypeOK, Busy
    <3>2. <<inflight>> \in Seq(Events)
      BY <3>1
    <3> QED
      BY <2>2, <3>2 DEF InFlight
  <2>3. CASE ~Busy
    BY <2>1, <2>3 DEF InFlight
  <2> QED
    BY <2>2, <2>3
<1>2. PICK f \in Seq(Events) : f = InFlight(Busy)
  BY <1>1
<1>3. queue \in Seq(Events) /\ psp \in InputState
  BY DEF StreamTypeOK
<1>4. Upcoming = AfterAll(psp, f \o queue)
  BY <1>2 DEF Upcoming, InFlight, NoEvents
<1>5. AfterAll(psp, f \o queue) = AfterAll(AfterAll(psp, f), queue)
  BY <1>3, AfterAllConcat
<1>6. AfterAll(psp, f) \in InputState
  BY <1>3, AfterAllTyped
<1>7. AfterAll(AfterAll(psp, f), queue) \in InputState
  BY <1>3, <1>6, AfterAllTyped
<1> QED
  BY <1>1, <1>2, <1>4, <1>5, <1>6, <1>7

\* Serving the queue loses nothing of what is to come.
LEMMA Served ==
  ASSUME StreamTypeOK, NEW q \in Seq(Events), NEW submitted,
         process_event_queue(q, Busy, submitted), psp' = psp
  PROVE  /\ queue' \in Seq(Events)
         /\ inflight' \in {Idle} \cup Events
         /\ Upcoming' = AfterAll(AfterAll(psp, InFlight(Busy)), q)
<1>1. PICK x \in InputState : x = AfterAll(psp, InFlight(Busy))
  BY UpcomingIs
<1>2. (Busy => inflight \in Events) /\ Busy \in BOOLEAN
  BY DEF StreamTypeOK, Busy
<1>3. /\ queue' \in Seq(Events)
      /\ inflight' \in {Idle} \cup Events
      /\ AfterAll(psp, InFlight(Busy)' \o queue') = AfterAll(x, q)
  BY <1>1, <1>2, ProcessEventQueue
<1>4. Upcoming' = AfterAll(psp, InFlight(Busy)' \o queue')
  BY DEF Upcoming, InFlight, NoEvents
<1> QED
  BY <1>1, <1>3, <1>4

\* A poll: what it queues of the changes, the gun's report and the repetitions.
LEMMA PollKeepsStreamInv ==
  ASSUME StreamInv, NEW reassert \in BOOLEAN, NEW submitted,
         poll_input_state(reassert, submitted)
  PROVE  StreamInv'
<1>1. StreamTypeOK
  BY DEF StreamInv
<1>2. PICK q1, q2, q3, rep :
        /\ q1 = enqueue(queue, Changes)
        /\ q2 = enqueue(q1, GunChange)
        /\ rep = IF reassert THEN Reasserted ELSE NoEvents
        /\ q3 = enqueue(q2, rep)
  OBVIOUS
<1>3. /\ complete
      /\ last' = [p \in Players |->
                    [buttons |-> held.pad[p].buttons,
                     x |-> IF Moved(p, "x") THEN held.pad[p].x ELSE last[p].x,
                     y |-> IF Moved(p, "y") THEN held.pad[p].y ELSE last[p].y]]
      /\ present' = AsFlag(held.p2_present)
      /\ music' = IF Fits(queue, MusicChange) THEN AsFlag(held.music) ELSE music
      /\ gun' = GunReported(Fits(q1, GunChange))
      /\ lit' = IF held.gun \in Nat THEN held.gun ELSE lit
      /\ dropped' = (dropped \/ ~Fits(queue, Changes))
      /\ process_event_queue(q3, Busy, submitted)
      /\ UNCHANGED <<held, complete, psp, failed>>
  BY <1>2 DEF poll_input_state, Changes, NoEvents
<1>4. queue \in Seq(Events) /\ EVENT_QUEUE_SIZE \in Nat
  BY <1>1, Rp2040SenderAssumption DEF StreamTypeOK
<1>5. PICK U \in InputState : U = Upcoming
  BY <1>1, UpcomingIs
<1>6. PICK cs \in Seq(Events) : cs = Changes
  <2>1. Len(Changes) \in Nat => Len(Changes) \in 0..Len(Changes)
    OBVIOUS
  <2>2. Changes \in Seq(Events)
    <3>1. PICK r \in InputState : Released(r, last, present)
      <4> DEFINE r == [Neutral EXCEPT !.p2_connected = (present = 1)]
      <4>1. r \in InputState
        BY JoyEventsAssumption DEF Neutral, InputState, AimEvents
      <4>2. Released(r, last, present)
        BY DEF Released, Neutral, InputState
      <4> QED
        BY <4>1, <4>2
    <3> QED
      BY <1>1, <3>1, ChangesEffect
  <2> QED
    BY <2>2
<1>7. PICK n \in 0..Len(cs) :
        /\ q1 = queue \o SubSeq(cs, 1, n)
        /\ Fits(queue, cs) => n = Len(cs)
        /\ Len(cs) >= 1 => (n >= 1 <=> Len(queue) + 1 <= Free)
  BY <1>2, <1>4, <1>6, Enqueue
<1>8. PICK a \in Seq(Events), V \in InputState :
        /\ a = SubSeq(cs, 1, n) /\ V = AfterAll(U, a)
        /\ V.aim = U.aim
        /\ n = 0 => V.music = U.music
        /\ MusicChange = NoEvents => V.music = U.music
        /\ MusicChange # NoEvents => Len(cs) >= 1 /\ (n >= 1 => V.music = held.music)
  <2>1. PICK k \in 0..Len(Changes) : k = n
    BY <1>6
  <2>2. /\ SubSeq(Changes, 1, k) \in Seq(Events)
        /\ AfterAll(U, SubSeq(Changes, 1, k)) \in InputState
        /\ AfterAll(U, SubSeq(Changes, 1, k)).aim = U.aim
        /\ k = 0 => AfterAll(U, SubSeq(Changes, 1, k)).music = U.music
        /\ MusicChange = NoEvents =>
              AfterAll(U, SubSeq(Changes, 1, k)).music = U.music
        /\ MusicChange # NoEvents =>
              /\ Len(Changes) >= 1
              /\ k >= 1 => AfterAll(U, SubSeq(Changes, 1, k)).music = held.music
    BY <1>1, SomeChangesEffect
  <2> QED
    BY <1>6, <2>1, <2>2
<1>9. ASSUME Fits(queue, Changes), Released(U, last, present)
      PROVE  Released(V, held.pad, AsFlag(held.p2_present))
  <2>1. n = Len(cs)
    BY <1>6, <1>7, <1>9
  <2>2. SubSeq(cs, 1, Len(cs)) = cs
    BY SubSeqFull
  <2>3. V = AfterAll(U, Changes)
    BY <1>6, <1>8, <2>1, <2>2
  <2> QED
    BY <1>1, <1>9, <2>3, ChangesEffect
<1>10. PICK qq1 \in Seq(Events) : qq1 = q1 /\ qq1 = queue \o a
  BY <1>4, <1>7, <1>8, ConcatProperties
<1>11. PICK g \in Seq(Events), W \in InputState :
         /\ q2 = qq1 \o g /\ W = AfterAll(V, g)
         /\ gun' \in Readings
         /\ W.buttons = V.buttons /\ W.p2_connected = V.p2_connected
         /\ W.music = V.music
         /\ AimIs(V, gun) => AimIs(W, gun')
  <2>1. PICK g \in Seq(Events) :
           /\ enqueue(qq1, GunChange) = qq1 \o g
           /\ GunReported(Fits(qq1, GunChange)) \in Readings
           /\ AfterAll(V, g) \in InputState
           /\ AfterAll(V, g).buttons = V.buttons
           /\ AfterAll(V, g).p2_connected = V.p2_connected
           /\ AfterAll(V, g).music = V.music
           /\ AimIs(V, gun) => AimIs(AfterAll(V, g), GunReported(Fits(qq1, GunChange)))
    BY <1>1, GunQueued
  <2> QED
    BY <1>2, <1>3, <1>10, <2>1
<1>12. PICK qq2 \in Seq(Events) : qq2 = q2
  BY <1>11, ConcatProperties
<1>13. PICK ag \in Seq(Events) : ag = rep
  BY <1>1, <1>2, ReassertedEffect
<1>14. PICK c \in Seq(Events), X \in InputState :
         /\ q3 = qq2 \o c /\ X = AfterAll(W, c)
         /\ X.aim = W.aim /\ X.music = W.music
         /\ \A flag : Released(W, held.pad, flag) => Released(X, held.pad, flag)
  <2>1. PICK k \in 0..Len(ag) : enqueue(qq2, ag) = qq2 \o SubSeq(ag, 1, k)
    BY <1>4, Enqueue
  <2>2. ag = Reasserted \/ ag = NoEvents
    BY <1>2, <1>13
  <2>3. /\ SubSeq(ag, 1, k) \in Seq(Events)
        /\ AfterAll(W, SubSeq(ag, 1, k)) \in InputState
        /\ AfterAll(W, SubSeq(ag, 1, k)).aim = W.aim
        /\ AfterAll(W, SubSeq(ag, 1, k)).music = W.music
        /\ \A flag : Released(W, held.pad, flag) =>
                       Released(AfterAll(W, SubSeq(ag, 1, k)), held.pad, flag)
    BY <1>1, <2>2, ReassertedEffect
  <2> QED
    BY <1>2, <1>12, <1>13, <2>1, <2>3
<1>15. PICK Y \in InputState :
         Y = AfterAll(psp, InFlight(Busy)) /\ U = AfterAll(Y, queue)
  BY <1>1, <1>5, UpcomingIs
<1>16. /\ queue' \in Seq(Events)
       /\ inflight' \in {Idle} \cup Events
       /\ Upcoming' = X
  <2>1. PICK qq3 \in Seq(Events) : qq3 = q3 /\ qq3 = qq2 \o c
    BY <1>12, <1>14, ConcatProperties
  <2>2. AfterAll(Y, qq1) = AfterAll(AfterAll(Y, queue), a)
    <3>1. queue \in Seq(Events) /\ a \in Seq(Events)
      BY <1>4
    <3>2. AfterAll(Y, queue \o a) = AfterAll(AfterAll(Y, queue), a)
      BY <3>1, AfterAllConcat
    <3> QED
      BY <1>10, <3>2
  <2>3. AfterAll(Y, qq2) = AfterAll(AfterAll(Y, qq1), g)
    BY <1>10, <1>11, <1>12, AfterAllConcat
  <2>4. AfterAll(Y, qq3) = AfterAll(AfterAll(Y, qq2), c)
    BY <1>12, <1>14, <2>1, AfterAllConcat
  <2>5. /\ queue' \in Seq(Events)
        /\ inflight' \in {Idle} \cup Events
        /\ Upcoming' = AfterAll(Y, qq3)
    BY <1>1, <1>3, <1>15, <2>1, Served
  <2> QED
    BY <1>8, <1>11, <1>14, <1>15, <2>2, <2>3, <2>4, <2>5
<1>17. /\ last' \in [Players -> Pads]
       /\ \A p \in Players : last'[p].buttons = held.pad[p].buttons
  BY <1>1, <1>3 DEF StreamTypeOK, HeldType, Pads
<1>18. StreamTypeOK'
  <2>1. present' \in Flags /\ music' \in Flags
    BY <1>1, <1>3 DEF StreamTypeOK, AsFlag, Flags
  <2>2. lit' \in AimsAt \cup {NoGun}
    BY <1>1, <1>3 DEF StreamTypeOK, HeldType, Readings, NoLight, NoGun
  <2>3. dropped' \in BOOLEAN
    BY <1>1, <1>3 DEF StreamTypeOK
  <2> QED
    BY <1>1, <1>3, <1>11, <1>16, <1>17, <2>1, <2>2, <2>3 DEF StreamTypeOK
<1>19. ASSUME ~dropped', ~failed' PROVE Released(X, last', present')
  <2>1. Released(U, last, present) /\ Fits(queue, Changes)
    BY <1>3, <1>5, <1>19, <1>1 DEF StreamInv, StreamTypeOK
  <2>2. Released(V, held.pad, AsFlag(held.p2_present))
    BY <1>9, <2>1
  <2>3. Released(W, held.pad, AsFlag(held.p2_present))
    BY <1>11, <2>2 DEF Released
  <2>4. Released(X, held.pad, AsFlag(held.p2_present))
    BY <1>14, <2>3
  <2> QED
    BY <1>3, <1>17, <2>4 DEF Released
<1>20. ASSUME ~failed' PROVE AimIs(X, gun') /\ MusicIs(X, music')
  <2>1. AimIs(U, gun) /\ MusicIs(U, music)
    BY <1>3, <1>5, <1>20 DEF StreamInv
  <2>2. AimIs(X, gun')
    BY <1>8, <1>11, <1>14, <2>1 DEF AimIs
  <2>3. X.music = V.music
    BY <1>11, <1>14
  <2>4. MusicIs(V, music')
    <3>1. MusicChange \in {NoEvents, <<MusicEvent(held.music)>>}
      BY <1>1, MusicChangeIs
    <3>2. \/ MusicIs(U, music') /\ V.music = U.music
          \/ V.music = held.music /\ music' = AsFlag(held.music)
      <4>1. CASE MusicChange = NoEvents
        <5>1. AsFlag(held.music) = music
          BY <1>1, <4>1, MusicChangeIs DEF NoEvents
        <5> QED
          BY <1>3, <1>8, <2>1, <4>1, <5>1
      <4>2. CASE MusicChange # NoEvents
        <5>1. Len(MusicChange) = 1 /\ Len(cs) >= 1
          BY <1>8, <3>1, <4>2
        <5>2. Fits(queue, MusicChange) <=> n >= 1
          BY <1>7, <5>1 DEF Fits
        <5>3. CASE n >= 1
          BY <1>3, <1>8, <4>2, <5>2, <5>3
        <5>4. CASE ~(n >= 1)
          <6>1. n = 0
            BY <5>4, LenProperties
          <6> QED
            BY <1>3, <1>8, <2>1, <5>2, <5>4, <6>1
        <5> QED
          BY <5>3, <5>4
      <4> QED
        BY <4>1, <4>2
    <3> QED
      BY <1>1, <3>2 DEF MusicIs, AsFlag, StreamTypeOK, HeldType
  <2> QED
    BY <2>2, <2>3, <2>4 DEF MusicIs
<1> QED
  BY <1>3, <1>16, <1>18, <1>19, <1>20 DEF StreamInv, Unlinked

\* Between two polls only the gun has something to say.
LEMMA GunPollKeepsStreamInv ==
  ASSUME StreamInv, NEW submitted, poll_gun_fast(submitted)
  PROVE  StreamInv'
<1>1. StreamTypeOK
  BY DEF StreamInv
<1>2. PICK q1 : q1 = enqueue(queue, GunChange)
  OBVIOUS
<1>3. /\ complete
      /\ gun' = GunReported(Fits(queue, GunChange))
      /\ lit' = IF held.gun \in Nat THEN held.gun ELSE lit
      /\ process_event_queue(q1, Busy, submitted)
      /\ UNCHANGED <<held, complete, last, present, music, psp, dropped, failed>>
  BY <1>2 DEF poll_gun_fast
<1>4. PICK U \in InputState, Y \in InputState :
        /\ U = Upcoming
        /\ Y = AfterAll(psp, InFlight(Busy)) /\ U = AfterAll(Y, queue)
  BY <1>1, UpcomingIs
<1>5. PICK q \in Seq(Events) : q = queue
  BY <1>1 DEF StreamTypeOK
<1>6. PICK g \in Seq(Events), W \in InputState :
         /\ q1 = q \o g /\ W = AfterAll(U, g)
         /\ gun' \in Readings
         /\ W.buttons = U.buttons /\ W.p2_connected = U.p2_connected
         /\ W.music = U.music
         /\ AimIs(U, gun) => AimIs(W, gun')
  <2>1. PICK g \in Seq(Events) :
           /\ enqueue(q, GunChange) = q \o g
           /\ GunReported(Fits(q, GunChange)) \in Readings
           /\ AfterAll(U, g) \in InputState
           /\ AfterAll(U, g).buttons = U.buttons
           /\ AfterAll(U, g).p2_connected = U.p2_connected
           /\ AfterAll(U, g).music = U.music
           /\ AimIs(U, gun) => AimIs(AfterAll(U, g), GunReported(Fits(q, GunChange)))
    BY <1>1, GunQueued
  <2> QED
    BY <1>2, <1>3, <1>5, <2>1
<1>7. PICK qq1 \in Seq(Events) : qq1 = q1 /\ qq1 = q \o g
  BY <1>6, ConcatProperties
<1>8. /\ queue' \in Seq(Events)
      /\ inflight' \in {Idle} \cup Events
      /\ Upcoming' = W
  <2>1. AfterAll(Y, q \o g) = AfterAll(AfterAll(Y, q), g)
    BY AfterAllConcat
  <2>2. /\ queue' \in Seq(Events)
        /\ inflight' \in {Idle} \cup Events
        /\ Upcoming' = AfterAll(AfterAll(psp, InFlight(Busy)), qq1)
    BY <1>1, <1>3, <1>7, Served
  <2> QED
    BY <1>4, <1>5, <1>6, <1>7, <2>1, <2>2
<1>9. StreamTypeOK'
  <2>1. lit' \in AimsAt \cup {NoGun}
    BY <1>1, <1>3 DEF StreamTypeOK, HeldType, Readings, NoLight, NoGun
  <2> QED
    BY <1>1, <1>3, <1>6, <1>8, <2>1 DEF StreamTypeOK
<1>10. ASSUME ~dropped', ~failed' PROVE Released(W, last', present')
  <2>1. Released(U, last, present)
    BY <1>3, <1>4, <1>10 DEF StreamInv
  <2> QED
    BY <1>3, <1>6, <2>1 DEF Released
<1>11. ASSUME ~failed' PROVE AimIs(W, gun') /\ MusicIs(W, music')
  <2>1. AimIs(U, gun) /\ MusicIs(U, music)
    BY <1>3, <1>4, <1>11 DEF StreamInv
  <2> QED
    BY <1>3, <1>6, <2>1 DEF MusicIs
<1> QED
  BY <1>3, <1>8, <1>9, <1>10, <1>11 DEF StreamInv, Unlinked

\* The main loop hands the head of the queue to the USB stack.
LEMMA LoopKeepsStreamInv ==
  ASSUME StreamInv, Loop
  PROVE  StreamInv'
<1>1. StreamTypeOK
  BY DEF StreamInv
<1>2. /\ complete /\ ~Busy
      /\ process_event_queue(queue, FALSE, TRUE)
      /\ UNCHANGED <<held, complete, diffVars, psp, dropped, failed>>
  BY DEF Loop
<1>3. PICK q \in Seq(Events) : q = queue
  BY <1>1 DEF StreamTypeOK
<1>4. /\ queue' \in Seq(Events)
      /\ inflight' \in {Idle} \cup Events
      /\ Upcoming' = AfterAll(AfterAll(psp, InFlight(Busy)), q)
  <2>1. process_event_queue(q, Busy, TRUE)
    BY <1>2, <1>3 DEF process_event_queue, Busy
  <2> QED
    BY <1>1, <1>2, <2>1, Served
<1>5. Upcoming' = Upcoming
  BY <1>1, <1>3, <1>4, UpcomingIs
<1>6. StreamTypeOK'
  BY <1>1, <1>2, <1>4 DEF StreamTypeOK, diffVars
<1> QED
  BY <1>2, <1>5, <1>6 DEF StreamInv, Unlinked, diffVars

\* The PSP has taken the event in flight, or the transfer has failed.
LEMMA SentKeepsStreamInv ==
  ASSUME StreamInv, NEW success \in BOOLEAN, NEW submitted,
         joy_event_sent_cb(success, submitted)
  PROVE  StreamInv'
<1>1. StreamTypeOK
  BY DEF StreamInv
<1>2. /\ Busy
      /\ psp' = IF success THEN handle_joyevent(psp, inflight) ELSE psp
      /\ failed' = (failed \/ ~success)
      /\ IF success THEN process_event_queue(queue, FALSE, submitted)
         ELSE queue' = queue /\ inflight' = Idle
      /\ UNCHANGED <<held, complete, diffVars, dropped>>
  BY DEF joy_event_sent_cb
<1>3. inflight \in Events /\ inflight # Idle
  BY <1>1, <1>2 DEF StreamTypeOK, Busy
<1>4. complete
  BY <1>3 DEF StreamInv, Unlinked
<1>5. CASE success
  <2>1. PICK q \in Seq(Events), busy \in BOOLEAN, i \in InputState :
          /\ q = queue /\ busy = FALSE
          /\ i = handle_joyevent(psp, inflight)
    BY <1>1, <1>3, HandleFrame DEF StreamTypeOK
  <2>2. process_event_queue(q, busy, submitted)
    BY <1>2, <1>5, <2>1
  <2>3. /\ queue' \in Seq(Events)
        /\ inflight' \in {Idle} \cup Events
        /\ AfterAll(i, InFlight(Busy)' \o queue') = AfterAll(AfterAll(i, InFlight(busy)), q)
    BY <2>1, <2>2, ProcessEventQueue
  <2>4. psp' = i
    BY <1>2, <1>5, <2>1
  <2>5. Upcoming' = AfterAll(i, InFlight(Busy)' \o queue')
    BY <2>4 DEF Upcoming, InFlight, NoEvents
  <2>6. AfterAll(i, InFlight(busy)) = i
    BY <2>1, AfterAllEmpty DEF InFlight, NoEvents
  <2>7. AfterAll(psp, InFlight(Busy)) = i
    <3>1. InFlight(Busy) = <<inflight>>
      BY <1>2 DEF InFlight
    <3> QED
      BY <2>1, <3>1, AfterAllOne
  <2>8. Upcoming' = Upcoming
    BY <1>1, <2>1, <2>3, <2>5, <2>6, <2>7, UpcomingIs
  <2>9. StreamTypeOK'
    BY <1>1, <1>2, <2>3, <2>4 DEF StreamTypeOK, diffVars
  <2> QED
    BY <1>2, <1>4, <1>5, <2>8, <2>9 DEF StreamInv, Unlinked, diffVars
<1>6. CASE ~success
  <2>1. StreamTypeOK'
    BY <1>1, <1>2, <1>6 DEF StreamTypeOK, diffVars
  <2> QED
    BY <1>2, <1>4, <1>6, <2>1 DEF StreamInv, Unlinked
<1> QED
  BY <1>5, <1>6

\* What is to come when nothing is queued.
LEMMA NothingUpcoming ==
  ASSUME queue = <<>>, inflight = Idle, psp = Neutral
  PROVE  Upcoming = Neutral
<1>1. <<>> \o <<>> = <<>>
  OBVIOUS
<1>2. Upcoming = AfterAll(Neutral, <<>>)
  BY <1>1 DEF Upcoming, Busy
<1> QED
  BY <1>2, AfterAllEmpty

LEMMA StreamStep ==
  ASSUME StreamInv, Next
  PROVE  StreamInv'
<1>1. StreamTypeOK
  BY DEF StreamInv
<1>2. CASE Report
  <2>1. held' \in HeldType
    BY <1>2 DEF Report, Found, HeldType, Readings
  <2>2. UNCHANGED <<complete, queue, inflight, diffVars, psp, dropped, failed>>
    BY <1>2 DEF Report
  <2>3. StreamTypeOK'
    BY <1>1, <2>1, <2>2 DEF StreamTypeOK, diffVars
  <2>4. Upcoming' = Upcoming
    BY <2>2 DEF Upcoming, Busy
  <2> QED
    BY <2>2, <2>3, <2>4 DEF StreamInv, Unlinked, diffVars
<1>3. CASE LightIsOld
  <2>1. /\ lit' = NoGun
        /\ UNCHANGED <<held, complete, queue, inflight, last, present, music, gun,
                       psp, dropped, failed>>
    BY <1>3 DEF LightIsOld
  <2>2. StreamTypeOK'
    BY <1>1, <2>1 DEF StreamTypeOK
  <2>3. Upcoming' = Upcoming
    BY <2>1 DEF Upcoming, Busy
  <2> QED
    BY <2>1, <2>2, <2>3 DEF StreamInv, Unlinked
<1>4. CASE hostfs_hello_response_sent_cb
  <2>1. /\ ~complete /\ complete' = TRUE
        /\ last' = held.pad
        /\ present' = Unknown /\ music' = Unknown /\ gun' = NoGun /\ lit' = NoGun
        /\ UNCHANGED <<held, queue, inflight, psp, dropped, failed>>
    BY <1>4 DEF hostfs_hello_response_sent_cb
  <2>2. queue = <<>> /\ inflight = Idle /\ psp = Neutral
    BY <2>1 DEF StreamInv, Unlinked
  <2>3. Upcoming' = Neutral
    BY <2>1, <2>2, NothingUpcoming DEF Upcoming, Busy
  <2>4. StreamTypeOK'
    BY <1>1, <2>1 DEF StreamTypeOK, HeldType, Flags, Readings
  <2>5. Released(Neutral, last', present') /\ AimIs(Neutral, gun') /\ MusicIs(Neutral, music')
    BY <2>1 DEF Released, AimIs, MusicIs, Neutral
  <2> QED
    BY <2>1, <2>3, <2>4, <2>5 DEF StreamInv, Unlinked
<1>5. CASE clear_endpoints
  <2>1. /\ complete' = FALSE /\ queue' = <<>> /\ inflight' = Idle /\ psp' = Neutral
        /\ last' = NeutralPads
        /\ present' = Unknown /\ music' = Unknown /\ gun' = NoGun /\ lit' = NoGun
        /\ dropped' = FALSE /\ failed' = FALSE
        /\ UNCHANGED held
    BY <1>5 DEF clear_endpoints
  <2>2. NeutralPads \in [Players -> Pads]
    BY JoyEventsAssumption DEF NeutralPads, NeutralPad, Pads
  <2>3. Neutral \in InputState
    BY JoyEventsAssumption DEF Neutral, InputState, AimEvents
  <2>4. <<>> \in Seq(Events)
    OBVIOUS
  <2>5. StreamTypeOK'
    BY <1>1, <2>1, <2>2, <2>3, <2>4 DEF StreamTypeOK, Flags, Readings
  <2> QED
    BY <2>1, <2>5 DEF StreamInv, Unlinked
<1>6. CASE Poll
  BY <1>6, PollKeepsStreamInv, GunPollKeepsStreamInv DEF Poll
<1>7. CASE Usb
  BY <1>7, LoopKeepsStreamInv, SentKeepsStreamInv DEF Usb
<1> QED
  BY <1>2, <1>3, <1>4, <1>5, <1>6, <1>7 DEF Next

LEMMA StreamStutters ==
  ASSUME StreamInv, UNCHANGED vars
  PROVE  StreamInv'
<1>1. UNCHANGED <<held, complete, queue, inflight, last, present, music, gun, lit, psp,
                  dropped, failed>>
  BY DEF vars, diffVars
<1>2. Upcoming' = Upcoming
  BY <1>1 DEF Upcoming, Busy
<1> QED
  BY <1>1, <1>2 DEF StreamInv, StreamTypeOK, Unlinked

\* The invariant, for every behaviour of the input side.
THEOREM StreamInvariant == InputSpec => []StreamInv
<1>1. InputInit => StreamInv
  BY InitStream DEF InputInit
<1>2. StreamInv /\ [InputNext]_inputVars => StreamInv'
  BY StreamStep, StreamStutters DEF InputNext, inputVars
<1> QED
  BY <1>1, <1>2, PTL DEF InputSpec

\* As long as no event was dropped and no transfer failed, what poll_input_state
\* has queued leaves the PSP with no button the sender does not take as reported,
\* and tells it whether player 2 is there.
THEOREM StreamReleases == InputSpec => []ReleasedUnlessLost
<1>1. StreamInv => ReleasedUnlessLost
  BY DEF StreamInv, ReleasedUnlessLost, Released
<1> QED
  BY <1>1, StreamInvariant, PTL

\* However often the queue was full, the aim and the music flag that the PSP is
\* about to have are those report_gun_xy and report_music_controller take as
\* reported.
THEOREM GunSurvives == InputSpec => []GunSurvivesOverflow
<1>1. StreamInv => GunSurvivesOverflow
  BY DEF StreamInv, GunSurvivesOverflow, AimIs, MusicIs
<1> QED
  BY <1>1, StreamInvariant, PTL

-----------------------------------------------------------------------------
(* The port: one controller's answer.                                     *)

\* The button of a chord beside START.
Pressing(c, active) ==
  /\ "start" \in c.held
  /\ "r3" \in c.held \/ (active \in ComboProfiles /\ "combo" \in c.held)

\* A reading of c as player p goes to the next profile.
Switches(m, c, p) == c.kind = "pad" /\ Pressing(c, m.active) /\ ~m.chord[p]

Chorded(m, c, p) ==
  IF c.kind = "pad" THEN Pressing(c, m.active) \/ ("start" \in c.held /\ m.chord[p])
  ELSE m.chord[p]

\* What decoding c as player p gives.
Decoded(d, m, c, p) ==
  /\ d.m \in Modes
  /\ d.m.long = m.long
  /\ d.m.chord = [m.chord EXCEPT ![p] = Chorded(m, c, p)]
  /\ d.m.switched = IF Switches(m, c, p) THEN m.switched \cup {p} ELSE m.switched
  /\ ~Switches(m, c, p) => d.m.active = m.active
  /\ d.present = (c # None)
  /\ c = None => d.buttons = {}
  /\ d.m.popn = IF p = 1 /\ c # None THEN c.kind = "popn" ELSE m.popn
  /\ d.m.guitar = IF p = 1 /\ c # None THEN c.kind = "guitar" ELSE m.guitar
  /\ c.kind = "pad" /\ d.m.chord[p] /\ "start" \in d.buttons => "left" \in c.held

\* What ps2_apply_profile_mapping gives for a pad.
Mapped(r, m, c, p) ==
  /\ r.m \in Modes
  /\ r.m.long = m.long /\ r.m.popn = m.popn /\ r.m.guitar = m.guitar
  /\ r.m.chord = [m.chord EXCEPT ![p] = Chorded(m, c, p)]
  /\ r.m.switched = IF Switches(m, c, p) THEN m.switched \cup {p} ELSE m.switched
  /\ ~Switches(m, c, p) => r.m.active = m.active
  /\ r.m.chord[p] /\ "start" \in r.buttons => "left" \in c.held

LEMMA MappingIs ==
  ASSUME NEW m \in Modes, NEW c, NEW p \in 1..2, c.kind = "pad",
         NEW r, r = ps2_apply_profile_mapping(m, c.held, p)
  PROVE  Mapped(r, m, c, p)
<1> DEFINE chord == Pressing(c, m.active)
           chording == Chorded(m, c, p)
           sw == chord /\ ~m.chord[p]
           nm == [m EXCEPT !.chord[p] = chording,
                       !.active = IF sw THEN (@ + 1) % Profiles ELSE @,
                       !.switched = IF sw THEN @ \cup {p} ELSE @]
<1>1. chord \in BOOLEAN /\ chording \in BOOLEAN /\ sw \in BOOLEAN
  BY DEF Pressing, Chorded, Modes
<1>2. r.m = nm
  BY DEF ps2_apply_profile_mapping, Chording, Pressing, Chorded
<1>3. Switches(m, c, p) = sw
  BY DEF Switches
<1> HIDE DEF chord, chording, sw
<1>4. (m.active + 1) % Profiles \in 0..(Profiles - 1)
  BY Ps2PortAssumption DEF Modes
<1>5. nm \in Modes
  BY <1>1, <1>4 DEF Modes
<1>6. /\ nm.long = m.long /\ nm.popn = m.popn /\ nm.guitar = m.guitar
      /\ nm.chord = [m.chord EXCEPT ![p] = chording]
      /\ nm.switched = IF sw THEN m.switched \cup {p} ELSE m.switched
      /\ ~sw => nm.active = m.active
      /\ nm.chord[p] = chording
  BY <1>1, <1>4 DEF Modes
<1>7. ASSUME chording, "start" \in r.buttons PROVE "left" \in c.held
  BY <1>7 DEF ps2_apply_profile_mapping, Chording, Pressing, chording, Chorded
<1> HIDE DEF nm
<1> QED
  BY <1>2, <1>3, <1>5, <1>6, <1>7 DEF chording, Mapped

LEMMA Decode ==
  ASSUME NEW m \in Modes, NEW p \in 1..2, NEW c \in Controllers[p],
         NEW d, d = ps2_decode(m, c, p)
  PROVE  Decoded(d, m, c, p)
<1>1. \/ c = None
      \/ c.kind \in {"pad", "gun", "popn", "guitar"} /\ (p = 2 => c.kind = "pad")
  BY DEF Controllers, MusicKinds
<1>2. None.kind = "none"
  BY DEF None
<1>3. m.chord = [m.chord EXCEPT ![p] = m.chord[p]]
  BY DEF Modes
<1>4. PICK m1 : m1 = IF p = 1 THEN update_modes(m, c.kind) ELSE m
  OBVIOUS
<1>5. /\ m1 \in Modes
      /\ m1.chord = m.chord /\ m1.active = m.active /\ m1.switched = m.switched
      /\ m1.long = m.long
      /\ m1.popn = IF p = 1 THEN c.kind = "popn" ELSE m.popn
      /\ m1.guitar = IF p = 1 THEN c.kind = "guitar" ELSE m.guitar
  BY <1>4 DEF update_modes, Modes
<1>6. CASE c = None
  <2>1. d = [m |-> m, present |-> FALSE, buttons |-> {}]
    BY <1>6 DEF ps2_decode
  <2>2. d.m = m /\ d.present = FALSE /\ d.buttons = {} /\ c.kind = "none"
    BY <1>2, <1>6, <2>1
  <2>3. ~Switches(m, c, p) /\ Chorded(m, c, p) = m.chord[p]
    BY <2>2 DEF Switches, Chorded
  <2> QED
    BY <1>3, <1>6, <2>2, <2>3 DEF Decoded
<1>7. CASE c # None /\ c.kind # "pad"
  <2>1. d.m = m1 /\ d.present = TRUE
    BY <1>1, <1>4, <1>7 DEF ps2_decode, MusicKinds
  <2> QED
    BY <1>3, <1>5, <1>7, <2>1 DEF Decoded, Switches, Chorded
<1>8. CASE c # None /\ c.kind = "pad"
  <2>1. PICK r : r = ps2_apply_profile_mapping(m1, c.held, p)
    OBVIOUS
  <2>2. d.m = r.m /\ d.present = TRUE /\ d.buttons = r.buttons
    BY <1>4, <1>8, <2>1 DEF ps2_decode, MusicKinds
  <2>3. Mapped(r, m1, c, p)
    BY <1>5, <1>8, <2>1, MappingIs
  <2>4. Switches(m1, c, p) = Switches(m, c, p) /\ Chorded(m1, c, p) = Chorded(m, c, p)
    BY <1>5 DEF Switches, Chorded
  <2> QED
    BY <1>5, <1>8, <2>2, <2>3, <2>4 DEF Decoded, Mapped
<1> QED
  BY <1>6, <1>7, <1>8

-----------------------------------------------------------------------------
(* One reading of the port.                                                *)

\* What a reading r of the port from the modes m finds.
FoundRight(r) ==
  /\ r.two => port.slot[2] # None \/ (AnswersLong /\ port.empty = "FF")
  /\ port.slot[2] # None /\ (r.m.long \/ (Answers(1) /\ port.tap = "each")) => r.two
  /\ ~r.two => r.pad[2] = {}
  /\ (r.m.popn \/ r.m.guitar) => port.slot[1].kind \in MusicKinds \/ OnlySecond
  /\ port.slot[1].kind \in MusicKinds /\ (r.m.long \/ Answers(1)) =>
       r.m[port.slot[1].kind]
  /\ r.gun = (port.slot[1].kind = "gun" /\ Answers(1))

\* Player p, whose controller is c, holds START in a chord: from the modes m to
\* the modes n, with these buttons found.
ChordKept(m, n, c, p, buttons) ==
  /\ p \in n.switched =>
       c.kind = "pad" /\ "start" \in c.held /\ n.chord[p] /\ ~m.chord[p]
  /\ m.chord[p] /\ c.kind = "pad" /\ "start" \in c.held => n.chord[p]
  /\ /\ c.kind = "pad" /\ "start" \in c.held
     /\ m.chord[p] \/ p \in n.switched
     /\ "start" \in buttons
     => "left" \in c.held

\* Whether the long request is answered, by what.
LongRead(l, m, due, one, two) ==
  /\ l.m = IF ~m.long /\ ~due THEN m
           ELSE IF ~AnswersLong THEN [m EXCEPT !.long = FALSE]
           ELSE [two.m EXCEPT !.long = TRUE]
  /\ l.ok = ((m.long \/ due) /\ AnswersLong /\ (one.present \/ two.present))
  /\ l.ok => /\ l.one = one.buttons /\ l.two = two.buttons
             /\ l.found_two = (two.present \/ port.empty = "FF")

LEMMA ReadingIs ==
  ASSUME port \in Ports, NEW m \in Modes, m.switched = {}, NEW due \in BOOLEAN,
         NEW r, r = read_ps2_controller_state(m, due)
  PROVE  /\ r.m \in Modes
         /\ FoundRight(r)
         /\ \A p \in 1..2 : ChordKept(m, r.m, port.slot[p], p, r.pad[p])
<1>1. PICK c1 \in Controllers[1], c2 \in Controllers[2] :
        port.slot[1] = c1 /\ port.slot[2] = c2
  BY DEF Ports
<1>2. /\ c1 = None \/ c1.kind \in {"pad", "gun", "popn", "guitar"}
      /\ c2 = None \/ c2.kind = "pad"
      /\ None.kind = "none" /\ None.held = {}
  BY DEF Controllers, MusicKinds, None
<1>3. PICK first, second, n, one, two, l :
        /\ first = ps2_decode(m, c1, 1)
        /\ second = ps2_decode(first.m, c2, 2)
        /\ n = IF Answers(1) THEN first.m ELSE m
        /\ one = ps2_decode(n, c1, 1)
        /\ two = ps2_decode(one.m, c2, 2)
        /\ l = ps2_poll_multitap_long_slots(n, due)
  OBVIOUS
<1>4. Decoded(first, m, c1, 1)
  BY <1>3, Decode
<1>5. first.m \in Modes
  BY <1>4 DEF Decoded
<1>6. Decoded(second, first.m, c2, 2)
  BY <1>3, <1>5, Decode
<1>7. n \in Modes
  BY <1>3, <1>5
<1>8. Decoded(one, n, c1, 1)
  BY <1>3, <1>7, Decode
<1>9. one.m \in Modes
  BY <1>8 DEF Decoded
<1>10. Decoded(two, one.m, c2, 2)
  BY <1>3, <1>9, Decode
<1>11. LongRead(l, n, due, one, two)
  BY <1>1, <1>3, <1>7 DEF ps2_poll_multitap_long_slots, LongRead, Modes
<1>12. r = IF Answers(1) /\ Answers(2)
           THEN [m |-> second.m, pad |-> <<first.buttons, second.buttons>>,
                 two |-> TRUE, gun |-> first.present /\ c1.kind = "gun"]
           ELSE IF Answers(1)
           THEN [m |-> l.m,
                 pad |-> <<first.buttons, IF l.ok THEN l.two ELSE {}>>,
                 two |-> l.ok /\ l.found_two,
                 gun |-> c1.kind = "gun"]
           ELSE IF l.ok
           THEN [m |-> l.m, pad |-> <<l.one, l.two>>, two |-> l.found_two,
                 gun |-> FALSE]
           ELSE NoAnswer(l.m)
  BY <1>1, <1>3 DEF read_ps2_controller_state
<1>13. CASE Answers(1) /\ Answers(2)
  <2>1. /\ r.m = second.m /\ r.pad[1] = first.buttons /\ r.pad[2] = second.buttons
        /\ r.two = TRUE /\ r.gun = (first.present /\ c1.kind = "gun")
    BY <1>12, <1>13
  <2>2. r.m \in Modes
    BY <1>6, <2>1 DEF Decoded
  <2>3. FoundRight(r)
    BY <1>1, <1>2, <1>4, <1>6, <1>13, <2>1 DEF FoundRight, Decoded, Answers, MusicKinds
  <2>4. ChordKept(m, r.m, c1, 1, r.pad[1])
    BY <1>2, <1>4, <1>6, <2>1 DEF ChordKept, Decoded, Switches, Chorded, Pressing, Modes
  <2>5. ChordKept(m, r.m, c2, 2, r.pad[2])
    BY <1>2, <1>4, <1>6, <2>1 DEF ChordKept, Decoded, Switches, Chorded, Pressing, Modes
  <2> QED
    BY <1>1, <2>2, <2>3, <2>4, <2>5
<1>14. l.m \in Modes
  <2>1. two.m \in Modes
    BY <1>10 DEF Decoded
  <2>2. \/ l.m = n
        \/ l.m = [n EXCEPT !.long = FALSE]
        \/ l.m = [two.m EXCEPT !.long = TRUE]
    BY <1>11, Zenon DEF LongRead
  <2>3. \A mode \in Modes, long \in BOOLEAN : [mode EXCEPT !.long = long] \in Modes
    BY DEF Modes
  <2> QED
    BY <1>7, <2>1, <2>2, <2>3
<1>15. CASE Answers(1) /\ ~Answers(2)
  <2>1. /\ r.m = l.m /\ r.pad[1] = first.buttons
        /\ r.pad[2] = IF l.ok THEN l.two ELSE {}
        /\ r.two = (l.ok /\ l.found_two) /\ r.gun = (c1.kind = "gun")
    BY <1>12, <1>15
  <2>2. r.m \in Modes
    BY <1>14, <2>1
  <2>3. c1 # None /\ c1 = port.slot[1] /\ n = first.m
    BY <1>1, <1>3, <1>15 DEF Answers
  <2>4. FoundRight(r)
    <3>1. r.two => c2 # None \/ (AnswersLong /\ port.empty = "FF")
      BY <1>10, <1>11, <2>1 DEF LongRead, Decoded
    <3>2. c2 # None /\ (r.m.long \/ port.tap = "each") => r.two
      BY <1>1, <1>2, <1>10, <1>11, <1>15, <1>7, <2>1 DEF LongRead, Decoded, Answers, Modes
    <3>3. ~r.two => r.pad[2] = {}
      BY <1>10, <1>11, <2>1, <2>3, <1>4, <1>8 DEF LongRead, Decoded
    <3>4. /\ r.m.popn = (c1.kind = "popn")
          /\ r.m.guitar = (c1.kind = "guitar")
      BY <1>4, <1>7, <1>8, <1>10, <1>11, <2>1, <2>3 DEF LongRead, Decoded, Modes
    <3> QED
      BY <1>1, <1>2, <1>15, <2>1, <3>1, <3>2, <3>3, <3>4 DEF FoundRight, MusicKinds
  <2>5. ChordKept(m, r.m, c1, 1, r.pad[1])
    <3>1. r.m.chord = n.chord \/ r.m.chord = two.m.chord
      BY <1>7, <1>10, <1>11, <2>1 DEF LongRead, Decoded, Modes
    <3>2. r.m.switched = n.switched \/ r.m.switched = two.m.switched
      BY <1>7, <1>10, <1>11, <2>1 DEF LongRead, Decoded, Modes
    <3>3. two.m.chord[1] = one.m.chord[1] /\ (1 \in two.m.switched <=> 1 \in one.m.switched)
      BY <1>9, <1>10 DEF Decoded, Modes
    <3>4. /\ one.m.chord[1] = n.chord[1]
          /\ 1 \in one.m.switched <=> 1 \in n.switched
      BY <1>4, <1>8, <2>3 DEF Decoded, Switches, Chorded, Pressing, Modes
    <3>5. /\ r.m.chord[1] = first.m.chord[1]
          /\ 1 \in r.m.switched <=> 1 \in first.m.switched
      BY <2>3, <3>1, <3>2, <3>3, <3>4
    <3> QED
      BY <1>4, <2>1, <3>5 DEF ChordKept, Decoded, Switches, Chorded, Pressing, Modes
  <2>6. ChordKept(m, r.m, c2, 2, r.pad[2])
    <3>1. /\ one.m.chord[2] = m.chord[2] /\ 2 \notin one.m.switched
          /\ n.chord[2] = m.chord[2] /\ 2 \notin n.switched
      BY <1>4, <1>8, <2>3 DEF Decoded, Modes
    <3>2. CASE ~AnswersLong \/ (~n.long /\ ~due)
      <4>1. ~l.ok
        BY <1>11, <3>2 DEF LongRead
      <4>2. l.m = n \/ l.m = [n EXCEPT !.long = FALSE]
        BY <1>11, <3>2 DEF LongRead
      <4>3. l.m.chord = n.chord /\ l.m.switched = n.switched
        BY <1>7, <4>2 DEF Modes
      <4> QED
        BY <2>1, <3>1, <4>1, <4>3 DEF ChordKept
    <3>3. CASE AnswersLong /\ (n.long \/ due)
      <4>1. /\ r.m.chord = two.m.chord /\ r.m.switched = two.m.switched
            /\ r.pad[2] = two.buttons \/ r.pad[2] = {}
        BY <1>10, <1>11, <2>1, <3>3 DEF LongRead, Decoded, Modes
      <4> QED
        BY <1>9, <1>10, <3>1, <4>1 DEF ChordKept, Decoded, Switches, Chorded, Pressing, Modes
    <3> QED
      BY <3>2, <3>3
  <2> QED
    BY <1>1, <2>2, <2>4, <2>5, <2>6
<1>16. CASE ~Answers(1) /\ l.ok
  <2>1. /\ r.m = l.m /\ r.pad[1] = l.one /\ r.pad[2] = l.two
        /\ r.two = l.found_two /\ r.gun = FALSE
    BY <1>12, <1>16
  <2>2. n = m /\ AnswersLong /\ (one.present \/ two.present)
    BY <1>3, <1>11, <1>16 DEF LongRead
  <2>3. /\ r.m = [two.m EXCEPT !.long = TRUE]
        /\ r.pad[1] = one.buttons /\ r.pad[2] = two.buttons
        /\ r.two = (two.present \/ port.empty = "FF")
    BY <1>11, <1>16, <2>1, <2>2 DEF LongRead
  <2>4. /\ r.m.chord = two.m.chord /\ r.m.switched = two.m.switched
        /\ r.m.popn = two.m.popn /\ r.m.guitar = two.m.guitar
    BY <1>10, <2>3 DEF Decoded, Modes
  <2>5. FoundRight(r)
    BY <1>1, <1>2, <1>8, <1>10, <1>16, <2>1, <2>2, <2>3, <2>4
    DEF FoundRight, Decoded, MusicKinds, OnlySecond
  <2>6. ChordKept(m, r.m, c1, 1, r.pad[1])
    BY <1>8, <1>10, <2>2, <2>3, <2>4 DEF ChordKept, Decoded, Switches, Chorded, Pressing, Modes
  <2>7. ChordKept(m, r.m, c2, 2, r.pad[2])
    BY <1>8, <1>10, <2>2, <2>3, <2>4 DEF ChordKept, Decoded, Switches, Chorded, Pressing, Modes
  <2> QED
    BY <1>1, <1>14, <2>1, <2>5, <2>6, <2>7
<1>17. CASE ~Answers(1) /\ ~l.ok
  <2>1. r = NoAnswer(l.m)
    BY <1>12, <1>17
  <2>2. /\ r.m = update_modes(l.m, "none")
        /\ r.pad = <<{}, {}>> /\ r.two = FALSE /\ r.gun = FALSE
    BY <2>1 DEF NoAnswer
  <2>3. /\ r.m \in Modes
        /\ r.m.popn = FALSE /\ r.m.guitar = FALSE
        /\ r.m.long = l.m.long /\ r.m.chord = l.m.chord /\ r.m.switched = l.m.switched
    BY <1>14, <2>2 DEF Modes, update_modes
  <2>4. /\ r.pad[1] = {} /\ r.pad[2] = {} /\ n = m
    BY <1>3, <1>17, <2>2
  <2>5. l.m.long => AnswersLong /\ c1 = None /\ c2 = None
    BY <1>7, <1>8, <1>10, <1>11, <1>17 DEF LongRead, Decoded, Modes
  <2>6. FoundRight(r)
    BY <1>1, <1>2, <1>17, <2>2, <2>3, <2>4, <2>5 DEF FoundRight, MusicKinds
  <2>7. \/ r.m.chord = m.chord /\ r.m.switched = m.switched
        \/ /\ c1 = None /\ c2 = None
           /\ r.m.chord = two.m.chord /\ r.m.switched = two.m.switched
    BY <1>7, <1>8, <1>10, <1>11, <1>17, <2>3, <2>4 DEF LongRead, Decoded, Modes
  <2>8. ChordKept(m, r.m, c1, 1, r.pad[1])
    BY <1>2, <1>8, <1>10, <2>4, <2>7 DEF ChordKept, Decoded, Switches, Chorded, Pressing, Modes
  <2>9. ChordKept(m, r.m, c2, 2, r.pad[2])
    BY <1>2, <1>8, <1>10, <2>4, <2>7 DEF ChordKept, Decoded, Switches, Chorded, Pressing, Modes
  <2> QED
    BY <1>1, <2>3, <2>6, <2>8, <2>9
<1> QED
  BY <1>13, <1>15, <1>16, <1>17

-----------------------------------------------------------------------------
(* The steps of the port.                                                  *)

PortTypeOK ==
  /\ port \in Ports
  /\ started \in BOOLEAN
  /\ modes \in Modes
  /\ modes.switched = {}
  /\ fresh \in BOOLEAN
  /\ freed \in [1..2 -> BOOLEAN]

\* Who has switched the profile and not let go of START is still in the chord.
InChord ==
  \A p \in 1..2 : ~freed[p] =>
    /\ modes.chord[p]
    /\ port.slot[p].kind = "pad"
    /\ "start" \in port.slot[p].held

PortInv ==
  /\ PortTypeOK
  /\ InChord
  /\ PortReadRight
  /\ OneSwitchPerStart

LEMMA InitPort == PortInit => PortInv
<1> SUFFICES ASSUME PortInit PROVE PortInv
  OBVIOUS
<1>1. port \in Ports
  BY DEF PortInit, Ports, Controllers
<1>2. modes \in Modes /\ modes.switched = {}
  BY Ps2PortAssumption DEF PortInit, NoModes, Modes
<1> QED
  BY <1>1, <1>2
  DEF PortInit, PortInv, PortTypeOK, InChord, PortReadRight, OneSwitchPerStart

\* Whatever was known before, a reading finds what the port has; and it
\* switches the profile of nobody who is remembered.
LEMMA ReadingKeepsPortInv ==
  ASSUME port \in Ports, port' = port, started' \in BOOLEAN, ~again,
         NEW m \in Modes, m.switched = {}, NEW due \in BOOLEAN,
         NEW remembers \in SUBSET (1..2),
         \A p \in remembers : /\ m.chord[p] /\ port.slot[p].kind = "pad"
                              /\ "start" \in port.slot[p].held,
         Reading(m, due, remembers)
  PROVE  PortInv'
<1>1. PICK r : r = read_ps2_controller_state(m, due)
  OBVIOUS
<1>2. /\ r.m \in Modes
      /\ FoundRight(r)
      /\ \A p \in 1..2 : ChordKept(m, r.m, port.slot[p], p, r.pad[p])
  BY <1>1, ReadingIs
<1>3. /\ modes' = [r.m EXCEPT !.switched = {}]
      /\ pad' = r.pad
      /\ g_p2_present' = r.two
      /\ gun_present' = r.gun
      /\ fresh' = TRUE
      /\ again' = (again \/ r.m.switched \cap remembers # {})
      /\ freed' = [p \in 1..2 |-> p \notin remembers \cup r.m.switched]
  BY <1>1 DEF Reading
<1>4. /\ modes' \in Modes /\ modes'.switched = {}
      /\ modes'.chord = r.m.chord /\ modes'.long = r.m.long
      /\ modes'.popn = r.m.popn /\ modes'.guitar = r.m.guitar
  BY <1>2, <1>3 DEF Modes
<1>5. PortTypeOK'
  BY <1>3, <1>4 DEF PortTypeOK
<1>6. r.m.switched \cap remembers = {}
  BY <1>2 DEF ChordKept
<1>7. InChord'
  BY <1>2, <1>3, <1>4 DEF InChord, ChordKept
<1>8. OneSwitchPerStart'
  BY <1>2, <1>3, <1>6 DEF OneSwitchPerStart, ChordKept
<1>9. PortReadRight'
  <2>1. Answers(1)' = Answers(1) /\ AnswersLong' = AnswersLong /\ OnlySecond' = OnlySecond
    BY DEF Answers, AnswersLong, OnlySecond
  <2>2. ASSUME port.slot[1].kind \in MusicKinds, r.m.long \/ Answers(1)
        PROVE  modes'[port.slot[1].kind]
    BY <1>2, <1>4, <2>2 DEF FoundRight, MusicKinds
  <2> QED
    BY <1>2, <1>3, <1>4, <2>1, <2>2 DEF FoundRight, PortReadRight, Seen
<1> QED
  BY <1>5, <1>7, <1>8, <1>9 DEF PortInv

LEMMA PortStep ==
  ASSUME PortInv, PortNext
  PROVE  PortInv'
<1> USE DEF PortInv
<1>1. CASE Change
  <2>1. /\ port' \in Ports /\ fresh' = FALSE
        /\ freed' = [p \in 1..2 |-> \/ freed[p]
                                    \/ "start" \notin port'.slot[p].held
                                    \/ port'.slot[p].kind # port.slot[p].kind]
        /\ UNCHANGED <<started, modes, again>>
    BY <1>1 DEF Change, readVars
  <2>2. PortTypeOK'
    BY <2>1 DEF PortTypeOK
  <2>3. InChord'
    BY <2>1 DEF InChord, PortTypeOK
  <2> QED
    BY <2>1, <2>2, <2>3 DEF PortReadRight, OneSwitchPerStart
<1>2. CASE PollPort
  <2>1. PICK due \in BOOLEAN : Reading(modes, due, {p \in 1..2 : ~freed[p]})
    BY <1>2 DEF PollPort
  <2>2. port' = port /\ started' = started
    BY <1>2 DEF PollPort
  <2>3. PICK remembers \in SUBSET (1..2) : remembers = {p \in 1..2 : ~freed[p]}
    OBVIOUS
  <2>4. \A p \in remembers : /\ modes.chord[p] /\ port.slot[p].kind = "pad"
                             /\ "start" \in port.slot[p].held
    BY <2>3 DEF InChord
  <2>5. /\ port \in Ports /\ started' \in BOOLEAN /\ ~again
        /\ modes \in Modes /\ modes.switched = {}
        /\ Reading(modes, due, remembers)
    BY <2>1, <2>2, <2>3 DEF PortTypeOK, OneSwitchPerStart
  <2> QED
    BY <2>2, <2>4, <2>5, ReadingKeepsPortInv
<1>3. CASE start_input_scan
  <2>1. PICK m : m = [modes EXCEPT !.chord = [p \in 1..2 |-> FALSE], !.long = FALSE]
    OBVIOUS
  <2>2. m \in Modes /\ m.switched = {}
    BY <2>1 DEF PortTypeOK, Modes
  <2>3. PICK remembers \in SUBSET (1..2), due \in BOOLEAN : remembers = {} /\ due = TRUE
    OBVIOUS
  <2>4. Reading(m, due, remembers) /\ port' = port /\ started' = TRUE
    BY <1>3, <2>1, <2>3 DEF start_input_scan
  <2>5. port \in Ports /\ ~again
    BY DEF PortTypeOK, OneSwitchPerStart
  <2> QED
    BY <2>2, <2>3, <2>4, <2>5, ReadingKeepsPortInv
<1>4. CASE hostfs_context_read
  <2>1. fresh' = FALSE /\ UNCHANGED <<port, started, modes, freed, again>>
    BY <1>4 DEF hostfs_context_read, readVars
  <2> QED
    BY <2>1 DEF PortTypeOK, InChord, PortReadRight, OneSwitchPerStart
<1>5. CASE clear_port
  <2>1. /\ started' = FALSE /\ modes' = NoModes(modes.active)
        /\ fresh' = FALSE /\ freed' = [p \in 1..2 |-> TRUE]
        /\ UNCHANGED <<port, again>>
    BY <1>5 DEF clear_port
  <2>2. modes' \in Modes /\ modes'.switched = {}
    BY <2>1 DEF PortTypeOK, NoModes, Modes
  <2> QED
    BY <2>1, <2>2 DEF PortTypeOK, InChord, PortReadRight, OneSwitchPerStart
<1> QED
  BY <1>1, <1>2, <1>3, <1>4, <1>5 DEF PortNext

LEMMA PortStutters ==
  ASSUME PortInv, UNCHANGED portVars
  PROVE  PortInv'
<1>1. UNCHANGED <<port, started, modes, g_p2_present, gun_present, pad, fresh, freed, again>>
  BY DEF portVars, readVars
<1> QED
  BY <1>1 DEF PortInv, PortTypeOK, InChord, PortReadRight, OneSwitchPerStart, Seen,
              OnlySecond, Answers, AnswersLong

THEOREM PortInvariant == InputSpec => []PortInv
<1>1. InputInit => PortInv
  BY InitPort DEF InputInit
<1>2. PortInv /\ [InputNext]_inputVars => PortInv'
  BY PortStep, PortStutters DEF InputNext, inputVars
<1> QED
  BY <1>1, <1>2, PTL DEF InputSpec

\* Whichever way the port answers, and whatever was plugged in before,
\* read_ps2_controller_state finds what is there, but for the exceptions that
\* PortReadRight names.
THEOREM PortRead == InputSpec => []PortReadRight
<1>1. PortInv => PortReadRight
  BY DEF PortInv
<1> QED
  BY <1>1, PortInvariant, PTL

\* However many profiles there are and whichever of them map COMBO, START held
\* switches ps2_apply_profile_mapping's profile once and is not sent.
THEOREM OneSwitch == InputSpec => []OneSwitchPerStart
<1>1. PortInv => OneSwitchPerStart
  BY DEF PortInv
<1> QED
  BY <1>1, PortInvariant, PTL

=============================================================================
