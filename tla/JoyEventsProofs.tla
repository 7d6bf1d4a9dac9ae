---------------------------- MODULE JoyEventsProofs ----------------------------
(***************************************************************************)
(* Lemmas about the JoyEvents, for the proofs of both senders: what each   *)
(* event does to an input state, and the algebra of a queue of them        *)
(* (AfterAll).  A queue is followed by induction on its length, through    *)
(* the least number at which a claim would fail.                           *)
(***************************************************************************)
EXTENDS JoyEvents, SequenceTheorems, WellFoundedInduction, TLAPS

\* A set of numbers with no least element is empty: induction without an
\* operator for the property.
LEMMA LeastNumber ==
  ASSUME NEW T \in SUBSET Nat, T # {}
  PROVE  \E x \in T : \A y \in T : x <= y
<1>1. IsWellFoundedOn(OpToRel(<, Nat), Nat)
  BY NatLessThanWellFounded
<1>2. PICK x \in T : \A y \in T : ~(<<y, x>> \in OpToRel(<, Nat))
  BY <1>1, WFMin
<1>3. ASSUME NEW y \in T PROVE x <= y
  <2>1. y \in Nat /\ x \in Nat
    OBVIOUS
  <2>2. ~(<<y, x>> \in OpToRel(<, Nat))
    BY <1>2
  <2>3. ~(y < x)
    BY <2>1, <2>2 DEF OpToRel
  <2> QED
    BY <2>1, <2>3
<1> QED
  BY <1>3

\* f follows the events from input for n steps.
Follows(f, n, input, events) ==
  f = [k \in 0..n |-> IF k = 0 THEN input
                      ELSE handle_joyevent(f[k - 1], events[k])]

\* f holds the input states at the start and after each event.
IsTrace(f, input, events) ==
  /\ f[0] = input
  /\ \A k \in 1..Len(events) : f[k] = handle_joyevent(f[k - 1], events[k])

LEMMA FollowsExists ==
  ASSUME NEW input, NEW events, NEW n \in Nat
  PROVE  \E f : Follows(f, n, input, events)
<1> DEFINE Bad == {m \in Nat : ~ \E f : Follows(f, m, input, events)}
<1> SUFFICES ASSUME Bad # {} PROVE FALSE
  OBVIOUS
<1>1. PICK m \in Bad : \A y \in Bad : m <= y
  <2> HIDE DEF Bad
  <2>1. Bad \in SUBSET Nat
    BY DEF Bad
  <2> QED
    BY <2>1, LeastNumber
<1>2. CASE m = 0
  <2> DEFINE f == [k \in 0..0 |-> input]
  <2>1. Follows(f, 0, input, events)
    BY DEF Follows
  <2> QED
    BY <2>1, <1>2
<1>3. CASE m # 0
  <2>1. m \in Nat /\ m - 1 \in Nat /\ m - 1 \notin Bad
    BY <1>1, <1>3
  <2>2. PICK f : Follows(f, m - 1, input, events)
    BY <2>1
  <2> DEFINE g == [k \in 0..m |-> IF k = m THEN handle_joyevent(f[m - 1], events[m])
                                  ELSE f[k]]
  <2>3. ASSUME NEW k \in 0..m
        PROVE  g[k] = IF k = 0 THEN input ELSE handle_joyevent(g[k - 1], events[k])
    <3>1. CASE k = m
      <4>1. g[k - 1] = f[m - 1]
        BY <1>3, <2>1, <3>1
      <4> QED
        BY <4>1, <1>3, <2>1, <3>1
    <3>2. CASE k # m
      <4>1. k \in 0..(m - 1)
        BY <2>1, <3>2
      <4>2. f[k] = IF k = 0 THEN input ELSE handle_joyevent(f[k - 1], events[k])
        BY <4>1, <2>2 DEF Follows
      <4>3. k # 0 => g[k - 1] = f[k - 1]
        BY <4>1, <2>1
      <4> QED
        BY <4>2, <4>3, <3>2
    <3> QED
      BY <3>1, <3>2
  <2> HIDE DEF g
  <2>4. g = [k \in 0..m |-> g[k]]
    BY DEF g
  <2>5. Follows(g, m, input, events)
    BY <2>3, <2>4 DEF Follows
  <2> QED
    BY <2>5, <2>1
<1> QED
  BY <1>2, <1>3


LEMMA TraceUnique ==
  ASSUME NEW input, NEW events, Len(events) \in Nat,
         NEW f, IsTrace(f, input, events),
         NEW g, IsTrace(g, input, events)
  PROVE  f[Len(events)] = g[Len(events)]
<1> DEFINE Bad == {k \in 0..Len(events) : f[k] # g[k]}
<1> SUFFICES ASSUME Bad # {} PROVE FALSE
  OBVIOUS
<1>1. PICK k \in Bad : \A j \in Bad : k <= j
  <2>1. Bad \in SUBSET Nat
    OBVIOUS
  <2> HIDE DEF Bad
  <2> QED
    BY <2>1, LeastNumber
<1>2. k # 0
  BY DEF IsTrace
<1>3. k \in 1..Len(events) /\ k - 1 \in 0..Len(events) /\ k - 1 \notin Bad
  <2>1. k \in 0..Len(events)
    OBVIOUS
  <2> HIDE DEF Bad
  <2> QED
    BY <1>1, <1>2, <2>1
<1>4. f[k - 1] = g[k - 1]
  BY <1>3
<1> QED
  BY <1>3, <1>4 DEF IsTrace

\* The recursive definition of AfterAll has the value it says.
LEMMA AfterAllTrace ==
  ASSUME NEW input, NEW events, Len(events) \in Nat
  PROVE  \E f : /\ IsTrace(f, input, events)
                /\ AfterAll(input, events) = f[Len(events)]
<1> DEFINE f == CHOOSE g : Follows(g, Len(events), input, events)
<1>1. Follows(f, Len(events), input, events)
  BY FollowsExists
<1>2. AfterAll(input, events) = f[Len(events)]
  BY DEF AfterAll, Follows
<1> HIDE DEF f
<1>3. \A k \in 0..Len(events) : f[k] = IF k = 0 THEN input
                                       ELSE handle_joyevent(f[k - 1], events[k])
  BY <1>1 DEF Follows
<1>4. IsTrace(f, input, events)
  BY <1>3 DEF IsTrace
<1> QED
  BY <1>2, <1>4

LEMMA AfterAllIsLast ==
  ASSUME NEW input, NEW events, Len(events) \in Nat,
         NEW f, IsTrace(f, input, events)
  PROVE  AfterAll(input, events) = f[Len(events)]
BY AfterAllTrace, TraceUnique

-----------------------------------------------------------------------------
(* The algebra of AfterAll.                                                *)

\* What a prefix of a sequence is.
LEMMA PrefixIsSeq ==
  ASSUME NEW E, NEW q \in Seq(E), NEW k \in 0..Len(q)
  PROVE  /\ SubSeq(q, 1, k) \in Seq(E)
         /\ Len(SubSeq(q, 1, k)) = k
         /\ \A j \in 1..k : SubSeq(q, 1, k)[j] = q[j]
<1>1. Len(q) \in Nat /\ \A j \in 1..Len(q) : q[j] \in E
  BY LenProperties, ElementOfSeq
<1>2. \A j \in 1..k : q[j] \in E
  BY <1>1
<1>3. k \in Int /\ 1 \in Int
  BY <1>1
<1>4. /\ SubSeq(q, 1, k) \in Seq(E)
      /\ Len(SubSeq(q, 1, k)) = IF 1 <= k THEN k - 1 + 1 ELSE 0
      /\ \A j \in 1..(k - 1 + 1) : SubSeq(q, 1, k)[j] = q[1 + j - 1]
  BY <1>2, <1>3, SubSeqProperties
<1> QED
  BY <1>1, <1>4

LEMMA AfterAllEmpty ==
  ASSUME NEW input
  PROVE  AfterAll(input, <<>>) = input
<1> DEFINE f == [k \in {0} |-> input]
<1>1. Len(<<>>) = 0
  OBVIOUS
<1>2. IsTrace(f, input, <<>>)
  BY <1>1 DEF IsTrace
<1> QED
  BY <1>1, <1>2, AfterAllIsLast

LEMMA AfterAllOne ==
  ASSUME NEW input, NEW event
  PROVE  AfterAll(input, <<event>>) = handle_joyevent(input, event)
<1> DEFINE f == [k \in 0..1 |-> IF k = 0 THEN input ELSE handle_joyevent(input, event)]
<1>1. Len(<<event>>) = 1
  OBVIOUS
<1>2. IsTrace(f, input, <<event>>)
  BY <1>1 DEF IsTrace
<1> QED
  BY <1>1, <1>2, AfterAllIsLast

LEMMA AfterAllConcat ==
  ASSUME NEW E, NEW s \in Seq(E), NEW t \in Seq(E), NEW input
  PROVE  AfterAll(input, s \o t) = AfterAll(AfterAll(input, s), t)
<1>1. PICK st : /\ st = s \o t
                /\ Len(s) \in Nat /\ Len(t) \in Nat /\ Len(st) \in Nat
                /\ Len(st) = Len(s) + Len(t)
                /\ \A k \in 1..Len(s) : st[k] = s[k]
                /\ \A k \in 1..Len(t) : st[Len(s) + k] = t[k]
  <2>1. Len(s) \in Nat /\ Len(t) \in Nat
    BY LenProperties
  <2>2. /\ Len(s \o t) = Len(s) + Len(t) /\ Len(s \o t) \in Nat
        /\ \A k \in 1..Len(s) : (s \o t)[k] = s[k]
        /\ \A k \in 1..Len(t) : (s \o t)[Len(s) + k] = t[k]
    BY <2>1, ConcatProperties
  <2> QED
    BY <2>1, <2>2, Zenon
<1>2. PICK f : IsTrace(f, input, st) /\ AfterAll(input, st) = f[Len(st)]
  BY <1>1, AfterAllTrace
<1>3. AfterAll(input, s) = f[Len(s)]
  <2>1. IsTrace(f, input, s)
    BY <1>1, <1>2 DEF IsTrace
  <2> QED
    BY <1>1, <2>1, AfterAllIsLast
<1> DEFINE g == [k \in 0..Len(t) |-> f[Len(s) + k]]
<1>4. IsTrace(g, f[Len(s)], t)
  <2>1. g[0] = f[Len(s)]
    BY <1>1
  <2>2. ASSUME NEW k \in 1..Len(t) PROVE g[k] = handle_joyevent(g[k - 1], t[k])
    <3>1. /\ Len(s) + k \in 1..Len(st)
          /\ k \in 0..Len(t) /\ k - 1 \in 0..Len(t)
          /\ Len(s) + (k - 1) = (Len(s) + k) - 1
      BY <1>1
    <3>2. f[Len(s) + k] = handle_joyevent(f[(Len(s) + k) - 1], st[Len(s) + k])
      BY <1>2, <3>1 DEF IsTrace
    <3>3. g[k] = f[Len(s) + k] /\ g[k - 1] = f[(Len(s) + k) - 1]
      BY <3>1
    <3>4. st[Len(s) + k] = t[k]
      BY <1>1
    <3> QED
      BY <3>2, <3>3, <3>4
  <2> QED
    BY <2>1, <2>2 DEF IsTrace
<1>5. AfterAll(f[Len(s)], t) = g[Len(t)]
  BY <1>1, <1>4, AfterAllIsLast
<1>6. g[Len(t)] = f[Len(st)]
  BY <1>1
<1> QED
  BY <1>1, <1>2, <1>3, <1>5, <1>6

\* Handling the oldest event of a queue leaves what is to come the same.
LEMMA AfterAllHead ==
  ASSUME NEW E, NEW q \in Seq(E), q # <<>>, NEW input
  PROVE  AfterAll(input, q) = AfterAll(handle_joyevent(input, Head(q)), Tail(q))
<1>1. Head(q) \in E /\ Tail(q) \in Seq(E) /\ <<Head(q)>> \in Seq(E)
  BY HeadTailProperties
<1>2. q = <<Head(q)>> \o Tail(q)
  OBVIOUS
<1> HIDE DEF AfterAll
<1>3. AfterAll(input, <<Head(q)>> \o Tail(q))
        = AfterAll(AfterAll(input, <<Head(q)>>), Tail(q))
  BY <1>1, AfterAllConcat
<1> QED
  BY <1>2, <1>3, AfterAllOne

\* What an event can do to an input state, all the events of a sequence can.
LEMMA AfterAllStays ==
  ASSUME NEW E, NEW events \in Seq(E), NEW input,
         NEW Inputs, input \in Inputs,
         \A i \in Inputs, e \in E : handle_joyevent(i, e) \in Inputs
  PROVE  AfterAll(input, events) \in Inputs
<1>1. Len(events) \in Nat /\ \A k \in 1..Len(events) : events[k] \in E
  BY LenProperties, ElementOfSeq
<1>2. PICK f : /\ IsTrace(f, input, events)
               /\ AfterAll(input, events) = f[Len(events)]
  BY <1>1, AfterAllTrace
<1> DEFINE Bad == {k \in 0..Len(events) : f[k] \notin Inputs}
<1>3. SUFFICES ASSUME Bad # {} PROVE FALSE
  BY <1>1, <1>2
<1>4. PICK k \in Bad : \A j \in Bad : k <= j
  <2>1. Bad \in SUBSET Nat
    BY <1>1
  <2> HIDE DEF Bad
  <2> QED
    BY <1>3, <2>1, LeastNumber
<1>5. k # 0
  BY <1>2 DEF IsTrace
<1>6. k \in 1..Len(events) /\ k - 1 \in 0..Len(events) /\ k - 1 \notin Bad
  <2>1. k \in 0..Len(events)
    OBVIOUS
  <2> HIDE DEF Bad
  <2> QED
    BY <1>1, <1>4, <1>5, <2>1
<1>7. f[k - 1] \in Inputs
  BY <1>6
<1>8. f[k] = handle_joyevent(f[k - 1], events[k])
  BY <1>2, <1>6 DEF IsTrace
<1> QED
  BY <1>1, <1>6, <1>7, <1>8

-----------------------------------------------------------------------------
(* What each event does to an input state.                                 *)

ButtonEvents ==
  {DownEvent(p, b) : p \in Players, b \in SUBSET Buttons}
    \cup {UpEvent(p, b) : p \in Players, b \in SUBSET Buttons}
    \cup {StatusEvent(c) : c \in BOOLEAN}
AnalogEvents == {AnalogEvent(a, v) : a \in Axes, v \in SticksAt}
MusicEvents == {MusicEvent(c) : c \in BOOLEAN}
Events == ButtonEvents \cup AnalogEvents \cup AimEvents \cup MusicEvents

LEMMA HandleDown ==
  ASSUME NEW i \in InputState, NEW p \in Players, NEW b \in SUBSET Buttons
  PROVE  LET o == handle_joyevent(i, DownEvent(p, b))
         IN  /\ o \in InputState
             /\ o.buttons[p] = i.buttons[p] \cup b
             /\ \A r \in Players \ {p} : o.buttons[r] = i.buttons[r]
             /\ o.p2_connected = i.p2_connected
             /\ o.stick = i.stick /\ o.music = i.music /\ o.aim = i.aim
<1> DEFINE b2 == [i.buttons EXCEPT ![p] = @ \cup b]
<1>1. handle_joyevent(i, DownEvent(p, b)) = [i EXCEPT !.buttons = b2]
  BY DEF handle_joyevent, DownEvent
<1>2. /\ b2 \in [Players -> SUBSET Buttons]
      /\ b2[p] = i.buttons[p] \cup b
      /\ \A r \in Players \ {p} : b2[r] = i.buttons[r]
  BY DEF InputState, Players
<1> HIDE DEF b2
<1> QED
  BY <1>1, <1>2 DEF InputState

LEMMA HandleUp ==
  ASSUME NEW i \in InputState, NEW p \in Players, NEW b \in SUBSET Buttons
  PROVE  LET o == handle_joyevent(i, UpEvent(p, b))
         IN  /\ o \in InputState
             /\ o.buttons[p] = i.buttons[p] \ b
             /\ \A r \in Players \ {p} : o.buttons[r] = i.buttons[r]
             /\ o.p2_connected = i.p2_connected
             /\ o.stick = i.stick /\ o.music = i.music /\ o.aim = i.aim
<1> DEFINE b2 == [i.buttons EXCEPT ![p] = @ \ b]
<1>1. handle_joyevent(i, UpEvent(p, b)) = [i EXCEPT !.buttons = b2]
  BY DEF handle_joyevent, UpEvent
<1>2. /\ b2 \in [Players -> SUBSET Buttons]
      /\ b2[p] = i.buttons[p] \ b
      /\ \A r \in Players \ {p} : b2[r] = i.buttons[r]
  BY DEF InputState, Players
<1> HIDE DEF b2
<1> QED
  BY <1>1, <1>2 DEF InputState

LEMMA HandleStatus ==
  ASSUME NEW i \in InputState, NEW c \in BOOLEAN
  PROVE  LET o == handle_joyevent(i, StatusEvent(c))
         IN  /\ o \in InputState
             /\ o.buttons[0] = i.buttons[0]
             /\ o.buttons[1] = IF c THEN i.buttons[1] ELSE {}
             /\ o.p2_connected = c
             /\ \A a \in Axes : a[1] = 0 => o.stick[a] = i.stick[a]
             /\ o.music = i.music /\ o.aim = i.aim
<1>1. handle_joyevent(i, StatusEvent(c)) = SetPlayer2(i, c)
  BY DEF handle_joyevent, StatusEvent
<1>2. CASE c
  <2>1. SetPlayer2(i, c) = [i EXCEPT !.p2_connected = TRUE]
    BY <1>2 DEF SetPlayer2
  <2> QED
    BY <1>1, <1>2, <2>1 DEF InputState
<1>3. CASE ~c
  <2> DEFINE b == [i.buttons EXCEPT ![1] = {}]
             s == [a \in Axes |-> IF a[1] = 1 THEN Center ELSE i.stick[a]]
  <2>1. SetPlayer2(i, c)
          = [i EXCEPT !.p2_connected = FALSE, !.buttons = b, !.stick = s]
    BY <1>3 DEF SetPlayer2
  <2>2. /\ b \in [Players -> SUBSET Buttons] /\ b[0] = i.buttons[0] /\ b[1] = {}
        /\ s \in [Axes -> SticksAt] /\ \A a \in Axes : a[1] = 0 => s[a] = i.stick[a]
    BY JoyEventsAssumption DEF InputState, Players
  <2> HIDE DEF b, s
  <2> QED
    BY <1>1, <1>3, <2>1, <2>2 DEF InputState
<1> QED
  BY <1>2, <1>3

LEMMA HandleAnalog ==
  ASSUME NEW i \in InputState, NEW a \in Axes, NEW v \in SticksAt
  PROVE  LET o == handle_joyevent(i, AnalogEvent(a, v))
         IN  /\ o \in InputState
             /\ o.stick[a] = v
             /\ \A b \in Axes \ {a} : o.stick[b] = i.stick[b]
             /\ o.buttons = i.buttons /\ o.p2_connected = i.p2_connected
             /\ o.music = i.music /\ o.aim = i.aim
BY DEF handle_joyevent, AnalogEvent, InputState

LEMMA HandleAim ==
  ASSUME NEW i \in InputState, NEW e \in AimEvents
  PROVE  LET o == handle_joyevent(i, e)
         IN  /\ o \in InputState
             /\ o.aim = e
             /\ o.buttons = i.buttons /\ o.p2_connected = i.p2_connected
             /\ o.stick = i.stick /\ o.music = i.music
<1>1. e.type \in {"aim", "offscreen", "release"}
  BY DEF AimEvents, AimEvent, OffscreenEvent, ReleaseEvent
<1> QED
  BY <1>1 DEF handle_joyevent, InputState

LEMMA HandleMusic ==
  ASSUME NEW i \in InputState, NEW c \in BOOLEAN
  PROVE  LET o == handle_joyevent(i, MusicEvent(c))
         IN  /\ o \in InputState
             /\ o.music = c
             /\ o.buttons = i.buttons /\ o.p2_connected = i.p2_connected
             /\ o.stick = i.stick /\ o.aim = i.aim
BY DEF handle_joyevent, MusicEvent, InputState

\* Which events leave which part of the input alone.
LEMMA HandleFrame ==
  ASSUME NEW i \in InputState, NEW e \in Events
  PROVE  /\ handle_joyevent(i, e) \in InputState
         /\ e \notin ButtonEvents =>
              /\ handle_joyevent(i, e).buttons = i.buttons
              /\ handle_joyevent(i, e).p2_connected = i.p2_connected
         /\ e \notin AimEvents => handle_joyevent(i, e).aim = i.aim
         /\ e \notin MusicEvents => handle_joyevent(i, e).music = i.music
         /\ e \notin AnalogEvents =>
              \A a \in Axes : a[1] = 0 => handle_joyevent(i, e).stick[a] = i.stick[a]
<1> HIDE DEF Events
<1>1. CASE e \in AimEvents
  BY <1>1, HandleAim
<1>2. CASE e \in AnalogEvents
  BY <1>2, HandleAnalog DEF AnalogEvents
<1>3. CASE e \in MusicEvents
  BY <1>3, HandleMusic DEF MusicEvents
<1>4. CASE e \in ButtonEvents
  <2>1. CASE \E p \in Players, b \in SUBSET Buttons : e = DownEvent(p, b)
    BY <2>1, HandleDown, <1>4
  <2>2. CASE \E p \in Players, b \in SUBSET Buttons : e = UpEvent(p, b)
    BY <2>2, HandleUp, <1>4
  <2>3. CASE \E c \in BOOLEAN : e = StatusEvent(c)
    BY <2>3, HandleStatus, <1>4
  <2> QED
    BY <1>4, <2>1, <2>2, <2>3 DEF ButtonEvents
<1> QED
  BY <1>1, <1>2, <1>3, <1>4 DEF Events

LEMMA AfterAllTyped ==
  ASSUME NEW i \in InputState, NEW s \in Seq(Events)
  PROVE  AfterAll(i, s) \in InputState
BY HandleFrame, AfterAllStays

\* Events of other types do not touch the buttons, the aim or the music flag.
LEMMA AfterAllFrame ==
  ASSUME NEW i \in InputState, NEW E \in SUBSET Events, NEW s \in Seq(E)
  PROVE  /\ E \cap ButtonEvents = {} =>
              /\ AfterAll(i, s).buttons = i.buttons
              /\ AfterAll(i, s).p2_connected = i.p2_connected
         /\ E \cap AimEvents = {} => AfterAll(i, s).aim = i.aim
         /\ E \cap MusicEvents = {} => AfterAll(i, s).music = i.music
<1> HIDE DEF Events, InputState
<1>1. ASSUME E \cap ButtonEvents = {}
      PROVE  /\ AfterAll(i, s).buttons = i.buttons
             /\ AfterAll(i, s).p2_connected = i.p2_connected
  <2> DEFINE Same == {j \in InputState : /\ j.buttons = i.buttons
                                         /\ j.p2_connected = i.p2_connected}
  <2>1. \A j \in Same, e \in E : handle_joyevent(j, e) \in Same
    BY <1>1, HandleFrame
  <2>2. i \in Same
    OBVIOUS
  <2> HIDE DEF Same
  <2>3. AfterAll(i, s) \in Same
    BY <2>1, <2>2, AfterAllStays
  <2> QED
    BY <2>3 DEF Same
<1>2. ASSUME E \cap AimEvents = {}
      PROVE  AfterAll(i, s).aim = i.aim
  <2> DEFINE Same == {j \in InputState : j.aim = i.aim}
  <2>1. \A j \in Same, e \in E : handle_joyevent(j, e) \in Same
    BY <1>2, HandleFrame
  <2>2. i \in Same
    OBVIOUS
  <2> HIDE DEF Same
  <2>3. AfterAll(i, s) \in Same
    BY <2>1, <2>2, AfterAllStays
  <2> QED
    BY <2>3 DEF Same
<1>3. ASSUME E \cap MusicEvents = {}
      PROVE  AfterAll(i, s).music = i.music
  <2> DEFINE Same == {j \in InputState : j.music = i.music}
  <2>1. \A j \in Same, e \in E : handle_joyevent(j, e) \in Same
    BY <1>3, HandleFrame
  <2>2. i \in Same
    OBVIOUS
  <2> HIDE DEF Same
  <2>3. AfterAll(i, s) \in Same
    BY <2>1, <2>2, AfterAllStays
  <2> QED
    BY <2>3 DEF Same
<1> QED
  BY <1>1, <1>2, <1>3

-----------------------------------------------------------------------------
(* The buttons and player 2's presence, which depend on nothing else.      *)

SameHeld(i, j) ==
  /\ i.buttons[0] = j.buttons[0]
  /\ i.buttons[1] = j.buttons[1]
  /\ i.p2_connected = j.p2_connected

LEMMA HandleSameHeld ==
  ASSUME NEW i \in InputState, NEW j \in InputState, SameHeld(i, j),
         NEW e \in Events
  PROVE  SameHeld(handle_joyevent(i, e), handle_joyevent(j, e))
<1> USE DEF SameHeld
<1>1. CASE e \notin ButtonEvents
  BY <1>1, HandleFrame
<1>2. CASE e \in ButtonEvents
  <2>1. ASSUME NEW p \in Players, NEW b \in SUBSET Buttons, e = DownEvent(p, b)
        PROVE  SameHeld(handle_joyevent(i, e), handle_joyevent(j, e))
    <3>1. /\ handle_joyevent(i, e).buttons[p] = i.buttons[p] \cup b
          /\ \A r \in Players \ {p} : handle_joyevent(i, e).buttons[r] = i.buttons[r]
          /\ handle_joyevent(i, e).p2_connected = i.p2_connected
      BY <2>1, HandleDown
    <3>2. /\ handle_joyevent(j, e).buttons[p] = j.buttons[p] \cup b
          /\ \A r \in Players \ {p} : handle_joyevent(j, e).buttons[r] = j.buttons[r]
          /\ handle_joyevent(j, e).p2_connected = j.p2_connected
      BY <2>1, HandleDown
    <3> QED
      BY <3>1, <3>2 DEF Players
  <2>2. ASSUME NEW p \in Players, NEW b \in SUBSET Buttons, e = UpEvent(p, b)
        PROVE  SameHeld(handle_joyevent(i, e), handle_joyevent(j, e))
    <3>1. /\ handle_joyevent(i, e).buttons[p] = i.buttons[p] \ b
          /\ \A r \in Players \ {p} : handle_joyevent(i, e).buttons[r] = i.buttons[r]
          /\ handle_joyevent(i, e).p2_connected = i.p2_connected
      BY <2>2, HandleUp
    <3>2. /\ handle_joyevent(j, e).buttons[p] = j.buttons[p] \ b
          /\ \A r \in Players \ {p} : handle_joyevent(j, e).buttons[r] = j.buttons[r]
          /\ handle_joyevent(j, e).p2_connected = j.p2_connected
      BY <2>2, HandleUp
    <3> QED
      BY <3>1, <3>2 DEF Players
  <2>3. ASSUME NEW c \in BOOLEAN, e = StatusEvent(c)
        PROVE  SameHeld(handle_joyevent(i, e), handle_joyevent(j, e))
    BY <2>3, HandleStatus
  <2> QED
    BY <1>2, <2>1, <2>2, <2>3 DEF ButtonEvents
<1> QED
  BY <1>1, <1>2

\* An event that is received twice in a row does what it does once.
LEMMA HandleTwice ==
  ASSUME NEW i \in InputState, NEW e \in Events
  PROVE  SameHeld(handle_joyevent(handle_joyevent(i, e), e), handle_joyevent(i, e))
<1> USE DEF SameHeld
<1>1. handle_joyevent(i, e) \in InputState
  BY HandleFrame
<1>2. CASE e \notin ButtonEvents
  BY <1>1, <1>2, HandleFrame
<1>3. CASE e \in ButtonEvents
  <2>1. ASSUME NEW p \in Players, NEW b \in SUBSET Buttons, e = DownEvent(p, b)
        PROVE  SameHeld(handle_joyevent(handle_joyevent(i, e), e),
                        handle_joyevent(i, e))
    <3> DEFINE o == handle_joyevent(i, e)
    <3>1. /\ o.buttons[p] = i.buttons[p] \cup b
          /\ \A r \in Players \ {p} : o.buttons[r] = i.buttons[r]
          /\ o.p2_connected = i.p2_connected
          /\ o \in InputState
      BY <2>1, HandleDown
    <3> HIDE DEF o
    <3>2. /\ handle_joyevent(o, e).buttons[p] = o.buttons[p] \cup b
          /\ \A r \in Players \ {p} : handle_joyevent(o, e).buttons[r] = o.buttons[r]
          /\ handle_joyevent(o, e).p2_connected = o.p2_connected
      BY <2>1, <3>1, HandleDown
    <3>3. SameHeld(handle_joyevent(o, e), o)
      BY <3>1, <3>2 DEF Players
    <3> QED
      BY <3>3 DEF o
  <2>2. ASSUME NEW p \in Players, NEW b \in SUBSET Buttons, e = UpEvent(p, b)
        PROVE  SameHeld(handle_joyevent(handle_joyevent(i, e), e),
                        handle_joyevent(i, e))
    <3> DEFINE o == handle_joyevent(i, e)
    <3>1. /\ o.buttons[p] = i.buttons[p] \ b
          /\ \A r \in Players \ {p} : o.buttons[r] = i.buttons[r]
          /\ o.p2_connected = i.p2_connected
          /\ o \in InputState
      BY <2>2, HandleUp
    <3> HIDE DEF o
    <3>2. /\ handle_joyevent(o, e).buttons[p] = o.buttons[p] \ b
          /\ \A r \in Players \ {p} : handle_joyevent(o, e).buttons[r] = o.buttons[r]
          /\ handle_joyevent(o, e).p2_connected = o.p2_connected
      BY <2>2, <3>1, HandleUp
    <3>3. SameHeld(handle_joyevent(o, e), o)
      BY <3>1, <3>2 DEF Players
    <3> QED
      BY <3>3 DEF o
  <2>3. ASSUME NEW c \in BOOLEAN, e = StatusEvent(c)
        PROVE  SameHeld(handle_joyevent(handle_joyevent(i, e), e),
                        handle_joyevent(i, e))
    BY <1>1, <2>3, HandleStatus
  <2> QED
    BY <1>3, <2>1, <2>2, <2>3 DEF ButtonEvents
<1> QED
  BY <1>2, <1>3

LEMMA AfterAllSameHeld ==
  ASSUME NEW i \in InputState, NEW j \in InputState, SameHeld(i, j),
         NEW s \in Seq(Events)
  PROVE  SameHeld(AfterAll(i, s), AfterAll(j, s))
<1>1. Len(s) \in Nat /\ \A k \in 1..Len(s) : s[k] \in Events
  BY LenProperties, ElementOfSeq
<1>2. PICK f : IsTrace(f, i, s) /\ AfterAll(i, s) = f[Len(s)]
  BY <1>1, AfterAllTrace
<1>3. PICK g : IsTrace(g, j, s) /\ AfterAll(j, s) = g[Len(s)]
  BY <1>1, AfterAllTrace
<1> DEFINE Good(k) == f[k] \in InputState /\ g[k] \in InputState /\ SameHeld(f[k], g[k])
           Bad == {k \in 0..Len(s) : ~Good(k)}
<1>4. SUFFICES ASSUME Bad # {} PROVE FALSE
  BY <1>1, <1>2, <1>3
<1>5. PICK k \in Bad : \A l \in Bad : k <= l
  <2>1. Bad \in SUBSET Nat
    BY <1>1
  <2> HIDE DEF Bad
  <2> QED
    BY <1>4, <2>1, LeastNumber
<1>6. k # 0
  BY <1>2, <1>3 DEF IsTrace
<1>7. k \in 1..Len(s) /\ k - 1 \in 0..Len(s) /\ k - 1 \notin Bad
  <2>1. k \in 0..Len(s)
    OBVIOUS
  <2> HIDE DEF Bad
  <2> QED
    BY <1>1, <1>5, <1>6, <2>1
<1>8. Good(k - 1)
  BY <1>7
<1>9. /\ f[k] = handle_joyevent(f[k - 1], s[k])
      /\ g[k] = handle_joyevent(g[k - 1], s[k])
      /\ s[k] \in Events
  BY <1>1, <1>2, <1>3, <1>7 DEF IsTrace
<1>10. Good(k)
  BY <1>8, <1>9, HandleFrame, HandleSameHeld
<1> QED
  BY <1>10

\* A queue whose head the PSP has received already comes to the same.
LEMMA AfterAllHeadTwice ==
  ASSUME NEW i \in InputState, NEW q \in Seq(Events), q # <<>>
  PROVE  /\ handle_joyevent(i, Head(q)) \in InputState
         /\ SameHeld(AfterAll(handle_joyevent(i, Head(q)), q), AfterAll(i, q))
<1>1. Head(q) \in Events /\ Tail(q) \in Seq(Events)
  BY HeadTailProperties
<1> DEFINE once == handle_joyevent(i, Head(q))
           twice == handle_joyevent(once, Head(q))
<1>2. once \in InputState /\ twice \in InputState /\ SameHeld(twice, once)
  BY <1>1, HandleFrame, HandleTwice
<1> HIDE DEF once, twice
<1>3. SameHeld(AfterAll(twice, Tail(q)), AfterAll(once, Tail(q)))
  BY <1>1, <1>2, AfterAllSameHeld
<1>4. AfterAll(once, q) = AfterAll(twice, Tail(q)) /\ AfterAll(i, q) = AfterAll(once, Tail(q))
  BY AfterAllHead DEF once, twice
<1> QED
  BY <1>2, <1>3, <1>4 DEF once

=============================================================================
