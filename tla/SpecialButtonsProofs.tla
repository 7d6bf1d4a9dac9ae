------------------------- MODULE SpecialButtonsProofs -------------------------
(***************************************************************************)
(* Theorems about special_button_thread, for every set of buttons, every   *)
(* hold and repeat time and every number of events.                        *)
(*                                                                         *)
(* ActsWerePressed speaks of what was done; what makes it inductive is     *)
(* PressesOwed, which counts the presses the thread has yet to act on: the *)
(* one it is timing, the one it has read and the one it will read next.    *)
(***************************************************************************)
EXTENDS SpecialButtons, TLAPS

\* What a hold remembers: time up to its limit, and that the limit was passed.
LEMMA HoldFacts ==
  ASSUME NEW long \in Nat \ {0},
         NEW h \in [time : 0..long, long_done : BOOLEAN],
         NEW before \in BOOLEAN, NEW now \in BOOLEAN
  PROVE  /\ Hold(h, before, now, long) \in [time : 0..long, long_done : BOOLEAN]
         /\ now /\ before /\ h.long_done => Hold(h, before, now, long).long_done
<1> DEFINE start == IF now /\ ~before THEN NotHeld ELSE h
           time  == AtMost(start.time + 1, long)
<1>1. NotHeld \in [time : 0..long, long_done : BOOLEAN]
  BY DEF NotHeld
<1>2. /\ start \in [time : 0..long, long_done : BOOLEAN]
      /\ before => start = h
  BY <1>1
<1> HIDE DEF start
<1>3. time \in 0..long
  BY <1>2 DEF AtMost
<1> HIDE DEF time
<1> DEFINE done == start.long_done \/ time >= long
<1>4. done \in BOOLEAN /\ (before /\ h.long_done => done)
  BY <1>2, Zenon
<1>5. Hold(h, before, now, long) =
        IF now THEN [time |-> time, long_done |-> done]
        ELSE IF before THEN NotHeld ELSE h
  BY DEF Hold, start, time
<1> HIDE DEF done
<1> QED
  BY <1>1, <1>3, <1>4, <1>5

-----------------------------------------------------------------------------
LEMMA InitTypeOK == Init => TypeOK
<1> SUFFICES ASSUME Init PROVE TypeOK
  OBVIOUS
<1>1. /\ NotHeld \in [time : 0..SOUND_HOLD, long_done : BOOLEAN]
      /\ NotHeld \in [time : 0..DISPLAY_HOLD, long_done : BOOLEAN]
  BY SpecialButtonsAssumption DEF NotHeld
<1>2. wait \in [Volumes -> 0..(VOLUME_REPEAT_DELAY + VOLUME_REPEAT_INTERVAL)]
  BY SpecialButtonsAssumption DEF Init
<1>3. /\ owed \in [Asked -> 0..2] /\ released \in 0..2
      /\ events \in 0..MaxEvents
  BY SpecialButtonsAssumption DEF Init
<1> QED
  BY <1>1, <1>2, <1>3 DEF Init, TypeOK

LEMMA OweTypeOK ==
  ASSUME TypeOK, NEW news, Owe(news)
  PROVE  owed' \in [Asked -> 0..2]
  BY DEF TypeOK, Owe, AtMost

LEMMA EventTypeOK ==
  ASSUME TypeOK, handle_joyevent
  PROVE  TypeOK'
<1>1. held' \subseteq Buttons /\ music_controller' \in BOOLEAN
  BY SpecialButtonsAssumption DEF TypeOK, handle_joyevent
<1>2. intercept_buttons' \subseteq {"HOME"}
  BY DEF handle_joyevent, update_system_button_intercepts
<1>3. owed' \in [Asked -> 0..2]
  BY OweTypeOK DEF handle_joyevent
<1>4. events' \in 0..MaxEvents /\ released' \in 0..2
  BY SpecialButtonsAssumption DEF TypeOK, handle_joyevent
<1> QED
  BY <1>1, <1>2, <1>3, <1>4
     DEF TypeOK, handle_joyevent, poll, seen, history

LEMMA ResetTypeOK ==
  ASSUME TypeOK, reset_remote_input_state
  PROVE  TypeOK'
<1>1. CASE reset_by_main_thread \/ reset_by_power_callback
  <2>1. ClearInputs
    BY <1>1 DEF reset_by_main_thread, reset_by_power_callback
  <2>2. owed' \in [Asked -> 0..2]
    BY <2>1, OweTypeOK DEF ClearInputs
  <2>3. events' \in 0..MaxEvents /\ released' \in 0..2
    BY <2>1, SpecialButtonsAssumption DEF TypeOK, ClearInputs
  <2>4. intercept_buttons' \subseteq {"HOME"} /\ resetting' \in BOOLEAN
    BY <1>1 DEF TypeOK, reset_by_main_thread, reset_by_power_callback
  <2> QED
    BY <2>1, <2>2, <2>3, <2>4 DEF TypeOK, ClearInputs, poll, seen, history
<1>2. CASE power_callback_clears_intercepts
  BY <1>2 DEF TypeOK, power_callback_clears_intercepts, poll, seen, history
<1> QED
  BY <1>1, <1>2 DEF reset_remote_input_state

\* The steps of a poll before it acts read the inputs.
LEMMA ReadsTypeOK ==
  ASSUME TypeOK, get_current_buttons \/ ReadCombo
  PROVE  TypeOK'
<1>1. CASE get_current_buttons
  BY <1>1 DEF TypeOK, get_current_buttons, inputs, seen, history
<1>2. CASE ReadCombo
  <2>1. is_display_combo(buttons, music_controller) \in BOOLEAN
    BY Zenon DEF is_display_combo
  <2>2. display_combo' \in BOOLEAN
    BY <1>2, <2>1, Zenon DEF ReadCombo
  <2> QED
    BY <1>2, <2>2 DEF TypeOK, ReadCombo, inputs, seen, history
<1> QED
  BY <1>1, <1>2

\* What the poll takes from the one before has its type, whether or not a
\* reset intervened.
LEMMA HoldsTyped ==
  ASSUME TypeOK
  PROVE  /\ Since(sound) \in [time : 0..SOUND_HOLD, long_done : BOOLEAN]
         /\ Since(display) \in [time : 0..DISPLAY_HOLD, long_done : BOOLEAN]
         /\ Sound \in [time : 0..SOUND_HOLD, long_done : BOOLEAN]
         /\ Display \in [time : 0..DISPLAY_HOLD, long_done : BOOLEAN]
         /\ BeforeCombo \in BOOLEAN
<1>1. /\ NotHeld \in [time : 0..SOUND_HOLD, long_done : BOOLEAN]
      /\ NotHeld \in [time : 0..DISPLAY_HOLD, long_done : BOOLEAN]
  BY SpecialButtonsAssumption DEF NotHeld
<1>2. /\ Since(sound) \in [time : 0..SOUND_HOLD, long_done : BOOLEAN]
      /\ Since(display) \in [time : 0..DISPLAY_HOLD, long_done : BOOLEAN]
  BY <1>1 DEF TypeOK, Since
<1>3. BeforeCombo \in BOOLEAN /\ display_combo \in BOOLEAN
  BY DEF TypeOK, BeforeCombo
<1>4. Sound \in [time : 0..SOUND_HOLD, long_done : BOOLEAN]
  <2>1. ("NOTE" \in Before) \in BOOLEAN /\ ("NOTE" \in buttons) \in BOOLEAN
    OBVIOUS
  <2> QED
    BY <1>2, <2>1, HoldFacts, SpecialButtonsAssumption DEF Sound
<1>5. Display \in [time : 0..DISPLAY_HOLD, long_done : BOOLEAN]
  BY <1>2, <1>3, HoldFacts, SpecialButtonsAssumption DEF Display
<1> QED
  BY <1>2, <1>3, <1>4, <1>5

LEMMA PollTypeOK ==
  ASSUME TypeOK, Poll
  PROVE  TypeOK'
<1>1. wait' \in [Volumes -> 0..(VOLUME_REPEAT_DELAY + VOLUME_REPEAT_INTERVAL)]
  <2> SUFFICES ASSUME NEW b \in Volumes
               PROVE  Volume(b).wait \in 0..(VOLUME_REPEAT_DELAY + VOLUME_REPEAT_INTERVAL)
    BY DEF Poll
  <2>1. Wait(b) \in 0..(VOLUME_REPEAT_DELAY + VOLUME_REPEAT_INTERVAL)
    BY SpecialButtonsAssumption DEF TypeOK, Wait
  <2> DEFINE combo == {"START", b} \subseteq buttons
             press == combo /\ b \notin Before
             now   == (IF press THEN VOLUME_REPEAT_DELAY ELSE Wait(b)) - 1
  <2>2. Volume(b).wait = IF ~combo THEN 0
                         ELSE IF now <= 0 THEN VOLUME_REPEAT_INTERVAL ELSE now
    BY DEF Volume, Steps
  <2>3. now \in Int /\ now <= VOLUME_REPEAT_DELAY + VOLUME_REPEAT_INTERVAL
    BY <2>1, SpecialButtonsAssumption
  <2> HIDE DEF now, combo
  <2> QED
    BY <2>2, <2>3, SpecialButtonsAssumption
<1>2. /\ sound' \in [time : 0..SOUND_HOLD, long_done : BOOLEAN]
      /\ display' \in [time : 0..DISPLAY_HOLD, long_done : BOOLEAN]
  BY HoldsTyped DEF Poll
<1>3. acts' \subseteq Volumes \cup Asked
  BY DEF Poll
<1>4. unasked' \subseteq Asked
  BY DEF Poll, TypeOK
<1>5. owed' \in [Asked -> 0..2]
  BY DEF Poll, TypeOK
<1>6. released' \in 0..2
  BY DEF Poll, TypeOK, AtMost
<1> QED
  BY <1>1, <1>2, <1>3, <1>4, <1>5, <1>6 DEF TypeOK, Poll, inputs

LEMMA NextTypeOK == TypeOK /\ [Next]_vars => TypeOK'
<1> SUFFICES ASSUME TypeOK, [Next]_vars PROVE TypeOK'
  OBVIOUS
<1>1. CASE UNCHANGED vars
  BY <1>1 DEF TypeOK, vars, inputs, poll, seen, history
<1> QED
  BY <1>1, EventTypeOK, ResetTypeOK, ReadsTypeOK, PollTypeOK
     DEF Next, special_button_thread

\* Every counter of special_button_thread stays below its limit.
THEOREM TypeCorrect == Spec => []TypeOK
  BY InitTypeOK, NextTypeOK, PTL DEF Spec

\* HOME, once let go of, is no longer withheld from the game, except between
\* the two halves of a reset by power_callback.
THEOREM InterceptFollows == Spec => []InterceptReleased
<1>1. Init => InterceptReleased
  BY DEF Init, InterceptReleased
<1>2. InterceptReleased /\ [Next]_vars => InterceptReleased'
  BY DEF InterceptReleased, Next, vars, inputs, handle_joyevent,
         update_system_button_intercepts, reset_remote_input_state,
         ClearInputs, reset_by_main_thread, reset_by_power_callback,
         power_callback_clears_intercepts,
         special_button_thread, get_current_buttons, ReadCombo, Poll
<1> QED
  BY <1>1, <1>2, PTL DEF Spec

-----------------------------------------------------------------------------
\* What the console does on a press, and what can be said of it: under POPS the
\* music flag decides whether START + LEFT is the display combination, and the
\* poll reads it after the buttons.
Kept == IF is_pops_context THEN {"sound", "home"} ELSE Asked

\* What presses a, whatever the music flag.
Held(a, bs) ==
  CASE a = "sound"      -> "NOTE" \in bs
    [] a = "home"       -> "HOME" \in bs
    [] a = "brightness" -> {"START", "LEFT"} \subseteq bs

\* The thread has seen the press, and its release may still act.
Timed(a) ==
  /\ ~reset_unseen
  /\ Held(a, prev_buttons)
  /\ \/ a = "sound" /\ ~sound.long_done
     \/ a = "brightness" /\ ~display.long_done

\* The poll under way, or else the next one, finds a pressed.
Found(a) ==
  /\ Held(a, IF pc = "sample" THEN held ELSE buttons)
  /\ reset_unseen \/ ~Held(a, prev_buttons)

\* a was pressed after the poll under way had read the buttons.
Missed(a) == pc # "sample" /\ Held(a, held) /\ ~Held(a, buttons)

\* A press for everything the thread has yet to act on.
PressesOwed ==
  \A a \in Kept :
    /\ Timed(a) \/ Found(a) \/ Missed(a) => owed[a] >= 1
    /\ Timed(a) /\ (Found(a) \/ Missed(a)) => owed[a] >= 2

\* Outside POPS the display combination follows the buttons it was read from.
ComboFollows ==
  ~is_pops_context =>
    /\ prev_display_combo <=> Held("brightness", prev_buttons)
    /\ pc = "act" => (display_combo <=> Held("brightness", buttons))

AInv == TypeOK /\ PressesOwed /\ ComboFollows /\ ActsWerePressed

\* Held is what is asked, for what the music flag does not decide.
LEMMA HeldIsAsked ==
  ASSUME NEW a \in Kept, NEW bs, NEW music
  PROVE  /\ a \in Asked
         /\ Asks(a, bs, music) <=> Held(a, bs)
<1>1. /\ a \in Asked
      /\ a = "brightness" => ~is_pops_context
  BY DEF Kept, Asked
<1>2. CASE a = "sound"
  BY <1>2 DEF Asks, Held, Asked
<1>3. CASE a = "home"
  BY <1>3 DEF Asks, Held, Asked
<1>4. CASE a = "brightness"
  BY <1>1, <1>4 DEF Asks, Held, Asked, is_display_combo
<1> QED
  BY <1>1, <1>2, <1>3, <1>4 DEF Asked

LEMMA NothingHeld ==
  ASSUME NEW a \in Asked
  PROVE  ~Held(a, {})
  BY DEF Held, Asked

\* Owe adds one for every press, up to two.
LEMMA OweAdds ==
  ASSUME TypeOK, NEW news, Owe(news), NEW a \in Asked
  PROVE  /\ owed[a] \in 0..2
         /\ owed'[a] >= owed[a]
         /\ a \in news => owed'[a] >= 1 /\ (owed[a] >= 1 => owed'[a] >= 2)
  BY DEF TypeOK, Owe, AtMost

-----------------------------------------------------------------------------
\* A press by an event is owed at once.
LEMMA EventOwed ==
  ASSUME TypeOK, PressesOwed, handle_joyevent
  PROVE  PressesOwed'
<1> SUFFICES ASSUME NEW a \in Kept
             PROVE  /\ Timed(a)' \/ Found(a)' \/ Missed(a)' => owed'[a] >= 1
                    /\ Timed(a)' /\ (Found(a)' \/ Missed(a)') => owed'[a] >= 2
  BY DEF PressesOwed, Kept, handle_joyevent
<1> DEFINE news == {x \in Asked : /\ Asks(x, held', music_controller')
                                  /\ ~Asks(x, held, music_controller)}
<1>1. /\ owed[a] \in 0..2
      /\ owed'[a] >= owed[a]
      /\ a \in news => owed'[a] >= 1 /\ (owed[a] >= 1 => owed'[a] >= 2)
  BY HeldIsAsked, OweAdds DEF handle_joyevent
<1>2. a \in news <=> Held(a, held') /\ ~Held(a, held)
  BY HeldIsAsked
<1> HIDE DEF news
<1>3. UNCHANGED <<reset_unseen, pc, buttons, prev_buttons, sound, display>>
  BY DEF handle_joyevent, poll, seen
<1>4. Timed(a)' = Timed(a)
  BY <1>3 DEF Timed
<1>5. Found(a)' => Found(a) \/ a \in news
  BY <1>2, <1>3 DEF Found
<1>6. Missed(a)' => Missed(a) \/ a \in news
  BY <1>2, <1>3 DEF Missed
<1>7. /\ Timed(a) \/ Found(a) \/ Missed(a) => owed[a] >= 1
      /\ Timed(a) /\ (Found(a) \/ Missed(a)) => owed[a] >= 2
  BY DEF PressesOwed
<1>8. owed'[a] \in Nat
  BY HeldIsAsked, OweTypeOK DEF handle_joyevent
<1> QED
  BY <1>1, <1>4, <1>5, <1>6, <1>7, <1>8

\* After a reset only what the poll under way has read can still act.
LEMMA ResetOwed ==
  ASSUME TypeOK, PressesOwed, ClearInputs
  PROVE  PressesOwed'
<1> SUFFICES ASSUME NEW a \in Kept
             PROVE  /\ Timed(a)' \/ Found(a)' \/ Missed(a)' => owed'[a] >= 1
                    /\ Timed(a)' /\ (Found(a)' \/ Missed(a)') => owed'[a] >= 2
  BY DEF PressesOwed, Kept, ClearInputs
<1>1. a \in Asked /\ ~Held(a, {})
  BY HeldIsAsked, NothingHeld
<1>2. ~Timed(a)' /\ ~Missed(a)'
  BY <1>1 DEF ClearInputs, Timed, Missed
<1>3. Found(a)' => pc # "sample" /\ Held(a, buttons)
  BY <1>1 DEF ClearInputs, Found, poll
<1>4. Found(a)' => owed'[a] >= 1
  BY <1>1, <1>3, HeldIsAsked, OweAdds DEF ClearInputs
<1> QED
  BY <1>2, <1>4

\* Reading the buttons moves what was pressed into the poll.
LEMMA ReadsOwed ==
  ASSUME TypeOK, PressesOwed, get_current_buttons \/ ReadCombo
  PROVE  PressesOwed'
<1> SUFFICES ASSUME NEW a \in Kept
             PROVE  /\ Timed(a)' \/ Found(a)' \/ Missed(a)' => owed'[a] >= 1
                    /\ Timed(a)' /\ (Found(a)' \/ Missed(a)') => owed'[a] >= 2
  BY DEF PressesOwed, Kept, get_current_buttons, ReadCombo
<1>1. UNCHANGED <<reset_unseen, held, prev_buttons, sound, display, owed>>
  BY DEF get_current_buttons, ReadCombo, inputs, seen
<1>2. Timed(a)' = Timed(a)
  BY <1>1 DEF Timed
<1>3. Found(a)' => Found(a)
  BY <1>1 DEF get_current_buttons, ReadCombo, Found
<1>4. Missed(a)' => Missed(a)
  BY <1>1 DEF get_current_buttons, ReadCombo, Missed
<1> QED
  BY <1>1, <1>2, <1>3, <1>4 DEF PressesOwed

\* What the thread has seen pressed and goes on timing after this poll.
GoesOn(a) ==
  /\ Held(a, buttons)
  /\ \/ a = "sound" /\ ~Sound.long_done
     \/ a = "brightness" /\ ~Display.long_done

\* A poll acts on a press it was timing or has just found, and stops timing it.
LEMMA ActFacts ==
  ASSUME TypeOK, ComboFollows, pc = "act", NEW a \in Kept
  PROVE  /\ Does(a) => Timed(a) \/ Found(a)
         /\ Does(a) /\ ~Held(a, buttons) => Timed(a)
         /\ GoesOn(a) => ~Does(a) /\ (Timed(a) \/ Found(a))
<1>1. /\ a \in {"sound", "home", "brightness"}
      /\ a = "brightness" => ~is_pops_context
  BY DEF Kept, Asked
<1>2. CASE a = "sound"
  <2> DEFINE before == "NOTE" \in Before
             now == "NOTE" \in buttons
             h == Since(sound)
  <2>1. /\ Held(a, buttons) <=> now
        /\ Held(a, prev_buttons) <=> "NOTE" \in prev_buttons
        /\ Does(a) <=> \/ now /\ Sound.long_done /\ ~(before /\ h.long_done)
                       \/ before /\ ~now /\ ~h.long_done
        /\ GoesOn(a) <=> now /\ ~Sound.long_done
    BY <1>2 DEF Held, Does, Volumes, LongPress, ShortPress, Sound, GoesOn
  <2>2. now /\ before /\ h.long_done => Sound.long_done
    <3>1. before \in BOOLEAN /\ now \in BOOLEAN
      OBVIOUS
    <3> QED
      BY <3>1, HoldsTyped, HoldFacts, SpecialButtonsAssumption DEF Sound
  <2>3. /\ reset_unseen => (before <=> now)
        /\ ~reset_unseen => h = sound /\ (before <=> "NOTE" \in prev_buttons)
    BY DEF Before, Since
  <2> QED
    BY <1>2, <2>1, <2>2, <2>3 DEF Timed, Found
<1>3. CASE a = "home"
  <2>1. Does(a) => "HOME" \in buttons \ Before
    BY <1>3 DEF Does, Volumes
  <2>2. ~GoesOn(a)
    BY <1>3 DEF GoesOn
  <2> QED
    BY <1>3, <2>1, <2>2 DEF Found, Held, Before
<1>4. CASE a = "brightness"
  <2> DEFINE h == Since(display)
  <2>1. /\ display_combo <=> Held(a, buttons)
        /\ prev_display_combo <=> Held(a, prev_buttons)
    BY <1>1, <1>4 DEF ComboFollows
  <2>2. /\ Does(a) <=> BeforeCombo /\ ~display_combo /\ ~h.long_done
        /\ GoesOn(a) <=> Held(a, buttons) /\ ~Display.long_done
    BY <1>4 DEF Does, Volumes, ShortPress, GoesOn
  <2>3. display_combo /\ BeforeCombo /\ h.long_done => Display.long_done
    <3>1. display_combo \in BOOLEAN
      BY DEF TypeOK
    <3> QED
      BY <3>1, HoldsTyped, HoldFacts, SpecialButtonsAssumption DEF Display
  <2>4. /\ reset_unseen => (BeforeCombo <=> display_combo)
        /\ ~reset_unseen => h = display /\ (BeforeCombo <=> prev_display_combo)
    BY DEF BeforeCombo, Since
  <2> QED
    BY <1>4, <2>1, <2>2, <2>3, <2>4 DEF Timed, Found
<1> QED
  BY <1>1, <1>2, <1>3, <1>4

\* A poll pays for what it does.
LEMMA PollOwed ==
  ASSUME TypeOK, PressesOwed, ComboFollows, ActsWerePressed, Poll
  PROVE  PressesOwed' /\ ActsWerePressed'
<1>1. ASSUME NEW a \in Kept
      PROVE  /\ a \in acts' => owed[a] # 0
             /\ Timed(a)' \/ Found(a)' \/ Missed(a)' => owed'[a] >= 1
             /\ Timed(a)' /\ (Found(a)' \/ Missed(a)') => owed'[a] >= 2
  <2>1. a \in Asked /\ owed[a] \in 0..2
    BY HeldIsAsked DEF TypeOK
  <2>2. /\ a \in acts' <=> Does(a)
        /\ owed'[a] = IF a \in acts' /\ owed[a] > 0 THEN owed[a] - 1 ELSE owed[a]
    BY <2>1 DEF Poll
  <2>3. /\ Does(a) => Timed(a) \/ Found(a)
        /\ Does(a) /\ ~Held(a, buttons) => Timed(a)
        /\ GoesOn(a) => ~Does(a) /\ (Timed(a) \/ Found(a))
    BY ActFacts DEF Poll
  <2>4. /\ pc = "act" /\ pc' = "sample"
        /\ prev_buttons' = buttons /\ sound' = Sound /\ display' = Display
        /\ reset_unseen' = FALSE /\ held' = held
    BY DEF Poll, inputs
  <2>5. Timed(a)' <=> GoesOn(a)
    BY <2>4 DEF Timed, GoesOn
  <2>6. Found(a)' <=> Missed(a)
    BY <2>4 DEF Found, Missed
  <2>7. ~Missed(a)'
    BY <2>4 DEF Missed
  <2>8. /\ Timed(a) \/ Found(a) \/ Missed(a) => owed[a] >= 1
        /\ Timed(a) /\ (Found(a) \/ Missed(a)) => owed[a] >= 2
    BY DEF PressesOwed
  <2>9. /\ GoesOn(a) => Held(a, buttons)
        /\ Missed(a) => ~Held(a, buttons)
    BY DEF GoesOn, Missed
  <2>10. a \in acts' => owed[a] # 0
    BY <2>1, <2>2, <2>3, <2>8
  <2>11. CASE Does(a)
    BY <2>1, <2>2, <2>3, <2>5, <2>6, <2>7, <2>8, <2>9, <2>10, <2>11
  <2>12. CASE ~Does(a)
    BY <2>1, <2>2, <2>3, <2>5, <2>6, <2>7, <2>8, <2>9, <2>10, <2>12
  <2> QED
    BY <2>11, <2>12
<1>2. is_pops_context' = is_pops_context
  BY DEF Poll
<1>3. PressesOwed'
  BY <1>1, <1>2 DEF PressesOwed, Kept
<1>4. ActsWerePressed'
  <2>1. unasked' = unasked \cup {a \in acts' \cap Asked : owed[a] = 0}
    BY DEF Poll
  <2>2. {a \in acts' \cap Asked : owed[a] = 0} \cap Kept = {}
    BY <1>1
  <2>3. unasked' \subseteq Asked \ Kept
    BY <2>1, <2>2 DEF ActsWerePressed, Kept, Asked
  <2> QED
    BY <1>2, <2>3 DEF ActsWerePressed, Kept, Asked
<1> QED
  BY <1>3, <1>4

\* The display combination is read from the buttons of the poll, and kept.
LEMMA NextCombo ==
  ASSUME TypeOK, ComboFollows, [Next]_vars
  PROVE  ComboFollows'
<1>1. is_pops_context' = is_pops_context
  BY DEF Next, vars, handle_joyevent, reset_remote_input_state,
         ClearInputs, reset_by_main_thread, reset_by_power_callback,
         power_callback_clears_intercepts,
         special_button_thread, get_current_buttons, ReadCombo, Poll
<1> SUFFICES ASSUME ~is_pops_context
             PROVE  /\ prev_display_combo' <=> Held("brightness", prev_buttons')
                    /\ pc' = "act" =>
                         (display_combo' <=> Held("brightness", buttons'))
  BY <1>1 DEF ComboFollows
<1>2. CASE handle_joyevent \/ reset_remote_input_state \/ UNCHANGED vars
  BY <1>2 DEF ComboFollows, handle_joyevent, reset_remote_input_state, vars,
              ClearInputs, reset_by_main_thread, reset_by_power_callback,
              power_callback_clears_intercepts, poll, seen
<1>3. CASE get_current_buttons
  BY <1>3 DEF ComboFollows, get_current_buttons, seen
<1>4. CASE ReadCombo
  <2>1. display_combo' <=> {"START", "LEFT"} \subseteq buttons
    BY <1>4 DEF ReadCombo, is_display_combo
  <2> QED
    BY <1>4, <2>1 DEF ComboFollows, ReadCombo, seen, Held
<1>5. CASE Poll
  BY <1>5 DEF ComboFollows, Poll
<1> QED
  BY <1>2, <1>3, <1>4, <1>5 DEF Next, special_button_thread

-----------------------------------------------------------------------------
LEMMA InitAInv == Init => AInv
<1> SUFFICES ASSUME Init PROVE AInv
  OBVIOUS
<1>1. ActsWerePressed
  BY DEF Init, ActsWerePressed
<1>2. \A a \in Kept : ~Timed(a) /\ ~Found(a) /\ ~Missed(a)
  BY HeldIsAsked, NothingHeld DEF Init, Timed, Found, Missed
<1>3. ComboFollows
  BY DEF Init, ComboFollows, Held
<1> QED
  BY <1>1, <1>2, <1>3, InitTypeOK DEF AInv, PressesOwed

LEMMA NextAInv == AInv /\ [Next]_vars => AInv'
<1> SUFFICES ASSUME AInv, [Next]_vars PROVE AInv'
  OBVIOUS
<1> USE DEF AInv
<1>1. TypeOK' /\ ComboFollows'
  BY NextTypeOK, NextCombo
<1>2. CASE handle_joyevent
  <2>1. ActsWerePressed'
    BY <1>2 DEF ActsWerePressed, handle_joyevent, history
  <2> QED
    BY <1>1, <1>2, <2>1, EventOwed
<1>3. CASE reset_by_main_thread \/ reset_by_power_callback
  <2>1. ClearInputs
    BY <1>3 DEF reset_by_main_thread, reset_by_power_callback
  <2>2. ActsWerePressed'
    BY <2>1 DEF ActsWerePressed, ClearInputs, history
  <2> QED
    BY <1>1, <2>1, <2>2, ResetOwed
<1>4. CASE get_current_buttons \/ ReadCombo
  <2>1. ActsWerePressed'
    <3>1. UNCHANGED <<unasked, is_pops_context>>
      BY <1>4 DEF get_current_buttons, ReadCombo, history
    <3> QED
      BY <3>1 DEF ActsWerePressed
  <2> QED
    BY <1>1, <1>4, <2>1, ReadsOwed
<1>5. CASE Poll
  BY <1>1, <1>5, PollOwed
<1>6. CASE power_callback_clears_intercepts \/ UNCHANGED vars
  <2>1. ActsWerePressed'
    <3>1. UNCHANGED <<unasked, is_pops_context>>
      BY <1>6 DEF power_callback_clears_intercepts, vars, history
    <3> QED
      BY <3>1 DEF ActsWerePressed
  <2>2. PressesOwed'
    BY <1>6 DEF PressesOwed, Kept, Timed, Found, Missed,
                power_callback_clears_intercepts, vars, inputs, poll, seen
  <2> QED
    BY <1>1, <2>1, <2>2
<1> QED
  BY <1>2, <1>3, <1>4, <1>5, <1>6
     DEF Next, reset_remote_input_state, special_button_thread

\* However events, resets and polls interleave, and whatever the hold times,
\* NOTE, HOME and the display combination act no more often than they are
\* pressed (under POPS the display combination is excepted).
THEOREM OnlyPressesAct == Spec => []ActsWerePressed
  BY InitAInv, NextAInv, PTL DEF Spec, AInv

-----------------------------------------------------------------------------
\* What the polls since the last event have seen: the first of them that ends
\* with nothing held may still have read the buttons before their release, and
\* the next one reads none and remembers none.
NothingSeen ==
  /\ released >= 1 => /\ held = {}
                      /\ pc # "sample" => buttons = {}
                      /\ pc = "act" => ~display_combo
  /\ released = 2 => prev_buttons = {} /\ ~prev_display_combo /\ ~reset_unseen

LEMMA NextNothingSeen == TypeOK /\ NothingSeen /\ [Next]_vars => NothingSeen'
<1> SUFFICES ASSUME TypeOK, NothingSeen, [Next]_vars PROVE NothingSeen'
  OBVIOUS
<1>1. CASE handle_joyevent
  BY <1>1 DEF handle_joyevent, NothingSeen
<1>2. CASE reset_by_main_thread \/ reset_by_power_callback
  BY <1>2 DEF reset_by_main_thread, reset_by_power_callback, ClearInputs, NothingSeen
<1>3. CASE power_callback_clears_intercepts \/ UNCHANGED vars
  BY <1>3 DEF power_callback_clears_intercepts, vars, inputs, poll, seen, NothingSeen
<1>4. CASE get_current_buttons
  BY <1>4 DEF get_current_buttons, inputs, seen, NothingSeen
<1>5. CASE ReadCombo
  BY <1>5 DEF ReadCombo, is_display_combo, inputs, seen, NothingSeen
<1>6. CASE Poll
  <2>1. /\ pc = "act" /\ pc' = "sample" /\ held' = held /\ reset_unseen' = FALSE
        /\ prev_buttons' = buttons /\ prev_display_combo' = display_combo
        /\ released' = AtMost(released + (IF held = {} THEN 1 ELSE 0), 2)
    BY <1>6 DEF Poll, inputs
  <2>2. released \in 0..2
    BY DEF TypeOK
  <2>3. released' >= 1 => held = {}
    BY <2>1, <2>2 DEF AtMost, NothingSeen
  <2>4. released' = 2 => released >= 1
    BY <2>1, <2>2 DEF AtMost
  <2> QED
    BY <2>1, <2>3, <2>4 DEF NothingSeen
<1> QED
  BY <1>1, <1>2, <1>3, <1>4, <1>5, <1>6
     DEF Next, reset_remote_input_state, special_button_thread

\* From the third poll on that ends with nothing held the thread does nothing,
\* whatever was held and however it was released or reset.
THEOREM QuietOnceReleased == Spec => QuietWhenReleased
<1>1. Init => NothingSeen
  BY DEF Init, NothingSeen
<1>2. TypeOK /\ NothingSeen /\ [Next]_vars =>
        [pc = "act" /\ pc' = "sample" /\ released = 2 => acts' = {}]_vars
  <2> SUFFICES ASSUME TypeOK, NothingSeen, Next, pc = "act", pc' = "sample", released = 2
               PROVE  acts' = {}
    OBVIOUS
  <2>1. Poll
    BY DEF Next, handle_joyevent, reset_remote_input_state, reset_by_main_thread,
       reset_by_power_callback, ClearInputs, power_callback_clears_intercepts,
       special_button_thread, get_current_buttons, ReadCombo, poll
  <2>2. /\ buttons = {} /\ ~display_combo /\ prev_buttons = {} /\ ~prev_display_combo
        /\ ~reset_unseen
    BY DEF NothingSeen
  <2>3. Before = {} /\ ~BeforeCombo
    BY <2>2 DEF Before, BeforeCombo
  <2>4. ASSUME NEW a \in Volumes \cup Asked PROVE ~Does(a)
    <3>1. CASE a \in Volumes
      <4>1. a \notin {"home", "sound", "brightness"}
        BY <3>1 DEF Volumes
      <4>2. Does(a) <=> Volume(a).step
        BY <3>1, <4>1 DEF Does
      <4>3. ~({"START", a} \subseteq buttons)
        BY <2>2
      <4>4. Volume(a).step = FALSE
        BY <4>3 DEF Volume, Steps
      <4> QED
        BY <4>2, <4>4
    <3>2. CASE a = "home"
      BY <2>2, <3>2 DEF Does, Volumes
    <3>3. CASE a = "sound"
      BY <2>2, <2>3, <3>3 DEF Does, Volumes, LongPress, ShortPress
    <3>4. CASE a = "brightness"
      BY <2>3, <3>4 DEF Does, Volumes, ShortPress
    <3> QED
      BY <3>1, <3>2, <3>3, <3>4 DEF Asked
  <2> QED
    BY <2>1, <2>4 DEF Poll
<1> QED
  BY <1>1, <1>2, NextNothingSeen, InitTypeOK, NextTypeOK, PTL DEF Spec, QuietWhenReleased

=============================================================================
