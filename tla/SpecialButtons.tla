--------------------------- MODULE SpecialButtons ---------------------------
(***************************************************************************)
(* special_button_thread of main.c, which polls player 1's buttons for the *)
(* ones the console acts on (volume, sound, brightness, HOME), beside      *)
(* main_thread, which changes them, and resets, which clear them.          *)
(*                                                                         *)
(* A poll reads the buttons, then the music flag, then the reset counter;  *)
(* main_thread has the higher priority and may come between any two of the *)
(* reads.  What follows is computed from the thread's own variables, so it *)
(* is one action.  Times are in polls of SPECIAL_POLL_MS.                  *)
(*                                                                         *)
(* The other work of a poll is elsewhere: the gate of POPS is PopsGate's.  *)
(* g_virtual_lx and g_virtual_ly are written and never read.               *)
(***************************************************************************)
EXTENDS Integers

CONSTANTS
  Buttons,                 \* the special buttons the controller has
  Changes,                 \* the sets of buttons that one event may carry
  VOLUME_REPEAT_DELAY,     \* polls from the first step to the repeats
  VOLUME_REPEAT_INTERVAL,  \* polls from one repeat to the next
  SOUND_HOLD,              \* polls that make a long press of NOTE
  DISPLAY_HOLD,            \* polls that make a long press of START + LEFT
  MaxEvents                \* how many events and resets there are, which bounds
                           \* the model only

ASSUME SpecialButtonsAssumption ==
  /\ Buttons \subseteq {"START", "LEFT", "VOLDOWN", "VOLUP", "HOME", "NOTE"}
  /\ Changes \subseteq SUBSET Buttons
  /\ VOLUME_REPEAT_DELAY \in Nat \ {0, 1}
  /\ VOLUME_REPEAT_INTERVAL \in Nat \ {0}
  /\ SOUND_HOLD \in Nat \ {0}
  /\ DISPLAY_HOLD \in Nat \ {0}
  /\ MaxEvents \in Nat

VARIABLES
  is_pops_context,     \* g_is_pops_context, which module_start decides
  held,                \* g_currjoy.Buttons
  music_controller,    \* g_music_controller
  intercept_buttons,   \* g_intercept_buttons
  resetting,           \* power_callback has cleared the inputs and has yet to
                       \* clear the intercepts
  reset_unseen,        \* seen_reset_serial # g_input_reset_serial
  pc, buttons, display_combo,         \* the poll under way
  prev_buttons, prev_display_combo,   \* what the last poll saw
  wait,                \* vol_down_wait and vol_up_wait
  sound, display,      \* sound_hold and sound_long_done, display_...
  acts,                \* what the last poll made the console do
  owed,                \* presses made and not acted on, counted up to 2
  unasked,             \* the acts no press was owed to
  released,            \* polls begun and ended with nothing held, up to 2
  events               \* the events and resets so far, up to MaxEvents

inputs == <<held, music_controller, intercept_buttons>>
poll == <<pc, buttons, display_combo>>
seen == <<prev_buttons, prev_display_combo, wait, sound, display>>
history == <<acts, unasked>>
vars == <<is_pops_context, inputs, resetting, reset_unseen, poll, seen, history, owed, released, events>>

Volumes == {"VOLDOWN", "VOLUP"}
NotHeld == [time |-> 0, long_done |-> FALSE]
Asked == {"sound", "brightness", "home"}
AtMost(a, b) == IF a < b THEN a ELSE b

-----------------------------------------------------------------------------
is_display_combo(bs, music) ==
  /\ {"START", "LEFT"} \subseteq bs
  /\ ~(music /\ is_pops_context)

Init ==
  /\ is_pops_context \in BOOLEAN
  /\ held = {} /\ music_controller = FALSE /\ intercept_buttons = {}
  /\ resetting = FALSE /\ reset_unseen = FALSE
  /\ pc = "sample" /\ buttons = {} /\ display_combo = FALSE
  /\ prev_buttons = {} /\ prev_display_combo = FALSE
  /\ wait = [b \in Volumes |-> 0]
  /\ sound = NotHeld /\ display = NotHeld
  /\ acts = {} /\ unasked = {}
  /\ owed = [a \in Asked |-> 0] /\ released = 0 /\ events = 0

-----------------------------------------------------------------------------
(***************************************************************************)
(* main_thread                                                             *)
(***************************************************************************)
\* What buttons ask of the console.
Asks(a, bs, music) ==
  CASE a = "sound"      -> "NOTE" \in bs
    [] a = "home"       -> "HOME" \in bs
    [] a = "brightness" -> is_display_combo(bs, music)
Owe(news) == owed' = [a \in Asked |-> AtMost(owed[a] + (IF a \in news THEN 1 ELSE 0), 2)]

\* Mutant: from the buttons before the event.
update_system_button_intercepts_Old ==
  intercept_buttons' = IF is_pops_context THEN {} ELSE held \cap {"HOME"}
update_system_button_intercepts ==
  intercept_buttons' = IF is_pops_context THEN {} ELSE held' \cap {"HOME"}

\* TYPE_BUTTON_DOWN, TYPE_BUTTON_UP and TYPE_MUSIC_CONTROLLER.  An event of
\* another type does what a button event without buttons does.
handle_joyevent ==
  /\ events < MaxEvents /\ events' = events + 1
  /\ UNCHANGED <<is_pops_context, resetting, reset_unseen, poll, seen, history>>
  /\ \/ /\ \E bs \in Changes : held' \in {held \cup bs, held \ bs}
        /\ UNCHANGED music_controller
     \/ music_controller' \in BOOLEAN /\ UNCHANGED held
  /\ update_system_button_intercepts
  /\ Owe({a \in Asked : /\ Asks(a, held', music_controller')
                         /\ ~Asks(a, held, music_controller)})
  /\ released' = 0

\* A poll that has read the buttons already takes them for held since the
\* reset, as if they had been pressed again.
ClearInputs ==
  /\ events < MaxEvents /\ events' = events + 1
  /\ held' = {}
  /\ music_controller' = FALSE
  /\ reset_unseen' = TRUE
  /\ released' = 0
  /\ Owe({a \in Asked : pc # "sample" /\ Asks(a, buttons, music_controller)})
  /\ UNCHANGED <<is_pops_context, poll, seen, history>>

\* By main_thread, which nothing interrupts, and by power_callback, whose
\* update_system_button_intercepts comes after main_thread's next events if
\* there are any.
reset_by_main_thread ==
  /\ ClearInputs
  /\ intercept_buttons' = {}
  /\ UNCHANGED resetting
reset_by_power_callback ==
  /\ ~resetting /\ resetting' = TRUE
  /\ ClearInputs
  /\ UNCHANGED intercept_buttons
power_callback_clears_intercepts ==
  /\ resetting /\ resetting' = FALSE
  /\ intercept_buttons' = {}
  /\ UNCHANGED <<is_pops_context, held, music_controller, reset_unseen, poll, seen,
                 history, owed, released, events>>

reset_remote_input_state ==
  \/ reset_by_main_thread
  \/ reset_by_power_callback
  \/ power_callback_clears_intercepts

-----------------------------------------------------------------------------
(***************************************************************************)
(* special_button_thread                                                   *)
(***************************************************************************)
get_current_buttons ==
  /\ pc = "sample"
  /\ pc' = "combo"
  /\ buttons' = held
  /\ UNCHANGED <<is_pops_context, inputs, resetting, reset_unseen, display_combo, seen,
                 history, owed, released, events>>

ReadCombo ==
  /\ pc = "combo"
  /\ pc' = "act"
  /\ display_combo' = is_display_combo(buttons, music_controller)
  /\ UNCHANGED <<is_pops_context, inputs, resetting, reset_unseen, buttons, seen,
                 history, owed, released, events>>

\* START with a volume button: a step at the press, then the repeats.  The
\* mutant does not repeat.
Steps_NeverAgain(b, before, left) ==
  LET combo == {"START", b} \subseteq buttons
  IN  [step |-> combo /\ b \notin before, wait |-> IF combo THEN 1 ELSE 0]
Steps(b, before, left) ==
  LET combo == {"START", b} \subseteq buttons
      press == combo /\ b \notin before
      now   == (IF press THEN VOLUME_REPEAT_DELAY ELSE left) - 1
  IN  [step |-> press \/ (combo /\ now <= 0),
       wait |-> IF ~combo THEN 0 ELSE IF now <= 0 THEN VOLUME_REPEAT_INTERVAL ELSE now]

\* Mutant: the time starts again with every poll.
Hold_StartsAgain(h, before, now, long) ==
  IF now THEN [time |-> 1, long_done |-> 1 >= long] ELSE NotHeld

\* A button, or a combination, that does one thing when it is released and
\* another, instead, when it is held for long.
Hold(h, before, now, long) ==
  LET start == IF now /\ ~before THEN NotHeld ELSE h
      time  == AtMost(start.time + 1, long)
  IN  IF now THEN [time |-> time, long_done |-> start.long_done \/ time >= long]
      ELSE IF before THEN NotHeld
      ELSE h
LongPress(h, before, now, long) ==
  now /\ Hold(h, before, now, long).long_done /\ ~(before /\ h.long_done)
\* Mutants: the long press is forgotten; so is the poll before.
ShortPress_Always(h, before, now) == before /\ ~now
ShortPress_AnyPoll(h, before, now) == ~now /\ ~h.long_done
ShortPress(h, before, now) == before /\ ~now /\ ~h.long_done

\* The poll once it has read g_input_reset_serial: after a reset, what it has
\* just read counts as already seen.
Before == IF reset_unseen THEN buttons ELSE prev_buttons
BeforeCombo == IF reset_unseen THEN display_combo ELSE prev_display_combo
Since(h) == IF reset_unseen THEN NotHeld ELSE h
Wait(b) == IF reset_unseen THEN 0 ELSE wait[b]

Volume(b) == Steps(b, Before, Wait(b))
Sound == Hold(Since(sound), "NOTE" \in Before, "NOTE" \in buttons, SOUND_HOLD)
Display == Hold(Since(display), BeforeCombo, display_combo, DISPLAY_HOLD)

\* handle_impose_buttons, handle_sound_hold and cycle_impose_param: what the
\* poll makes the console do.  A long press of NOTE mutes, a short one changes
\* the equalizer; a long press of START + LEFT does nothing.
Does(a) ==
  CASE a \in Volumes -> Volume(a).step
    [] a = "home" -> ~is_pops_context /\ "HOME" \in buttons \ Before
    [] a = "sound" ->
         \/ LongPress(Since(sound), "NOTE" \in Before, "NOTE" \in buttons, SOUND_HOLD)
         \/ ShortPress(Since(sound), "NOTE" \in Before, "NOTE" \in buttons)
    [] a = "brightness" -> ShortPress(Since(display), BeforeCombo, display_combo)

Poll ==
  /\ pc = "act"
  /\ pc' = "sample"
  /\ acts' = {a \in Volumes \cup Asked : Does(a)}
  /\ wait' = [b \in Volumes |-> Volume(b).wait]
  /\ sound' = Sound
  /\ display' = Display
  /\ prev_buttons' = buttons
  /\ prev_display_combo' = display_combo
  /\ reset_unseen' = FALSE
  /\ unasked' = unasked \cup {a \in acts' \cap Asked : owed[a] = 0}
  /\ owed' = [a \in Asked |-> IF a \in acts' /\ owed[a] > 0 THEN owed[a] - 1 ELSE owed[a]]
  /\ released' = AtMost(released + (IF held = {} THEN 1 ELSE 0), 2)
  /\ UNCHANGED <<is_pops_context, inputs, resetting, buttons, display_combo, events>>

special_button_thread == get_current_buttons \/ ReadCombo \/ Poll

Next ==
  \/ handle_joyevent
  \/ reset_remote_input_state
  \/ special_button_thread

Spec == Init /\ [][Next]_vars

\* The thread polls for ever: it waits for nothing but its delay, and
\* main_thread leaves it the processor between two events.
FairSpec == Spec /\ WF_vars(special_button_thread)

-----------------------------------------------------------------------------
\* Every variable keeps its type; no counter passes its limit.
TypeOK ==
  /\ is_pops_context \in BOOLEAN
  /\ held \subseteq Buttons
  /\ music_controller \in BOOLEAN
  /\ intercept_buttons \subseteq {"HOME"}
  /\ resetting \in BOOLEAN /\ reset_unseen \in BOOLEAN
  /\ pc \in {"sample", "combo", "act"}
  /\ buttons \subseteq Buttons
  /\ display_combo \in BOOLEAN
  /\ prev_buttons \subseteq Buttons
  /\ prev_display_combo \in BOOLEAN
  /\ wait \in [Volumes -> 0..(VOLUME_REPEAT_DELAY + VOLUME_REPEAT_INTERVAL)]
  /\ sound \in [time : 0..SOUND_HOLD, long_done : BOOLEAN]
  /\ display \in [time : 0..DISPLAY_HOLD, long_done : BOOLEAN]
  /\ acts \subseteq Volumes \cup Asked
  /\ unasked \subseteq Asked
  /\ owed \in [Asked -> 0..2]
  /\ released \in 0..2
  /\ events \in 0..MaxEvents

\* However the events, the resets and the polls interleave, NOTE, HOME and the
\* display combination never do more than they were pressed: a press seen over
\* many polls or muted in the middle acts once; only a reset that comes after
\* the poll has read the buttons can make it act once more.  Under POPS
\* the brightness is excepted: the poll reads the music flag after the buttons.
ActsWerePressed == unasked \subseteq (IF is_pops_context THEN {"brightness"} ELSE {})

\* Whatever was held, and whether it was released or reset, the console is left
\* alone from the third poll on that ends with nothing held.
QuietWhenReleased == [][pc = "act" /\ pc' = "sample" /\ released = 2 => acts' = {}]_vars

\* A HOME that is no longer held is no longer withheld from the game, whether
\* it was released or a reset let it go, except between the two halves of a
\* reset by power_callback.
InterceptReleased == "HOME" \in intercept_buttons => "HOME" \in held \/ resetting

\* What is pressed acts in the end: a poll that has seen NOTE pressed is
\* followed by the mute or the equalizer, unless a reset comes first, and START
\* and a volume button held for good step the volume again and again.
PressesAct ==
  /\ ("NOTE" \in prev_buttons /\ ~sound.long_done) ~> ("sound" \in acts \/ reset_unseen)
  /\ \A b \in Volumes \cap Buttons :
       (<>[]({"START", b} \subseteq held)) => []<>(b \in acts)

=============================================================================
