------------------------------ MODULE JoyEvents ------------------------------
(***************************************************************************)
(* The JoyEvents a sender emits and what main.c of the PSP plugin does     *)
(* with them: the input state handle_joyevent keeps, and the neutral state *)
(* reset_remote_input_state returns to.  Shared by the models of both      *)
(* senders and of the PSP.                                                 *)
(*                                                                         *)
(* A 32-bit button word is the set of its buttons; an event is a record    *)
(* whose fields depend on its type.                                        *)
(***************************************************************************)
EXTENDS Integers, Sequences

CONSTANTS
  Buttons,      \* the PSP buttons of the model
  SticksAt,     \* the values an analog axis takes (0..255 in the code)
  Center,       \* ANALOG_CENTER, 128
  AimsAt        \* the aim positions, in aim units (0..65535 in the code)

ASSUME JoyEventsAssumption ==
  /\ SticksAt \subseteq Nat
  /\ Center \in SticksAt
  /\ AimsAt \subseteq Nat

Players == {0, 1}                \* player 1 and player 2
Axes == Players \X {"x", "y"}

DownEvent(player, pressed)  == [type |-> "down", player |-> player, buttons |-> pressed]
UpEvent(player, released)   == [type |-> "up", player |-> player, buttons |-> released]
AnalogEvent(axis, value)    == [type |-> "analog", axis |-> axis, value |-> value]
StatusEvent(present)        == [type |-> "status", present |-> present]
\* TYPE_AIM, or the RP2040's TYPE_AIM_RAW.
AimEvent(x)                 == [type |-> "aim", x |-> x]
OffscreenEvent              == [type |-> "offscreen"]
ReleaseEvent                == [type |-> "release"]
MusicEvent(connected)       == [type |-> "music", connected |-> connected]

AimEvents == {AimEvent(x) : x \in AimsAt} \cup {OffscreenEvent, ReleaseEvent}

\* g_currjoy, g_p2joy, g_p2_connected, g_music_controller and the aim POPS is
\* given.
InputState ==
  [buttons : [Players -> SUBSET Buttons],
   stick : [Axes -> SticksAt],
   p2_connected : BOOLEAN,
   music : BOOLEAN,
   aim : AimEvents]

\* reset_remote_input_state
Neutral ==
  [buttons |-> [p \in Players |-> {}],
   stick |-> [a \in Axes |-> Center],
   p2_connected |-> FALSE,
   music |-> FALSE,
   aim |-> ReleaseEvent]

\* handle_joyevent's TYPE_P2_STATUS.
\* Mutant: what player 2 holds stays held when player 2 leaves.
SetPlayer2_KeepsButtons(input, present) ==
  [input EXCEPT !.p2_connected = present]
SetPlayer2(input, present) ==
  IF present
  THEN [input EXCEPT !.p2_connected = TRUE]
  ELSE [input EXCEPT !.p2_connected = FALSE,
                     !.buttons[1] = {},
                     !.stick = [a \in Axes |-> IF a[1] = 1 THEN Center
                                               ELSE input.stick[a]]]

\* handle_joyevent: the input state after one event.  A player 2 status of 0
\* also lets go of everything player 2 holds.
handle_joyevent(input, event) ==
  CASE event.type = "down" ->
         [input EXCEPT !.buttons[event.player] = @ \cup event.buttons]
    [] event.type = "up" ->
         [input EXCEPT !.buttons[event.player] = @ \ event.buttons]
    [] event.type = "analog" ->
         [input EXCEPT !.stick[event.axis] = event.value]
    [] event.type = "status" ->
         SetPlayer2(input, event.present)
    [] event.type = "music" ->
         [input EXCEPT !.music = event.connected]
    [] OTHER ->
         [input EXCEPT !.aim = event]

\* The input state after a queue of events, oldest first.
AfterAll(input, events) ==
  LET after[n \in 0..Len(events)] ==
        IF n = 0 THEN input ELSE handle_joyevent(after[n - 1], events[n])
  IN  after[Len(events)]

=============================================================================
