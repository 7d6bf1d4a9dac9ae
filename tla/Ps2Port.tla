------------------------------- MODULE Ps2Port -------------------------------
(***************************************************************************)
(* The RP2040-Zero's PS2 port: how one reading finds its controllers,      *)
(* alone or behind a multitap, what each of them is taken for, and the     *)
(* START chord that goes to the next mapping profile.  What is made of a   *)
(* reading is the subject of Rp2040Sender.                                 *)
(*                                                                         *)
(* A controller is what it is and the buttons held on it that matter here: *)
(* START, R3, LEFT, and a button that some profiles map to COMBO.  The     *)
(* keys that a music controller holds for ever are what it is.  The port   *)
(* takes about a millisecond to read, every ten: a reading is one step.    *)
(***************************************************************************)
EXTENDS Integers

CONSTANTS
  Profiles,       \* how many profiles there are (4 by default, at most 8)
  ComboProfiles,  \* those that map the button "combo" to COMBO
  Presses1,       \* the sets of buttons held on the controller in slot 1
  Presses2        \* likewise in slot 2 (both bound the model)

ASSUME Ps2PortAssumption ==
  /\ Profiles \in Nat \ {0}
  /\ ComboProfiles \subseteq 0..(Profiles - 1)
  /\ Presses1 \cup Presses2 \subseteq SUBSET {"start", "r3", "left", "combo"}

VARIABLES
  port,          \* what is plugged in: the tap and the controllers in its slots
  started,       \* g_input_started
  g_psp_context,
  modes,         \* the state a reading changes besides its result (see Modes)
  g_p2_present,
  gun_present,   \* g_gun_present
  pad,           \* the buttons found: state->buttons and g_p2_state.buttons
  fresh,         \* the last reading was of the present port (history)
  freed,         \* whether the player let go of START, or the firmware forgot
                 \* it, since the player last switched the profile (history)
  again          \* a profile was switched without (history)

readVars == <<modes, g_p2_present, gun_present, pad>>
portVars == <<port, started, g_psp_context, readVars, fresh, freed, again>>

None == [kind |-> "none", held |-> {}]
MusicKinds == {"popn", "guitar"}
Controllers ==
  <<{None} \cup [kind : {"pad", "gun"} \cup MusicKinds, held : Presses1],
    {None} \cup [kind : {"pad"}, held : Presses2]>>

\* A direct port has one controller.  A tap answers for each slot, or for both
\* in one long answer, and it may or may not answer for slot 1 alone as well; in
\* a long answer an empty slot reads 00 or FF.
Ports ==
  {p \in [tap : {"direct", "each", "long", "both"}, empty : {"00", "FF"},
          slot : Controllers[1] \X Controllers[2]] :
     /\ p.tap = "direct" => p.slot[2] = None
     /\ p.tap \in {"direct", "each"} => p.empty = "00"}

\* g_popn_music_controller_mode, g_guitar_freaks_controller_mode,
\* g_combo_chord, g_ps2_multitap_long_active and the active profile; and who
\* has switched it in this reading.
Modes ==
  [popn : BOOLEAN, guitar : BOOLEAN, chord : [1..2 -> BOOLEAN], long : BOOLEAN,
   active : 0..(Profiles - 1), switched : SUBSET (1..2)]
NoModes(active) ==
  [popn |-> FALSE, guitar |-> FALSE, chord |-> [p \in 1..2 |-> FALSE],
   long |-> FALSE, active |-> active, switched |-> {}]

-----------------------------------------------------------------------------
(* One controller's answer.                                                *)

\* ps2_apply_profile_mapping: START withheld from a chord on until it is let go
\* of; START + LEFT is sent whatever the profile says.
\* Mutant: the chord is over when its other button is let go of.
Chording_Loose(m, player, start, chord) == chord
Chording(m, player, start, chord) == chord \/ (start /\ m.chord[player])

ps2_apply_profile_mapping(m, held, player) ==
  LET start    == "start" \in held
      combo    == m.active \in ComboProfiles
      chord    == start /\ ("r3" \in held \/ (combo /\ "combo" \in held))
      switches == chord /\ ~m.chord[player]
      chording == Chording(m, player, start, chord)
  IN  [m |-> [m EXCEPT !.chord[player] = chording,
                       !.active = IF switches THEN (@ + 1) % Profiles ELSE @,
                       !.switched = IF switches THEN @ \cup {player} ELSE @],
       buttons |-> ((held \ (IF start THEN {"r3", "left"} ELSE {}))
                      \ ((IF chording THEN {"start"} ELSE {})
                         \cup (IF combo THEN {"combo"} ELSE {})))
                   \cup (IF start /\ "left" \in held THEN {"start", "left"} ELSE {})]

\* update_popn_music_controller_mode and update_guitar_freaks_controller_mode
update_modes(m, kind) ==
  [m EXCEPT !.popn = (kind = "popn"), !.guitar = (kind = "guitar")]

\* ps2_decode_poll_response.  An empty slot changes nothing, the modes of what
\* was in it before included.
ps2_decode(m, controller, player) ==
  LET m1 == IF player = 1 THEN update_modes(m, controller.kind) ELSE m
  IN  IF controller = None
      THEN [m |-> m, present |-> FALSE, buttons |-> {}]
      ELSE IF player = 1 /\ controller.kind \in MusicKinds
      THEN [m |-> m1, present |-> TRUE,
            buttons |-> IF g_psp_context = "xmb" THEN {} ELSE controller.held]
      ELSE IF controller.kind = "gun"
      THEN [m |-> m1, present |-> TRUE, buttons |-> controller.held \cap {"start"}]
      ELSE LET mapped == ps2_apply_profile_mapping(m1, controller.held, player)
           IN  [m |-> mapped.m, present |-> TRUE, buttons |-> mapped.buttons]

-----------------------------------------------------------------------------
(* One reading of the port.                                                *)

Answers(slot) ==
  /\ port.slot[slot] # None
  /\ port.tap \in (IF slot = 1 THEN {"direct", "each", "both"} ELSE {"each"})
AnswersLong == port.tap \in {"long", "both"}

\* ps2_poll_multitap_long_slots: both slots, at most every 500 ms until it has
\* been answered once.  A slot's mode counts as found unless it reads 00.
ps2_poll_multitap_long_slots(m, due) ==
  LET one == ps2_decode(m, port.slot[1], 1)
      two == ps2_decode(one.m, port.slot[2], 2)
  IN  IF ~m.long /\ ~due
      THEN [m |-> m, ok |-> FALSE]
      ELSE IF ~AnswersLong
      THEN [m |-> [m EXCEPT !.long = FALSE], ok |-> FALSE]
      ELSE [m  |-> [two.m EXCEPT !.long = TRUE],
            ok |-> one.present \/ two.present,
            one |-> one.buttons,
            two |-> two.buttons,
            found_two |-> two.present \/ port.empty = "FF"]

\* No controller answers.
\* Mutant: the music controller is remembered.
NoAnswer_KeepsModes(m) == [m |-> m, pad |-> <<{}, {}>>, two |-> FALSE, gun |-> FALSE]
NoAnswer(m) ==
  [m |-> update_modes(m, "none"), pad |-> <<{}, {}>>, two |-> FALSE, gun |-> FALSE]

\* read_ps2_controller_state.  Slot 2 is asked for alone only after slot 1 has
\* answered alone.
read_ps2_controller_state(m, due) ==
  LET first == ps2_decode(m, port.slot[1], 1)
      alone == Answers(1)
      second == ps2_decode(first.m, port.slot[2], 2)
      long  == ps2_poll_multitap_long_slots(IF alone THEN first.m ELSE m, due)
  IN  IF alone /\ Answers(2)
      THEN [m |-> second.m, pad |-> <<first.buttons, second.buttons>>,
            two |-> TRUE, gun |-> first.present /\ port.slot[1].kind = "gun"]
      ELSE IF alone
      THEN [m |-> long.m,
            pad |-> <<first.buttons, IF long.ok THEN long.two ELSE {}>>,
            two |-> long.ok /\ long.found_two,
            gun |-> port.slot[1].kind = "gun"]
      ELSE IF long.ok
      THEN [m |-> long.m, pad |-> <<long.one, long.two>>, two |-> long.found_two,
            gun |-> FALSE]
      ELSE NoAnswer(long.m)

\* remembers: whose START was held, without a break, since the last switch.
Reading(m, due, remembers) ==
  LET r == read_ps2_controller_state(m, due)
  IN  /\ modes' = [r.m EXCEPT !.switched = {}]
      /\ pad' = r.pad
      /\ g_p2_present' = r.two
      /\ gun_present' = r.gun
      /\ fresh' = TRUE
      /\ again' = (again \/ r.m.switched \cap remembers # {})
      /\ freed' = [p \in 1..2 |-> p \notin remembers \cup r.m.switched]

-----------------------------------------------------------------------------
PortInit ==
  /\ port = [tap |-> "direct", empty |-> "00", slot |-> <<None, None>>]
  /\ started = FALSE
  /\ g_psp_context = "game"
  /\ modes = NoModes(0)
  /\ g_p2_present = FALSE
  /\ gun_present = FALSE
  /\ pad = <<{}, {}>>
  /\ fresh = FALSE
  /\ freed = [p \in 1..2 |-> TRUE]
  /\ again = FALSE

\* Someone presses, lets go, plugs or unplugs; an empty tap may be changed for
\* another.
Change ==
  /\ \/ \E s \in 1..2 : \E c \in Controllers[s] :
          port' = [port EXCEPT !.slot[s] = c]
     \/ /\ port.slot = <<None, None>>
        /\ port' \in {p \in Ports : p.slot = <<None, None>>}
  /\ port' \in Ports \ {port}
  /\ fresh' = FALSE
  /\ freed' = [p \in 1..2 |-> \/ freed[p]
                               \/ "start" \notin port'.slot[p].held
                               \/ port'.slot[p].kind # port.slot[p].kind]
  /\ UNCHANGED <<started, g_psp_context, readVars, again>>

\* poll_input_state's reading.
PollPort ==
  /\ started
  /\ \E due \in BOOLEAN : Reading(modes, due, {p \in 1..2 : ~freed[p]})
  /\ UNCHANGED <<port, started, g_psp_context>>

\* start_input_scan with reset_input_diff_state, which forgets the chords and
\* the tap, but not the music controller.
start_input_scan ==
  /\ ~started
  /\ started' = TRUE
  /\ Reading([modes EXCEPT !.chord = [p \in 1..2 |-> FALSE], !.long = FALSE], TRUE, {})
  /\ UNCHANGED <<port, g_psp_context>>

\* hostfs_context_read_cb: whether the PSP shows the XMB.
hostfs_context_read ==
  /\ started
  /\ g_psp_context' \in {"game", "xmb"} \ {g_psp_context}
  /\ fresh' = FALSE
  /\ UNCHANGED <<port, started, readVars, freed, again>>

\* clear_endpoints, the part of the port: only the profile is kept.
clear_port ==
  /\ started
  /\ started' = FALSE
  /\ g_psp_context' = "game"
  /\ modes' = NoModes(modes.active)
  /\ g_p2_present' = FALSE
  /\ gun_present' = FALSE
  /\ pad' = <<{}, {}>>
  /\ fresh' = FALSE
  /\ freed' = [p \in 1..2 |-> TRUE]
  /\ UNCHANGED <<port, again>>

PortNext ==
  Change \/ PollPort \/ start_input_scan \/ hostfs_context_read \/ clear_port

-----------------------------------------------------------------------------
(***************************************************************************)
(* Properties                                                              *)
(***************************************************************************)

\* The firmware knows that the tap answers for both slots, or has asked slot 1.
Seen == modes.long \/ Answers(1)

\* A long answer for slot 2 alone.
OnlySecond == AnswersLong /\ port.slot[1] = None /\ port.slot[2] # None

\* What a reading of the present port has found is there and what is there has
\* been found: player 2, the music controller and the gun, by whichever way the
\* port answered and whatever was plugged in before.  Excepted is what the code
\* gets wrong: an empty slot 2 that reads FF counts as player 2; a music
\* controller pulled out of slot 1 is remembered as long as only slot 2
\* answers; and slot 2 is not asked for alone while slot 1 is empty.
PortReadRight ==
  fresh =>
    /\ g_p2_present =>
         port.slot[2] # None \/ (AnswersLong /\ port.empty = "FF")
    /\ port.slot[2] # None /\ (modes.long \/ (Answers(1) /\ port.tap = "each")) =>
         g_p2_present
    /\ ~g_p2_present => pad[2] = {}
    /\ (modes.popn \/ modes.guitar) =>
         port.slot[1].kind \in MusicKinds \/ OnlySecond
    /\ port.slot[1].kind \in MusicKinds /\ Seen => modes[port.slot[1].kind]
    /\ gun_present = (port.slot[1].kind = "gun" /\ Answers(1))

\* README.md of rp2040-zero, "START plus a button mapped to COMBO does the same.
\* START is not sent to the PSP while the chord is held": however the buttons of
\* a chord come and go, and whichever profile it leads to, a player who keeps
\* START held switches the profile once and sends no START, but by START +
\* LEFT.
OneSwitchPerStart ==
  /\ ~again
  /\ \A p \in 1..2 :
       fresh /\ ~freed[p] /\ "left" \notin port.slot[p].held => "start" \notin pad[p]

=============================================================================
