------------------------------ MODULE PopsAim ------------------------------
(***************************************************************************)
(* GunCon emulation for POPS (pops_aim.c, without the crosshair and the    *)
(* flash, which are in PopsOverlay).                                       *)
(*                                                                         *)
(* Three threads meet here.  main_thread stores the aim events of the      *)
(* controller (pops_aim_set, _set_raw, _set_offscreen, _release), each     *)
(* with the interrupts off.  The special thread looks for POPS's pad       *)
(* block.  POPS polls port 1 through the sceCtrl hook, which filters the   *)
(* trigger with the interrupts off and then, with the interrupts on, turns *)
(* the block into a GunCon and writes the coordinates; its poll of port 2  *)
(* does only the latter.  The coordinates are read by the game as they     *)
(* have been written, so they are no state: Position is what is written.   *)
(*                                                                         *)
(* A tick is 50 ms; a time stamp is kept as its age, up to the limit it is *)
(* compared with.                                                          *)
(***************************************************************************)
EXTENDS AimScreen

CONSTANTS
  Display,               \* the display in use
  SHOT_PRESS,            \* RJM_POPS_AIM_SHOT_PRESS_MS, in ticks
  FLASH_WAIT,            \* RJM_POPS_AIM_FLASH_WAIT_MS
  GUN_HOLD,              \* RJM_POPS_AIM_GUN_HOLD_MS
  SHOT_HOLD,             \* RJM_POPS_AIM_SHOT_HOLD_MS
  DETECT_SETTLE_TICKS    \* polls of the special thread

ASSUME AimAssumption ==
  /\ Display.w \in Nat \ {0} /\ Display.h \in Nat \ {0}
  /\ DETECT_SETTLE_TICKS \in Nat

\* The flash's 100 ms are shorter than the 200 ms a gap in the light is hidden.
ASSUME HoldAssumption ==
  /\ {SHOT_PRESS, FLASH_WAIT, GUN_HOLD, SHOT_HOLD} \subseteq Nat \ {0}
  /\ FLASH_WAIT <= GUN_HOLD

VARIABLES
  \* main_thread's side
  sender,            \* the board plugged in: "gun" (RP2040) or "gyro" (Pico 2 W)
  trigger,           \* CIRCLE in g_currjoy
  s_aim_valid, s_aim_raw, s_aim_offscreen, s_aim_xy,
  s_lit_xy, s_lit_valid,
  no_light_age,      \* now - s_no_light_since
  \* shots
  s_shot_state, s_shot_xy, s_shot_force_press, s_shot_prev_trigger,
  shot_age,          \* now - s_shot_since
  new_light,         \* s_lit_seq # s_shot_lit_seq
  \* POPS's port 1
  pad_id,            \* the id in the block, "none" before POPS sets it up
  s_pad, s_pops_polling, s_settle_ticks,
  s_guncon_active,
  poll,              \* where POPS's poll is: "idle", "apply" or what it writes
  \* history
  owed,              \* a press was held back and has not been passed on
  dark_for           \* ticks the gun has been without light

eventVars == <<s_aim_valid, s_aim_raw, s_aim_offscreen, s_aim_xy,
               s_lit_xy, s_lit_valid, no_light_age, dark_for>>
shotVars == <<s_shot_state, s_shot_xy, s_shot_force_press,
              s_shot_prev_trigger, shot_age, new_light, s_flash_wanted>>
detectVars == <<s_pad, s_pops_polling, s_settle_ticks>>
blockVars == <<pad_id, s_guncon_active>>
pollVars == <<poll, owed>>
aimVars == <<sender, trigger, eventVars, shotVars, detectVars, blockVars, pollVars>>

Older(age, limit) == Least(age + 1, limit)

-----------------------------------------------------------------------------
(***************************************************************************)
(* The aim events                                                          *)
(***************************************************************************)

AimInit ==
  /\ sender \in {"gun", "gyro"}
  /\ trigger = FALSE
  /\ s_aim_valid = FALSE /\ s_aim_raw = FALSE /\ s_aim_offscreen = FALSE
  /\ s_aim_xy = <<0, 0>> /\ s_lit_xy = <<0, 0>> /\ s_lit_valid = FALSE
  /\ no_light_age = GUN_HOLD
  /\ s_shot_state = "IDLE" /\ s_shot_xy = <<0, 0>> /\ s_shot_force_press = FALSE
  /\ s_shot_prev_trigger = FALSE /\ shot_age = SHOT_HOLD /\ new_light = FALSE
  /\ s_flash_wanted = FALSE
  /\ pad_id = "none"
  /\ s_pad = FALSE /\ s_pops_polling = FALSE /\ s_settle_ticks = 0
  /\ s_guncon_active = FALSE
  /\ poll = "idle"
  /\ owed = FALSE
  /\ dark_for = GUN_HOLD

UnchangedByEvents == UNCHANGED <<shotVars, detectVars, blockVars, pollVars>>

pops_aim_set(xy) ==
  /\ sender = "gyro"
  /\ s_aim_xy' = xy
  /\ s_aim_raw' = FALSE
  /\ s_lit_valid' = FALSE
  /\ s_aim_offscreen' = FALSE
  /\ s_aim_valid' = TRUE
  /\ dark_for' = GUN_HOLD
  /\ UNCHANGED <<sender, trigger, s_lit_xy, no_light_age>>
  /\ UnchangedByEvents

\* Mutant: every dark reading starts the 200 ms again.
pops_aim_set_raw_Restarts(xy) ==
  /\ sender = "gun"
  /\ IF is_no_light(xy)
     THEN /\ no_light_age' = 0
          /\ UNCHANGED <<s_lit_xy, s_lit_valid, new_light, dark_for>>
     ELSE /\ s_lit_xy' = xy
          /\ s_lit_valid' = TRUE
          /\ new_light' = TRUE
          /\ dark_for' = 0
          /\ UNCHANGED no_light_age
  /\ s_aim_xy' = xy
  /\ s_aim_raw' = TRUE
  /\ s_aim_offscreen' = FALSE
  /\ s_aim_valid' = TRUE
  /\ UNCHANGED <<s_shot_state, s_shot_xy, s_shot_force_press,
                 s_shot_prev_trigger, shot_age, s_flash_wanted>>
  /\ UNCHANGED <<sender, trigger, detectVars, blockVars, pollVars>>
pops_aim_set_raw(xy) ==
  /\ sender = "gun"
  /\ IF is_no_light(xy)
     THEN /\ no_light_age' =
               IF ~s_aim_raw \/ ~is_no_light(s_aim_xy) THEN 0 ELSE no_light_age
          /\ UNCHANGED <<s_lit_xy, s_lit_valid, new_light, dark_for>>
     ELSE /\ s_lit_xy' = xy
          /\ s_lit_valid' = TRUE
          /\ new_light' = TRUE
          /\ dark_for' = 0
          /\ UNCHANGED no_light_age
  /\ s_aim_xy' = xy
  /\ s_aim_raw' = TRUE
  /\ s_aim_offscreen' = FALSE
  /\ s_aim_valid' = TRUE
  /\ UNCHANGED <<s_shot_state, s_shot_xy, s_shot_force_press,
                 s_shot_prev_trigger, shot_age, s_flash_wanted>>
  /\ UNCHANGED <<sender, trigger, detectVars, blockVars, pollVars>>

pops_aim_set_offscreen ==
  /\ sender = "gyro"
  /\ s_aim_raw' = FALSE
  /\ s_aim_offscreen' = TRUE
  /\ s_aim_valid' = TRUE
  /\ UNCHANGED <<sender, trigger, s_aim_xy, s_lit_xy, s_lit_valid, no_light_age,
                 dark_for>>
  /\ UnchangedByEvents

\* The controller stops aiming, or main_thread resets its input when a session
\* ends; another board may then be plugged in, which takes longer than a poll.
pops_aim_release ==
  /\ s_aim_valid' = FALSE
  /\ s_lit_valid' = FALSE
  /\ dark_for' = GUN_HOLD
  /\ sender' \in IF poll = "idle" THEN {"gun", "gyro"} ELSE {sender}
  /\ UNCHANGED <<trigger, s_aim_raw, s_aim_offscreen, s_aim_xy, s_lit_xy,
                 no_light_age>>
  /\ UnchangedByEvents

\* A button event changes CIRCLE in g_currjoy.
trigger_event ==
  /\ trigger' = ~trigger
  /\ UNCHANGED <<sender, eventVars>>
  /\ UnchangedByEvents

AimEvent ==
  \/ \E xy \in Aims : pops_aim_set(xy)
  \/ \E xy \in Readings : pops_aim_set_raw(xy)
  \/ pops_aim_set_offscreen
  \/ pops_aim_release
  \/ trigger_event

-----------------------------------------------------------------------------
(***************************************************************************)
(* Shots                                                                   *)
(***************************************************************************)

shot_holding == s_shot_state = "HELD" /\ shot_age < SHOT_HOLD

\* The real gun's position to use now.
gun_xy ==
  CASE ~is_no_light(s_aim_xy) -> s_aim_xy
    [] is_no_light(s_aim_xy) /\ shot_holding -> s_shot_xy
    [] is_no_light(s_aim_xy) /\ ~shot_holding
         /\ s_lit_valid /\ no_light_age < GUN_HOLD -> s_lit_xy
    [] OTHER -> NO_LIGHT

shot_fire(xy, force_press) ==
  /\ s_shot_force_press' = force_press
  /\ s_shot_xy' = xy
  /\ shot_age' = 0
  /\ s_shot_state' = "HELD"
  /\ s_flash_wanted' = FALSE
  /\ UNCHANGED new_light

\* A gun is aimed: its trigger is this module's business.
GunAimed ==
  s_guncon_active /\ s_aim_valid /\ s_aim_raw /\ ~s_aim_offscreen

Pulled == trigger /\ ~s_shot_prev_trigger /\ s_shot_state # "FLASH"

PassOn(passed) ==
  /\ ~GunAimed
  /\ s_shot_state' = "IDLE"
  /\ s_flash_wanted' = FALSE
  /\ s_shot_prev_trigger' = FALSE
  /\ (passed <=> trigger)
  /\ UNCHANGED <<s_shot_xy, s_shot_force_press, shot_age, new_light>>

ShootLit(passed) ==
  /\ GunAimed /\ Pulled /\ ~is_no_light(gun_xy)
  /\ shot_fire(gun_xy, FALSE)
  /\ s_shot_prev_trigger' = trigger
  /\ passed

\* Without light the trigger is held back and the screen is flashed.
ShootDark(passed) ==
  /\ GunAimed /\ Pulled /\ is_no_light(gun_xy)
  /\ s_shot_state' = "FLASH"
  /\ shot_age' = 0
  /\ new_light' = FALSE
  /\ s_flash_wanted' = TRUE
  /\ s_shot_prev_trigger' = trigger
  /\ ~passed
  /\ UNCHANGED <<s_shot_xy, s_shot_force_press>>

Flashing == GunAimed /\ s_shot_state = "FLASH"

FlashLit(passed) ==
  /\ Flashing /\ new_light
  /\ shot_fire(s_lit_xy, TRUE)
  /\ s_shot_prev_trigger' = trigger
  /\ passed

\* Mutant: the wait does not end while the trigger is up.
FlashExpired_Pressed(passed) ==
  /\ Flashing /\ ~new_light /\ shot_age >= FLASH_WAIT /\ trigger
  /\ shot_fire(NO_LIGHT, TRUE)
  /\ s_shot_prev_trigger' = trigger
  /\ passed
FlashExpired(passed) ==
  /\ Flashing /\ ~new_light /\ shot_age >= FLASH_WAIT
  /\ shot_fire(NO_LIGHT, TRUE)
  /\ s_shot_prev_trigger' = trigger
  /\ passed

FlashWaits(passed) ==
  /\ Flashing /\ ~new_light /\ shot_age < FLASH_WAIT
  /\ s_shot_prev_trigger' = trigger
  /\ ~passed
  /\ UNCHANGED <<s_shot_state, s_shot_xy, s_shot_force_press, shot_age,
                 new_light, s_flash_wanted>>

NoShot(passed) ==
  /\ GunAimed /\ ~Pulled /\ s_shot_state # "FLASH"
  /\ s_shot_state' = IF shot_holding THEN "HELD" ELSE "IDLE"
  /\ s_shot_prev_trigger' = trigger
  /\ passed <=> \/ trigger
                \/ shot_holding /\ s_shot_force_press /\ shot_age < SHOT_PRESS
  /\ UNCHANGED <<s_shot_xy, s_shot_force_press, shot_age, new_light,
                 s_flash_wanted>>

\* The trigger is passed on to the game or not.
pops_aim_filter_buttons(passed) ==
  \/ PassOn(passed) \/ ShootLit(passed) \/ ShootDark(passed)
  \/ FlashLit(passed) \/ FlashExpired(passed) \/ FlashWaits(passed)
  \/ NoShot(passed)

\* inject_remote_values, up to pspSdkEnableInterrupts: POPS polls port 1.
inject_remote_values ==
  /\ poll = "idle"
  /\ poll' = "apply"
  /\ \E passed \in BOOLEAN :
       /\ pops_aim_filter_buttons(passed)
       /\ owed' = (GunAimed /\ ~passed /\ (trigger \/ owed))
  /\ UNCHANGED <<sender, trigger, eventVars, detectVars, blockVars>>

\* The port 2 path of ctrl_peek_negative_hook reaches pops_aim_apply alone.
ctrl_peek_negative_hook ==
  /\ poll = "idle"
  /\ poll' = "apply"
  /\ UNCHANGED <<sender, trigger, eventVars, shotVars, detectVars, blockVars,
                 owed>>

-----------------------------------------------------------------------------
(***************************************************************************)
(* The pad block                                                           *)
(***************************************************************************)

pad_state_valid == pad_id # "none"

\* pops_aim_apply while POPS's block has not been found.
ApplyBeforeFound ==
  /\ poll = "apply" /\ ~s_pad
  /\ s_pops_polling' = TRUE
  /\ poll' = "idle"
  /\ UNCHANGED <<s_pad, s_settle_ticks>>
  /\ UNCHANGED <<sender, trigger, eventVars, shotVars, blockVars, owed>>

\* Mutant: without an aim nothing is done.
ApplyReleased_Returns ==
  /\ poll = "apply" /\ s_pad /\ ~s_aim_valid
  /\ poll' = "idle"
  /\ UNCHANGED <<sender, trigger, eventVars, shotVars, detectVars, blockVars,
                 owed>>
\* Aiming stopped: the game gets its digital pad back.
ApplyReleased ==
  /\ poll = "apply" /\ s_pad /\ ~s_aim_valid
  /\ pad_id' = IF s_guncon_active /\ pad_state_valid THEN "digital" ELSE pad_id
  /\ s_guncon_active' = FALSE
  /\ poll' = "idle"
  /\ UNCHANGED <<sender, trigger, eventVars, shotVars, detectVars, owed>>

\* The aim is on: what is to be written is decided first, and main_thread may
\* store another event before it is written.
ApplyAimed ==
  /\ poll = "apply" /\ s_pad /\ s_aim_valid /\ pad_state_valid
  /\ poll' = CASE s_aim_offscreen -> "offscreen"
               [] ~s_aim_offscreen /\ s_aim_raw -> "raw"
               [] OTHER -> "aim"
  /\ UNCHANGED <<sender, trigger, eventVars, shotVars, detectVars, blockVars, owed>>

Position ==
  CASE poll = "offscreen" -> NO_LIGHT
    [] poll = "raw" -> correct_raw(gun_xy, Share(Display))
    [] poll = "aim" -> Scaled(s_aim_xy)

ApplyWrites ==
  /\ poll \in {"offscreen", "raw", "aim"}
  /\ pad_id' = "guncon"
  /\ s_guncon_active' = TRUE
  /\ poll' = "idle"
  /\ UNCHANGED <<sender, trigger, eventVars, shotVars, detectVars, owed>>

pops_aim_apply ==
  ApplyBeforeFound \/ ApplyReleased \/ ApplyAimed \/ ApplyWrites

\* POPS writes the id and the length once, when it starts.
PopsStarts ==
  /\ pad_id = "none" /\ poll = "idle"
  /\ pad_id' = "digital"
  /\ UNCHANGED s_guncon_active
  /\ UNCHANGED <<sender, trigger, eventVars, shotVars, detectVars, pollVars>>

\* The special thread: the block is taken only when POPS has polled for a
\* while and it looks as POPS sets it up.
pops_aim_find_pad_state ==
  /\ ~s_pad /\ s_pops_polling
  /\ s_settle_ticks' = Older(s_settle_ticks, DETECT_SETTLE_TICKS)
  /\ s_pad' = (s_settle_ticks' >= DETECT_SETTLE_TICKS /\ pad_state_valid)
  /\ UNCHANGED s_pops_polling
  /\ UNCHANGED <<sender, trigger, eventVars, shotVars, blockVars, pollVars>>

\* Fifty milliseconds pass.
Tick ==
  /\ no_light_age' = Older(no_light_age, GUN_HOLD)
  /\ shot_age' = Older(shot_age, Most(SHOT_HOLD, FLASH_WAIT))
  /\ dark_for' = IF is_no_light(s_aim_xy) THEN Older(dark_for, GUN_HOLD)
                 ELSE dark_for
  /\ UNCHANGED <<s_aim_valid, s_aim_raw, s_aim_offscreen, s_aim_xy, s_lit_xy,
                 s_lit_valid, s_shot_state, s_shot_xy, s_shot_force_press,
                 s_shot_prev_trigger, new_light, s_flash_wanted>>
  /\ UNCHANGED <<sender, trigger, detectVars, blockVars, pollVars>>

PopsPolls == inject_remote_values \/ ctrl_peek_negative_hook \/ pops_aim_apply

AimNext == AimEvent \/ PopsPolls \/ PopsStarts \/ pops_aim_find_pad_state \/ Tick

AimSpec == AimInit /\ [][AimNext]_aimVars

\* POPS goes on polling port 1, and time passes.
AimFairSpec ==
  /\ AimSpec
  /\ SF_aimVars(inject_remote_values)
  /\ WF_aimVars(pops_aim_apply)
  /\ WF_aimVars(Tick)

-----------------------------------------------------------------------------
(***************************************************************************)
(* Properties                                                              *)
(***************************************************************************)

\* A poll ends that gives the game the position of a real gun,
\* which has not been unplugged in the middle of it.
GameSeesGun == poll = "raw" /\ poll' = "idle" /\ s_aim_valid

\* The shot held is one at "no light": the reload of a game.
HoldsNoLight == shot_holding /\ s_shot_xy = NO_LIGHT

\* A place beside the picture may be corrected onto "no light", too.
CorrectedToNoLight == ~is_no_light(gun_xy) /\ Position = NO_LIGHT

\* The gaps in a gun's readings are hidden: the game sees no "no light" before
\* it has lasted GUN_HOLD, unless for a shot that went there.
FlickerHidden ==
  Position = NO_LIGHT =>
    dark_for >= GUN_HOLD \/ HoldsNoLight \/ CorrectedToNoLight

\* A gun that points off screen is seen to: beyond GUN_HOLD the game sees a
\* position only while a shot is held.
OffScreenSeen == Position # NO_LIGHT => dark_for < GUN_HOLD \/ shot_holding

\* A press held back is passed on as one at "no light" only if the gun has
\* had none for as long as the flash waits.
ShotExpires ==
  owed /\ ~owed' /\ GunAimed /\ s_shot_xy' = NO_LIGHT => dark_for >= FLASH_WAIT

\* What a game sees of a real gun is what the comments on the holds promise,
\* although events arrive between the filter of the trigger and the writing of
\* the coordinates, and between the two parts of the latter.
GunSeenRight ==
  [][ /\ GameSeesGun => FlickerHidden /\ OffScreenSeen
      /\ ShotExpires ]_aimVars

\* A press that was held back reaches the game, if the gun stays aimed, even
\* when the trigger was let go at once; and the screen is not flashed for ever.
HeldShotReaches ==
  /\ owed ~> ~owed
  /\ s_flash_wanted ~> ~s_flash_wanted

\* pops_aim.h, "Aiming stopped: port 1 goes back to the digital pad", as long
\* as POPS goes on polling through the hooks.
PadGivenBack == <>[](~s_aim_valid) => <>[](pad_id # "guncon")

=============================================================================
