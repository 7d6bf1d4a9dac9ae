---------------------------- MODULE JoypadBackend ----------------------------
(***************************************************************************)
(* The Pico 2 W's controllers: pico2w/joypad_backend.c with the slots and  *)
(* requests of config_portal.c and the BOOTSEL button of runtime_ui.c.     *)
(*                                                                         *)
(* Bluetooth events, HTTP requests, timers and the PSP's context all run   *)
(* in the background interrupt and do not interrupt each other; main's     *)
(* loop, rjm_joypad_backend_task, takes no lock, so any of them may come   *)
(* between two of its steps.  raced remembers that one of them outdated    *)
(* the loop's decision to look for controllers, or not to.                 *)
(*                                                                         *)
(* A paired controller that is connected reports input for its player;     *)
(* scanning looks for those that are not.  A start of the portal disables  *)
(* the output to the PSP until the firmware is restarted.                  *)
(***************************************************************************)
EXTENDS PicoSettings

\* There is a controller to pair (Editors).
ASSUME JoypadBackendAssumption == Addresses # {}

VARIABLES
  user,       \* what the user does in this behaviour: "pairs" controllers, or
              \* "edits" profiles with writes to flash that may fail (bounds
              \* the model: not both)
  device,     \* away, active, or leaving: forgotten, and not yet disconnected
  g_slots,    \* of each player: address, and whether it is connected
  g_pairing_slot,    \* NoPlayer while not pairing
  g_started,         \* the portal is open
  g_reboot_pending,  \* set with g_shutdown_pending
  g_pops_context,
  input,      \* whose state is in g_input_state, None unless g_input_connected
  g_combo_chord,
  g_input_enabled,   \* of psp_host.c
  reported,   \* whose state psp_host.c reports for each player
  aim,        \* whose gyro aim it reports
  scanning,   \* the Bluetooth stack looks for controllers
  starting,   \* g_startup_timer has not fired
  task,       \* rjm_joypad_backend_task: where it is, and its locals
  raced       \* it acted on a decision that a callback had outdated (history)

pairVars == <<g_slots, g_pairing_slot>>
portalVars == <<g_started, g_reboot_pending>>
pspVars == <<g_input_enabled, reported, aim>>
inputVars == <<input, g_combo_chord>>
storeVars == <<settingsVars, flash, historyVars>>
vars == <<storeVars, user, device, pairVars, portalVars, g_pops_context, inputVars,
          pspVars, scanning, starting, task, raced>>

NoPlayer == -1
EmptySlot == [address |-> None, connected |-> FALSE]
Idle == [pc |-> "idle"]
\* Whose controller it is in the behaviours where the user edits.
Editors == CHOOSE d \in Addresses : TRUE

AddressesIn(slots) == [s \in Slots |-> slots[s].address]
SlotsFrom(addresses) == [s \in Slots |-> [address |-> addresses[s], connected |-> FALSE]]

player_for_address(slots, d) ==
  IF slots[0].address = d THEN 0 ELSE IF slots[1].address = d THEN 1 ELSE NoPlayer

p2_runtime_enabled == g_pops_context /\ g_p2_enabled

\* btstack_host_forget_device: the controller is disconnected, later.
Forgotten(devices, d) ==
  IF d # None /\ devices[d] = "active" THEN [devices EXCEPT ![d] = "leaving"]
  ELSE devices

\* Mutant: player 2 is looked for whenever it is paired.
Needed_Always(s, p2) == TRUE
Needed(s, p2) == s = 1 => p2
NeedsScan(slots, pairing, p2) ==
  \/ pairing # NoPlayer
  \/ \E s \in Slots : /\ Needed(s, p2)
                      /\ slots[s].address # None
                      /\ ~slots[s].connected
\* update_scan_state, on what it reads.
update_scan_state(slots, pairing, p2, rebooting) ==
  ~rebooting /\ NeedsScan(slots, pairing, p2)
ScanNow == update_scan_state(g_slots, g_pairing_slot, p2_runtime_enabled,
                             g_reboot_pending)

\* remap_players: what is reported of the players' input.
Remapped(inputs, p2) ==
  [p \in Slots |-> IF g_input_enabled /\ (p = 1 => p2) THEN inputs[p] ELSE None]

set_connected(slots, d, connected) ==
  [s \in Slots |-> IF slots[s].address = d THEN [slots[s] EXCEPT !.connected = connected]
                   ELSE slots[s]]

\* complete_pairing: an address belongs to one slot.
complete_pairing(slots, slot, d) ==
  [s \in Slots |-> IF s = slot THEN [address |-> d, connected |-> FALSE]
                   ELSE IF slots[s].address = d THEN EmptySlot ELSE slots[s]]

\* rjm_config_store_save_slots; nobody looks at its result, and it never fails
\* here.
SaveSlots(f, slots) == [f EXCEPT !.slots = AddressesIn(slots)]
\* Pairing player 2 turns it on, and saves that.
SaveP2(f, slot) == IF slot = 1 THEN [f EXCEPT !.p2 = TRUE] ELSE f

-----------------------------------------------------------------------------
\* Who edits profiles has paired a controller before.
Init ==
  /\ user \in {"pairs", "edits"}
  /\ InitSettings(IF user = "edits" THEN [EmptySlots EXCEPT ![0] = Editors]
                  ELSE EmptySlots)
  /\ g_slots = SlotsFrom(flash.slots)
  /\ device = [d \in Addresses |-> "away"]
  /\ g_pairing_slot = NoPlayer
  /\ g_started = FALSE /\ g_reboot_pending = FALSE
  /\ g_pops_context = FALSE
  /\ input = EmptySlots
  /\ g_combo_chord = [p \in Slots |-> FALSE]
  /\ g_input_enabled = TRUE
  /\ reported = EmptySlots
  /\ aim = None
  /\ scanning = FALSE
  /\ starting = TRUE
  /\ task = Idle
  /\ raced = FALSE

\* Power lost, the reboot after POST /api/done, or BOOTSEL held for six
\* seconds: rjm_joypad_backend_init loads the records, and 1P keeps an address
\* that both slots have.
Restart ==
  LET loaded == flash.slots
      twice == loaded[0] # None /\ loaded[0] = loaded[1]
      slots == IF twice THEN [loaded EXCEPT ![1] = None] ELSE loaded
  IN  /\ device' = [d \in Addresses |-> "away"]
      /\ RestoreSettings
      /\ g_slots' = SlotsFrom(slots)
      /\ g_pairing_slot' = NoPlayer
      /\ g_started' = FALSE /\ g_reboot_pending' = FALSE
      /\ g_pops_context' = FALSE
      /\ input' = EmptySlots
      /\ g_combo_chord' = [p \in Slots |-> FALSE]
      /\ g_input_enabled' = TRUE
      /\ reported' = EmptySlots
      /\ aim' = None
      /\ scanning' = FALSE
      /\ starting' = TRUE
      /\ task' = Idle
      /\ raced' = FALSE
      /\ flash' = [flash EXCEPT !.slots = slots]
      /\ UNCHANGED <<user, half>>

startup_timer_handler ==
  /\ starting /\ ~raced
  /\ starting' = FALSE
  /\ scanning' = ScanNow
  /\ UNCHANGED <<storeVars, user, device, pairVars, portalVars, g_pops_context,
                 inputVars, pspVars, task, raced>>

\* A controller's channels are ready.
Connect(d) ==
  /\ user = "edits" => d = Editors
  /\ device[d] = "away"
  /\ ~g_reboot_pending
  /\ device' = [device EXCEPT ![d] = "active"]
  /\ UNCHANGED <<storeVars, user, pairVars, portalVars, g_pops_context, inputVars,
                 pspVars, scanning, starting, task, raced>>

-----------------------------------------------------------------------------
(***************************************************************************)
(* Callbacks of the Bluetooth stack                                        *)
(***************************************************************************)

\* rjm_joypad_input_event of a controller that no slot has: it is sent away.
EventOfUnknown(d) ==
  /\ device[d] # "away"
  /\ player_for_address(g_slots, d) = NoPlayer
  /\ g_pairing_slot = NoPlayer
  /\ device' = Forgotten(device, d)
  /\ UNCHANGED <<storeVars, user, pairVars, portalVars, g_pops_context, inputVars,
                 pspVars, scanning, starting, task, raced>>

\* The rest of rjm_joypad_input_event, for a player's controller: the slots and
\* pairing slot as they are by then.  moves: the controller has a gyro and is
\* calibrated.
UseInput(d, player, slots, pairing, p2_setting, moves) ==
  LET p2 == g_pops_context /\ p2_setting
      inputs == [input EXCEPT ![player] = d]
      connected == set_connected(slots, d, TRUE)
  IN  /\ input' = inputs
      /\ aim' = IF player = 1 THEN aim
                ELSE IF g_input_enabled /\ g_pops_context /\ rjm_portal_guncon_enabled
                        /\ moves
                THEN d ELSE None
      /\ IF input[player] = None
         THEN /\ g_slots' = connected
              /\ scanning' = update_scan_state(connected, pairing, p2, g_reboot_pending)
         ELSE g_slots' = slots /\ UNCHANGED scanning
      /\ g_pairing_slot' = pairing
      /\ reported' = Remapped(inputs, p2)

\* It completes a pairing when its address is new.
EventPairs(d) ==
  LET slot == g_pairing_slot
      slots == complete_pairing(g_slots, slot, d)
  IN  /\ device[d] # "away"
      /\ player_for_address(g_slots, d) = NoPlayer
      /\ slot # NoPlayer
      /\ device' = Forgotten(device, g_slots[slot].address)
      /\ g_p2_enabled' = (g_p2_enabled \/ slot = 1)
      /\ flash' = SaveSlots(SaveP2(flash, slot), slots)
      /\ UseInput(d, slot, slots, NoPlayer, g_p2_enabled \/ slot = 1, FALSE)
      /\ UNCHANGED <<g_mapping, g_guncon_mask, historyVars, user, portalVars,
                     g_pops_context, g_combo_chord, g_input_enabled, starting, task,
                     raced>>

\* The switching chord, once per press of START: pressed is what of it is held.
NextProfile(player, pressed) ==
  /\ g_combo_chord' = [g_combo_chord EXCEPT ![player] =
       pressed = "chord" \/ (pressed = "start" /\ @)]
  /\ IF pressed = "chord" /\ ~g_combo_chord[player]
     THEN \E ok \in {TRUE, half} : rjm_portal_next_profile(ok)
     ELSE UNCHANGED storeVars

EventOfPlayer(d) ==
  LET player == player_for_address(g_slots, d)
  IN  /\ device[d] # "away"
      /\ player # NoPlayer
      /\ \E pressed \in IF user = "edits" THEN {"nothing", "start", "chord"}
                        ELSE {"nothing"} : NextProfile(player, pressed)
      /\ \E moves \in IF user = "edits" THEN BOOLEAN ELSE {FALSE} :
           UseInput(d, player, g_slots, g_pairing_slot, g_p2_enabled, moves)
      /\ UNCHANGED <<user, device, portalVars, g_pops_context, g_input_enabled,
                     starting, task, raced>>

rjm_joypad_input_event(d) == EventOfUnknown(d) \/ EventPairs(d) \/ EventOfPlayer(d)

\* Mutant: the input stays.
Released_Kept(inputs, player) == inputs
Released(inputs, player) == [inputs EXCEPT ![player] = None]

rjm_joypad_device_disconnected(d) ==
  LET player == player_for_address(g_slots, d)
      slots == set_connected(g_slots, d, FALSE)
  IN  /\ device[d] \in IF user = "edits" THEN {"leaving"} ELSE {"active", "leaving"}
      /\ device' = [device EXCEPT ![d] = "away"]
      /\ g_slots' = slots
      /\ IF player = NoPlayer THEN UNCHANGED <<inputVars, reported, aim>>
         ELSE /\ input' = Released(input, player)
              /\ g_combo_chord' = [g_combo_chord EXCEPT ![player] = FALSE]
              /\ reported' = Released(reported, player)
              /\ aim' = IF player = 0 THEN None ELSE aim
      /\ scanning' = update_scan_state(slots, g_pairing_slot, p2_runtime_enabled,
                                       g_reboot_pending)
      /\ UNCHANGED <<storeVars, user, g_pairing_slot, portalVars, g_pops_context,
                     g_input_enabled, starting, task, raced>>

-----------------------------------------------------------------------------
(***************************************************************************)
(* Calls from the PSP's link, BOOTSEL and the portal                       *)
(***************************************************************************)

rjm_controller_set_pops_context(is_pops) ==
  /\ g_pops_context' = is_pops
  /\ aim' = IF is_pops THEN aim ELSE None
  /\ reported' = Remapped(input, is_pops /\ g_p2_enabled)
  /\ scanning' = update_scan_state(g_slots, g_pairing_slot, is_pops /\ g_p2_enabled,
                                   g_reboot_pending)
  /\ UNCHANGED <<storeVars, user, device, pairVars, portalVars, inputVars,
                 g_input_enabled, starting, task, raced>>

\* BOOTSEL held, for longer than the startup timer takes.  The output stays
\* disabled even when the portal cannot start.
rjm_portal_start ==
  /\ ~g_started
  /\ ~starting
  /\ g_input_enabled' = FALSE
  /\ reported' = EmptySlots
  /\ aim' = None
  /\ g_started' \in BOOLEAN
  /\ UNCHANGED <<storeVars, user, device, pairVars, g_reboot_pending, g_pops_context,
                 inputVars, scanning, starting, task, raced>>

\* The page asks for nothing any more once it has asked for the reboot.
Serves == g_started /\ ~g_reboot_pending

\* POST /api/pair
PairRequest(slot) ==
  /\ Serves /\ user = "pairs"
  /\ g_pairing_slot' = slot
  /\ device' = Forgotten(device, g_slots[slot].address)
  /\ scanning' = TRUE
  /\ UNCHANGED <<storeVars, user, g_slots, portalVars, g_pops_context, inputVars,
                 pspVars, starting, task, raced>>

\* POST /api/unpair
UnpairRequest(slot) ==
  LET d == g_slots[slot].address
      slots == [s \in Slots |-> IF g_slots[s].address = d THEN EmptySlot ELSE g_slots[s]]
  IN  /\ Serves /\ user = "pairs"
      /\ d # None
      /\ device' = Forgotten(device, d)
      /\ g_slots' = slots
      /\ flash' = SaveSlots(flash, slots)
      /\ scanning' = update_scan_state(slots, g_pairing_slot, p2_runtime_enabled,
                                       g_reboot_pending)
      /\ UNCHANGED <<settingsVars, historyVars, user, g_pairing_slot, portalVars,
                     g_pops_context, inputVars, pspVars, starting, task, raced>>

\* POST /api/p2/enabled
P2Request ==
  /\ Serves /\ user = "pairs"
  /\ g_p2_enabled' = ~g_p2_enabled
  /\ saved' = FALSE
  /\ scanning' = update_scan_state(g_slots, g_pairing_slot,
                                   g_pops_context /\ ~g_p2_enabled, g_reboot_pending)
  /\ UNCHANGED <<g_mapping, g_guncon_mask, flash, half, mixed, user, device, pairVars,
                 portalVars, g_pops_context, inputVars, pspVars, starting, task, raced>>

ProfileRequest ==
  /\ Serves /\ user = "edits"
  /\ http_recv_profile
  /\ UNCHANGED <<user, device, pairVars, portalVars, g_pops_context, inputVars, pspVars,
                 scanning, starting, task, raced>>

SaveRequest ==
  /\ Serves /\ user = "edits"
  /\ \E n \in 0..Len(SaveOrder) : (half => n = Len(SaveOrder)) /\ config_save(n)
  /\ UNCHANGED <<user, device, pairVars, portalVars, g_pops_context, inputVars, pspVars,
                 scanning, starting, task, raced>>

\* POST /api/done: the settings are saved and every controller disconnected
\* before the reboot.
DoneRequest ==
  /\ Serves
  /\ \E what \in IF user = "edits" /\ ~half THEN SUBSET ToSet(SaveOrder)
                ELSE {ToSet(SaveOrder)} : DoneSaves(what)
  /\ g_reboot_pending' = TRUE
  /\ device' = [d \in Addresses |-> IF device[d] = "away" THEN "away" ELSE "leaving"]
  /\ scanning' = FALSE
  /\ UNCHANGED <<user, pairVars, g_started, g_pops_context, inputVars, pspVars, starting,
                 task, raced>>

http_recv ==
  \/ \E slot \in Slots : PairRequest(slot) \/ UnpairRequest(slot)
  \/ P2Request \/ ProfileRequest \/ SaveRequest \/ DoneRequest

-----------------------------------------------------------------------------
(***************************************************************************)
(* rjm_joypad_backend_task visits the connections over and over.  A visit  *)
(* is a step, but for the places where what was read is used later: the    *)
(* pairing slot, and update_scan_state's decision.                         *)
(***************************************************************************)

\* A new controller is found while pairing.
TaskFinds(d) ==
  /\ task = Idle
  /\ device[d] # "away"
  /\ player_for_address(g_slots, d) = NoPlayer
  /\ g_pairing_slot # NoPlayer
  /\ task' = [pc |-> "pair", conn |-> d, slot |-> g_pairing_slot]
  /\ UNCHANGED <<storeVars, device, pairVars, scanning, raced>>

\* complete_pairing_replacing forgets the slot's old controller, completes the
\* pairing and stores the slots.
TaskPairs ==
  /\ task.pc = "pair"
  /\ LET slot == task.slot
         d == task.conn
         old == g_slots[slot].address
         slots == complete_pairing(g_slots, slot, d)
     IN  /\ device' = IF old = d THEN device ELSE Forgotten(device, old)
         /\ g_slots' = slots
         /\ g_pairing_slot' = NoPlayer
         /\ g_p2_enabled' = (g_p2_enabled \/ slot = 1)
         /\ flash' = SaveSlots(SaveP2(flash, slot), slots)
         /\ task' = [pc |-> "act",
                     scan |-> update_scan_state(slots, NoPlayer,
                                g_pops_context /\ (g_p2_enabled \/ slot = 1),
                                g_reboot_pending)]
  /\ UNCHANGED <<g_mapping, g_guncon_mask, historyVars, scanning, raced>>

\* The slot of a connection found open is marked connected.
TaskConnects(d) ==
  LET player == player_for_address(g_slots, d)
      slots == set_connected(g_slots, d, TRUE)
  IN  /\ task = Idle
      /\ device[d] # "away"
      /\ player # NoPlayer
      /\ ~g_slots[player].connected
      /\ g_slots' = slots
      /\ task' = [pc |-> "act",
                  scan |-> update_scan_state(slots, g_pairing_slot, p2_runtime_enabled,
                                             g_reboot_pending)]
      /\ UNCHANGED <<storeVars, device, g_pairing_slot, scanning, raced>>

TaskActs ==
  /\ task.pc = "act"
  /\ scanning' = task.scan
  /\ raced' = (raced \/ task.scan # ScanNow)
  /\ task' = Idle
  /\ UNCHANGED <<storeVars, device, pairVars>>

rjm_joypad_backend_task ==
  /\ user = "pairs" /\ ~raced
  /\ \/ \E d \in Addresses : TaskFinds(d) \/ TaskConnects(d)
     \/ TaskPairs
     \/ TaskActs
  /\ UNCHANGED <<user, portalVars, g_pops_context, inputVars, pspVars, starting>>

-----------------------------------------------------------------------------
Callback ==
  \/ startup_timer_handler
  \/ \E d \in Addresses : \/ Connect(d)
                          \/ rjm_joypad_input_event(d)
                          \/ rjm_joypad_device_disconnected(d)
  \/ \E is_pops \in IF user = "edits" THEN {TRUE} ELSE BOOLEAN :
       rjm_controller_set_pops_context(is_pops)
  \/ rjm_portal_start
  \/ http_recv

\* Nothing but a restart is followed beyond a race: the scan stays as it was
\* decided until the next event, which the property excepts anyway.
Next == rjm_joypad_backend_task \/ (~raced /\ Callback) \/ Restart

Spec == Init /\ [][Next]_vars

\* The main loop runs for ever, and the startup timer fires.
FairSpec == Spec /\ WF_vars(rjm_joypad_backend_task) /\ WF_vars(startup_timer_handler)

-----------------------------------------------------------------------------
(***************************************************************************)
(* Properties                                                              *)
(***************************************************************************)

\* Only a paired, linked controller is reported to the PSP, player 2 only in
\* POPS while it is enabled, and gyro aim only in POPS; nothing is reported
\* while the portal is open (pico2w/README.md, "PSP output is released and
\* disabled while the configuration portal is active").  Unpairing and
\* re-pairing leave old input behind, which the disabled output hides.
OnlyPairedReported ==
  /\ \A p \in Slots : reported[p] # None =>
       /\ g_slots[p].address = reported[p]
       /\ device[reported[p]] # "away"
       /\ p = 1 => p2_runtime_enabled
  /\ aim # None => g_pops_context /\ g_slots[0].address = aim /\ device[aim] # "away"
  /\ g_started => reported = EmptySlots /\ aim = None

\* "A controller address belongs to exactly one player slot"
\* (config_portal.c:542), and those in flash are those in use, whatever is
\* paired, replaced, moved to the other player or unpaired, and whenever power
\* is lost.
SlotsKept ==
  /\ g_slots[0].address # None => g_slots[0].address # g_slots[1].address
  /\ flash.slots = AddressesIn(g_slots)

\* A controller that is looked for: one being paired, or a registered one that
\* the present context has use for.
Missing ==
  \/ g_pairing_slot # NoPlayer
  \/ \E s \in Slots : /\ g_slots[s] # EmptySlot /\ ~g_slots[s].connected
                      /\ s = 0 \/ p2_runtime_enabled

\* pico2w/README.md, "Discovery stops once every currently applicable,
\* registered player is connected, and always resumes for Web pairing": as long
\* as nothing races the loop.
DiscoveryFollows ==
  LET Running == ~starting /\ ~g_reboot_pending
  IN  []~raced =>
        /\ <>[](Running /\ Missing) => <>[]scanning
        /\ <>[](Running /\ ~Missing) => <>[]~scanning

=============================================================================
