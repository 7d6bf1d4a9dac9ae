# Verification of remotejoy-minus

remotejoy-minus sends a game controller's input to a PSP over USB. A plugin in the
PSP (`main.c`, `remotejoy_minus.c`, `pops_aim.c`) poses as a USBHostFS device; a
microcontroller is the USB host and the sender: a Pico 2 W with Bluetooth
controllers (`pico2w/`) or an RP2040-Zero with a PS2 port (`rp2040-zero/`).

This directory holds TLA+ models of the parts that run concurrently, remember
something from one event to the next or survive failures, TLC configurations that
check them on small instances, and TLAPS proofs, for every value of the constants,
of every safety property those configurations find to hold. Paths below are relative
to `src/`.

    tlasany AsyncRing.tla                              # parse a module
    tlc -config AsyncRing.cfg AsyncRing.tla            # check a run
    tlapm AsyncRingProofs.tla                          # check proofs; also
                                                       # RemoteLinkProofs, PspInputProofs,
                                                       # Rp2040InputProofs, JoyEventsProofs,
                                                       # JoypadBackendProofs, PluginProofs,
                                                       # SpecialButtonsProofs

`PROJECT.json` lists the components, the runs, for each property a mutation of the
model that breaks it, the source lines of every definition, the findings, the
hazards and the theorems.

## 1. Inventory

### In the PSP

| Part | State | Operations | What is hard | What makes it correct |
|---|---|---|---|---|
| USB driver, `remotejoy_minus.c` | `g_usb_ready`, event flags `g_main_event`, `g_trans_event`, `g_async_event`, the requests | attach, detach and completion interrupts; `usb_thread`; suspend, resume, shutdown | interrupts set flags between any two statements of two threads of different priority | both ends agree when the link is up; the PSP always has a request out; nobody waits for ever, or keeps another from running |
| Event ring, `g_async_endp` | buffer, `read_pos`, `write_pos`, `size` | `fill_async`, `rjmUsbAsyncRead`, `rjmUsbAsyncFlush` | it is 1024 words, no multiple of the 3-word event, so it cuts events when full | no event made of two; no stored event forgotten |
| Input state, `main.c` | `g_currjoy`, `g_p2joy`, `g_p2_connected`, latches, `g_music_controller`, `g_input_reset_serial` | `handle_joyevent`, `reset_remote_input_state`, both in `main_thread` | resets at any time; player 2 comes and goes | what the sender holds is what is held; nothing survives a session |
| Special buttons, `main.c` | previous buttons, hold and repeat counters | one poll each 50 ms | the poll reads shared state three times; the resets are asynchronous | a press acts once |
| Controller hooks, `main.c` | six patched functions, trampolines, latches | patch, restore, inject | calls by games while hooks are patched, and between events | games see every press once, and the original functions come back |
| POPS gate, `main.c`, `pops_hook.S` | two words of POPS, mode, pulse, trampoline | install, switch, remove | two threads patch code that runs | POPS's own words come back |
| GunCon and analog, `pops_aim.c` | aim, shot phase, pad block found in POPS, records of frames painted on | set, release, filter, apply, draw, invert | events inside POPS's poll; a shot held back for a flash; painting into frames that POPS shows in any order | each shot reaches the game at the right place; no trace stays on the screen |
| Life cycle, `main.c` | threads, callback, `g_cleanup_started` | `module_start`, `cleanup_module` | cleanup by any of three threads while the others run | nothing of the plugin stays behind |

### In the senders

| Part | State | Operations | What is hard | What makes it correct |
|---|---|---|---|---|
| Pico input queue, `psp_host.c` | `g_state`, `g_last`, queue, pending axes and aim | `rjm_psp_host_set_state` and friends, timer, completion | a full queue; failed transfers the PSP did receive; values that move while being sent | the PSP's state converges to the controllers' |
| USB link, `psp_host.c` and `standalone_usbhost.c` | handshake flags, one shared transfer buffer | mount, descriptors, magic, hello, context, timeouts | the timeouts against answers that are under way; one sender retries where the other gives up | the buffer keeps its words; both ends know whether the link is up |
| Controller backend, `joypad_backend.c` | slots, players, scan state | input and connection callbacks, pairing, the main loop | the loop takes no lock; a controller is replaced while connected | only paired controllers report; scanning goes on as long as one is missing |
| Settings, store and portal, `config_model.c`, `config_store.c`, `config_portal.c`, `runtime_ui.c` | profiles, GunCon bits kept beside them, records in flash | requests, chord, restart | one setting in two records; writes that fail or are cut off | what was saved comes back, and belongs together |
| RP2040 input and queue, `standalone_usbhost.c` | last values, queue of 16 | diff, reassert, debounce, send | results of `enqueue_joy_event` are ignored in places | what is held is held; a gun's release arrives |
| RP2040 PS2 port, `standalone_usbhost.c` | modes of what was found: music controller, gun, player 2, multitap, chord | one reading each 10 ms, link up and down | several ways to read the same controllers, each updating a part of the modes | what is found is what is there; a chord acts once |
| RP2040 mapping and portal; gyro aim | profile record, calibration | | | arithmetic stays in range |

The parts interact as follows. A controller's state reaches the sender's queue (a
call); the queue's events cross the bus as 20-byte packets; a completion interrupt
wakes `usb_thread`, which copies a packet's event into the ring and sets an event
flag; `main_thread` takes events from the ring and applies them to the shared input
state; the special-button thread and the hooked controller functions read that
state, and both threads patch the gate. Handshake, attach, detach, suspend and
cleanup cut across this path at any point. The PSP tells the sender whether it runs
POPS, which decides whether player 2 and the gun are used.

`PROJECT.json`, "components" has every part with its status, "hazards" what can go
wrong in it at which line, with the properties that would notice.

## 2. Modules

    EventChannel            AsyncRing
    (what a reader of         │ implements EventChannel
     the ring may assume) <───┘
    JoyEvents ──> PspInput                         (events and what they do)
              │     │ implements PadChannel        (what player 1 may assume)
              └─> Rp2040Sender + Ps2Port ──> Rp2040Input
    HostLink ──> PspLink ─────┐
             └─> Rp2040Link ──┴─> RemoteLink <── UsbDevice    (both ends of the bus)
    PopsGate ──> ModuleLifecycle                   (main.c)
    SpecialButtons                                 (main.c)
    AimScreen ──> PopsAim, PopsOverlay             (pops_aim.c)
    PicoSettings ──> JoypadBackend                 (pico2w)

and their theorems, in modules that extend them:

    AsyncRing      ──> AsyncRingProofs
    RemoteLink     ──> RemoteLinkProofs
    JoyEvents      ──> JoyEventsProofs ──> PspInputProofs      (<── PspInput)
                                       └─> Rp2040InputProofs   (<── Rp2040Input)
    JoypadBackend  ──> JoypadBackendProofs
    SpecialButtons ──> SpecialButtonsProofs
    ModuleLifecycle, PopsAim, PopsOverlay ──> PluginProofs

- **AsyncRing**: the ring and `main_thread`'s loop, word by word. The sections with
  interrupts disabled are actions; so are the steps between them
  (`AsyncReadWait`/`AsyncRead`), where the other thread's `fill_async`, flush or
  wakeup may come. A word carries the event it belongs to and its place in it;
  contents that a cut has shifted are tested as the code tests them (`Accepted`).
- **EventChannel**: the abstract specification: a stream in order, without
  duplicates, with no loss that goes unnoticed. `AsyncRing` implements it.
- **JoyEvents**: the event types as records and `handle_joyevent`'s effect on
  the PSP's input, used by both sender models to say what the PSP *will* hold once
  it has received the queue (`AfterAll`).
- **PspInput**: `pico2w/psp_host.c` above the handshake. Everything is called from one
  run loop, so a handler is one action. A completion reports success or failure and,
  independently, the PSP has or has not received the event.
- **PadChannel**: the abstract specification of that queue for player 1's buttons: the
  PSP passes, in order and skipping none, through what was put in; a change is put in
  whole or not at all, its press before its release, and at once while the queue has
  room for any (`room`); an event taken twice changes nothing; only unplugging the PSP
  loses any of it. `PspInput` implements it.
- **UsbDevice**: the PSP's end of the link. `usb_thread`, `main_thread` and the power
  callback have program counters; interrupts come between any two of their steps, and
  a thread sleeps in its logs (below).
- **HostLink**, **PspLink**, **Rp2040Link**: the senders' ends. The two programs agree
  step by step in the handshake (HostLink) and differ in resets, retries and
  timeouts: the Pico's timeout goes on for ever and sends the magic again whatever it
  waits for; the RP2040's aborts a hello that does not come and repeats the magic,
  but ends the handshake when the magic itself is not taken. **RemoteLink** joins
  either sender, chosen at the start, to the bus and to the PSP: a transfer happens
  when both ends have asked for it, and may fail or come too late.
- **Rp2040Sender**: `poll_input_state` and its queue, including what it ignores.
- **Ps2Port**: one reading of the PS2 port: slot 1 alone, slot 2 alone, or both in a
  multitap's long answer, decoded into the modes that stay from one reading to the
  next, and the START chord that goes to the next profile. **Rp2040Input** puts both
  beside each other: what a reading finds is what `Rp2040Sender` takes for granted
  (`Found`), and neither has state of the other.
- **PopsGate**: the two words of POPS, written word by word by the special thread,
  with `main_thread`'s switch possible between any two writes, and with the logs
  of `try_install_pops_gate_hook` between what it finds and what it does.
- **ModuleLifecycle**: the threads as `module_start` starts them, the hooked
  functions, the driver, and `cleanup_module` step by step in whichever thread runs
  it. In POPS it is composed with `PopsGate`; outside POPS with the latches that a
  game polls through the hook, and with the yield to a POPS that has been loaded.
- **SpecialButtons**: the special thread's poll in its three reads, beside events and
  resets.
- **AimScreen**: the arithmetic between a gun's units, a gyro's and the display's, and
  what the aim and the overlay share: the readings and `s_flash_wanted`.
- **PopsAim**: the aim events, the trigger that is held back until the flash has let the
  gun see light, and POPS's two polls with the steps at which the interrupts are on.
- **PopsOverlay**: the crosshair and the flash painted into the frames POPS shows; a
  frame is its two areas, what is inverted in them and the pixels drawn on them.
- **PicoSettings**: profiles, the GunCon bits that are kept by index beside them, and
  their records in flash. **JoypadBackend** composes the requests and the chord that
  change them with slots, pairing, connections, the context, the portal's start and
  the restart; the main loop's steps are interleaved with all of these.

*Logs.* In a build that sets nothing, `rjmLogText` and `rjmLogHex` do no more than sleep:
10 ms, `RJM_TRACE_PACE_US` of `rjm_log.c:10-11`, unless the interrupts are disabled
(`rjm_log.c:94-117`); a build that logs waits for the memory stick instead. Either way
the thread leaves the processor, and threads of lower priority run. What is logged is
left out, but the sleep is kept as a place of its own where it makes a difference: in
`usb_thread` and `main_thread` (UsbDevice: `UsbAsleep`, `MainAsleep`), on the way to the
gate's patch (PopsGate: `Sleeps`) and through most of `cleanup_module`
(ModuleLifecycle: `CleanupAsleep`). Two results rest on it: a standby gets through only
because of it, and a cleanup may come between the test for player 2 and the patch.

In every module a variable has the name of the code's where there is one (its
comment says which otherwise), an action that of the function; an action is the
whole handler. Definitions `X_Something` beside `X` are mutations used to show that
a property can fail; nothing else uses them. History variables, which the code does
not have, are marked "(history)" where they are declared, or named here: `sent`,
`applied`, `dropped` (AsyncRing), `psp` (what the PSP received; PspInput,
Rp2040Sender), `failed`, `overtaken` (PopsGate), `acts`, `owed`, `unasked`, `released`
(SpecialButtons) and the counters that bound the models.

## 3. Runs

| Run | Bounds | What it shows |
|---|---|---|
| `async_ring` | 7 words, 6 events | the ring's safety, refinement and draining |
| `psp_input` | 2 buttons, 2 players, 2 stick positions, 3 aims, a queue of 2 events, 2 reports | what the PSP will hold is what the Pico believes it holds, over failed and duplicated transfers, a full queue and late completions; all of it arrives, player 1's buttons as `PadChannel` promises |
| `remote_link` | either sender, 2 sessions, 1 failed or late transfer in each, standby | agreement about the link, no stale input, no transfer's words change under it; a plugged-in PSP connects, an unplugged one lets go of all input, one that goes to standby gets there |
| `rp2040_sender` | stream: 1 button, 2 players, 1 aim, a queue of 2, failing transfers, 2 reports; port: 2 profiles, 3 sets of buttons in slot 1 and 2 in slot 2, all controllers, all taps | nothing is held unless an event was lost, a held button reaches the PSP, gun and music survive overflow; what a reading finds is there, a chord acts once |
| `rp2040_release` | the stream with 3 reports, no failed transfer | **fails**: an overflow leaves player 2's buttons down (below) |
| `pops_gate` | none: the module is finite | POPS's words are saved right, mode and words agree, the hook is installed, pulses end; after a cleanup nothing is left, unless it came upon a patch under way; a game's latches miss no press |
| `pops_gate_cleanup` | none | **fails**: a patch that is under way when the cleanup looks for it stays (below) |
| `pops_gate_stock` | none | **fails**: POPS's code does not come back (below) |
| `special_buttons` | 5 buttons, 5 events or resets | a press acts once, quiet after release, repeats go on |
| `pops_aim` | 3 readings of a gun, 1 of a gyro, 1 display, holds of 1 to 3 ticks | the game sees the shot where it was aimed, gaps hidden and turning away seen, held shots arrive, the pad is given back |
| `pops_overlay` | 2 frames, 3 records, 2 displays; the arithmetic on every display, screen mode and reading, by an assumption of its MC module | the crosshair leaves no trail, the flash is accounted for, the crosshair is where the game is told the gun points |
| `pico2w` | 2 controllers, 3 profiles | GunCon bits follow their profiles, saved settings come back, only paired controllers report, scanning goes on exactly as long as one is missing |

Why the bounds are enough. The ring's arithmetic sees only a position, a free space
modulo an event's length and a wrap: 7 words wrap inside an event at every offset and
are cut by the third event; six events overflow it twice. The proofs (section 5)
remove the bound, here as for the other safety properties they cover. A sender's queue
of two or three fills with one report of two players and has to refuse the next; each
further report only repeats that; a stick moves by exactly its deadband, the aim by less
than its own and by more. Two sessions are the smallest number in which something of a
session can be left in another. In `special_buttons` a combination
needs two presses and two releases, and a reset or a music event comes between any of
them; the hold and repeat limits are shortened to 2 or 3 polls, longer than the
shortest and shorter than the number of polls between events, which is unbounded. Two
profiles, one of which maps a button to COMBO, are enough for a chord to lead to a
profile under which it is none, and back. Three profiles let one before, at or after
the active one be deleted; two controllers fill both slots, and a third would only
take the place of one that is away. Two frames let POPS show another one in the middle
of a flash; more than `XH_RECORDS` frames would push records out, which the code
accepts and the assumption excludes. In `pops_aim` a tick is 50 ms and each hold is as
many ticks as keeps the order of the four holds and lets them overlap.

The three failing runs are disagreements between the code and what the repository
says of it; `PROJECT.json`, "findings" quotes both sides.

- **Player2Released.** `poll_input_state` records player 2's status and releases as sent
  even when the queue had no room, and nothing sends them again.
- **StockBehaviourReturns.** `main_thread` can switch the gate's mode between the two
  writes of `remove_pops_gate_hook`, or after them and before the state says
  "removed", and the patch stays.
- **PatchUndone.** `cleanup_module` tells the special thread to end and does not wait
  for it. If that thread is past its test of player 2 (line 637) and asleep in a log of
  `try_install_pops_gate_hook`, the cleanup finds no gate to remove; the thread wakes,
  patches POPS (lines 1386-1390), and is terminated (line 1777). `main_thread` need not
  take a step. A poll interrupted in the middle of `update_pops_gate_mode`'s patch
  ends the same way.

### What the passing properties except

A property that would fail without an exception states it; these are behaviours of
the code, worth a maintainer's look.

- *Pico queue*: a press *and* release that both fall into a full queue are not
  reported. `pico2w/README.md` says that short inputs are not lost; that is so while
  two slots are free (`ImplementsPadChannel`), and the final state arrives in any case
  (`Settles`).
- *Special buttons*: a reset that comes after the thread has read the buttons can act
  once more (`ActsWerePressed`); in the window of the power callback's reset the HOME
  intercept may be wrong (`InterceptReleased`); under POPS the brightness may change
  for a music controller that connects while START and LEFT are held.
- *Link*: a session in which a transfer failed or came too late may stay unconnected
  until the next attach: the PSP does not read again after a failed exchange, and
  the RP2040 does not abort a magic that is not taken, so that its late completion
  carries on with nothing watching it. `Connects` says that this does not outlast
  the session, for either sender.
- *Standby*: it gets through by `main_thread`'s two logs of 10 ms in each round of a
  loop that waits for nothing else, while the link is down and CONNECT still set
  (`main.c:1610` and `1612`). With `RJM_TRACE_PACE_US` set to 0, which the code
  allows, the power callback would never run again: that is the mutation
  `MainAsleep_Never`. `StandbyCompletes` speaks of behaviours in which `usb_thread`
  blocks time and again and `main_thread` has an end of events to handle.
- *RP2040 stream*: sticks held while the link comes up are not reported until they
  move; buttons are (`HeldReaches`).
- *PS2 port*: an empty slot 2 that reads FF in a long answer counts as player 2; a
  music controller pulled out of slot 1 is remembered as long as only slot 2 answers;
  slot 2 is not asked for alone while slot 1 is empty (`PortReadRight`). START and
  LEFT send START even during a chord (`OneSwitchPerStart`).
- *Gate*: the mode names other words than those installed for the length of a switch,
  and the properties of the gate speak of behaviours in which `main_thread` did not
  switch it inside the special thread's window (`overtaken`).
- *Life cycle*: a step of `main_thread` amid a cleanup sets the HOME intercept, tears
  the gate or hooks the functions again; and the special thread may clean up in its
  first poll, before `module_start` has started `main_thread`, which then starts all
  the same (`amid` in `NothingLeftBehind`). Of a special thread that was on its way to a
  patch the property says nothing of POPS's words (`caught`), which is what the run
  `pops_gate_cleanup` is about. A cleanup that finds another one begun
  returns at once, before that one is done.
- *Latches*: a reset hides the presses and releases before it (`LatchesTell`).
- *GunCon*: a gun lit beside the picture may be corrected onto the very coordinates of
  "no light" (`<<90, 24>>` on the PSP's screen in "Original" mode is), and the game
  then sees it off screen, where it is (`CorrectedToNoLight` in `GunSeenRight`).
  Presses closer than 250 ms hold the shot's position again and again, so that a gun
  turned away is not seen to be. A frame that POPS repaints during the flash may stay
  inverted in part (`disturbed` in `FlashAccounted`). The pad is given back only if
  POPS goes on polling through the hooks (`PadGivenBack`): a cleanup releases the aim
  and takes the hooks away together.
- *Pico settings*: profiles and GunCon bits stored apart, by a write that failed, by
  power lost between two, or by the chord, which stores a mapping under edit without
  the bits, cannot be told from others after a restart (`half`, `mixed`). Bits that
  are in flash without a mapping come back when the chord stores the mapping.
- *Pico controllers*: unpairing a connected controller leaves its input reported but
  for the disabled output; the main loop may scan, or not, on a decision that a
  callback has outdated (`raced`). Deleting a profile before the active one changes
  which one is active; re-pairing a controller that has a slot never ends the
  pairing; if the portal fails to start, the output stays disabled. No property
  speaks of these three.

### Bounds inside the models

- `pico2w`: a behaviour either pairs controllers or edits profiles (`user`); writes to
  flash fail only in the latter, and after one request was stored in part no other
  is until the settings agree again or the firmware restarts. The chord is pressed
  only where profiles are edited. The portal starts only after the startup timer, as
  BOOTSEL has to be held for 1.5 s and the timer takes 0.75 s; after `done` no request
  comes any more. Nothing but a restart is followed once the loop was `raced`. The
  loop's visit of a slot is one step.
- `pops_gate`: latches and buttons are followed outside POPS only, the gate in POPS
  only. The functions of one group are hooked in one step. A second caller of
  `cleanup_module` is not followed further, and a game's thread blocked inside a hook
  while the module is unloaded is not modelled.
- `pops_aim`: the player's toggle of the crosshair is a target that may go away at any
  time; the 32-bit wrap of time stamps is not modelled (ages are kept up to the limit
  they are compared with).
- `rp2040_sender`: a gun beside player 2 is left out of the stream; a behaviour
  follows the port or the stream.
- `remote_link`: a handshake transfer finds the PSP's threads where they wait
  (`Settled`), and an attach where they wait or sleep, as the bus is slow compared with
  them; a detach and an event come at any moment. A timeout that comes while its transfer could still take place
  counts as one of `MaxErrors`.

## 4. Fairness

Each run's specification assumes what the scheduler and the hardware give, no more.

- *AsyncRing*: `main_thread` runs when it is ready. Nothing is assumed of the sender.
- *PspInput*: the timer, whose handler re-arms it unconditionally, goes on firing; a
  transfer that is retried for ever succeeds in the end (strong fairness of a
  successful completion: a link on which every transfer fails settles nothing).
- *RemoteLink*: `usb_thread` runs when it is ready; `main_thread` (priority 15) runs
  below `usb_thread` (10) and above the power callback (16), so it gets strong
  fairness under the premise, stated in `Connects`, that `usb_thread` blocks time
  and again (events come at least a millisecond apart). The power callback, last in
  that order, has strong fairness too: it goes on whenever both threads are blocked or
  asleep, which `StandbyCompletes` has as its premise for `usb_thread` and owes to
  `main_thread`'s logs. The user's switch itself is under no fairness. Mount,
  enumeration, the sender's timeouts and transfers both ends ask for take place.
- *Rp2040Sender*: the firmware's one loop runs for ever; a transfer succeeds in the
  end; the periodic repeat happens in a poll that finds the queue empty time and
  again, which `HeldReaches` takes as its premise (`[]<>(queue = <<>>)`): the repeats
  are BUTTON_REASSERT_MS apart and the queue is served in every pass of the loop, so
  it stays full only if the PSP takes no events. Nothing is assumed of the port.
- *PopsGate*, *ModuleLifecycle*, *SpecialButtons*: the special thread polls for ever;
  `main_thread`, of higher priority, blocks for its next event and leaves it the
  processor. The life cycle's liveness speaks of behaviours without a cleanup.
- *PopsAim*: time passes, and POPS goes on polling port 1 through the hooks, as a game
  that runs does; strong fairness, as time may pass between its polls. No event
  of the controller is assumed.
- *JoypadBackend*: the main loop runs for ever and the startup timer fires.

Deadlock is checked everywhere except in RemoteLink, where a session that was the
last may leave the system at rest, and in ModuleLifecycle, where a module that was
unloaded does nothing any more.

## 5. Proofs

Each theorem holds for every value of the constants that satisfies the named
assumptions of its modules, in every behaviour of the specification; fairness plays no
part, so it holds for the specifications with fairness, which the runs check, as well.
The method is the same throughout: an inductive invariant stated as a conjunction of
named parts, checked by TLC on the bounds of section 3 before it was proved, one lemma
for each action or group of actions, and the property as a consequence. The
assumptions say what the code's constants are like: a ring of 3k + 1 words (1024), a
queue with room for one event, hold and repeat times that are positive, a flash (100 ms)
no longer than the hold of a gap (200 ms), records for all frames POPS uses.

### The ring (`AsyncRingProofs`)

| Theorem | Statement |
|---|---|
| `TypeCorrect` | `Spec => []TypeOK`: types, and `write_pos` is `size` words after `read_pos` |
| `StoredWellCut` | `Spec => []WellCut` |
| `WholeEvents` | `Spec => []AcceptedEventIsWhole` |
| `WakeupKept` | `Spec => []NoLostWakeup` |
| `NothingLostSilently` | `Spec => []NoSilentLoss` |
| `Refinement` | `Spec => ImplementsEventChannel`: the ring implements `EventChannel` |

The property that matters is `AcceptedEventIsWhole`: `main_thread` compares only the
magic of what it reads, so nothing in the code says that type and value belong
together. It is not inductive; it follows from what a *cut* may look like. The free
space is always 0 or 1 modulo 3 (1024 = 3 * 341 + 1, and a reader takes three words
or what is left), so an event loses two words or three or none and never its last one
alone; hence no type stands without its value (`WellCut`), and a reader that takes
three words beginning with a magic gets one event or a magic followed by the magic of
the next, which is no type `handle_joyevent` knows. The arithmetic of positions is in
lemmas of its own (`RoomForPacket`, `FillAppends`, `ReadShifts`), so that the steps that
preserve the invariant cite facts about words. A ring of 3k + 2 words would break the
property: the mutation `Room_CountsHeader` makes it one.

Two more invariants carry the refinement. `InOrder`: stored words are in the order of
sending, newer than what was applied, and a magic is newer than every word before it; so
an event that is accepted, which `WellCut` makes a whole one, is older than all that is
stored behind it. `Complete`: until the first loss the ring is the run of consecutive
whole events that starts after the one in hand, so `main_thread` neither rejects nor
ignores anything. With both, `fill_async` maps to `Send`, `handle_joyevent` to
`Apply`, a flush that discards something to `Lose`, and every other step to a stutter.

### The link (`RemoteLinkProofs`)

| Theorem | Statement |
|---|---|
| `TransfersAreTracked` | `Spec => []TransfersTracked` |
| `InputIsFresh` | `Spec => []FreshInput` |
| `LinkInvariant` | `Spec => []IInv` |
| `BothEndsAgree` | `Spec => []ReadyAgreement` |

For either sender, any number of sessions and of failures. The invariant is in three
parts, the first two of which are inductive by themselves. `HostInv`: the sender's
flags, the transfers in flight and the words in the buffer they share say the same of how
far the handshake is, although a timeout aborts one at any time. `DeviceInv`: what a
session leaves behind in the PSP is gone before the next, as an attach waits until the
threads have settled: which flags are pending, what `usb_thread` is handling and
what `main_thread` is about to apply bound what the ring and the input may hold
(`Gone`, `Fresh`), and when a request is out (`Requests`, `Armed`). `ExchangeInv` joins
the ends: for each step of the PSP's exchange it says what the sender has done, since
a step is made only with the sender's transfer, and it carries what the words received
mean. `ReadyAgreement` is its last step; by itself it says nothing of the exchange before
and so is not inductive.

### The senders (`PspInputProofs`, `Rp2040InputProofs`, over `JoyEventsProofs`)

| Theorem | Statement |
|---|---|
| `InputIsMirrored`, `Player2IsMirrored` | `PspInput`: `Spec => []InputMirrored`, `Spec => []Player2Mirrored` |
| `PadChannelImplemented` | `PspInput`: `Spec => ImplementsPadChannel`: the queue implements `PadChannel` |
| `StreamReleases`, `GunSurvives` | `Rp2040Input`: `InputSpec => []ReleasedUnlessLost`, `InputSpec => []GunSurvivesOverflow` |
| `PortRead`, `OneSwitch` | `Rp2040Input`: `InputSpec => []PortReadRight`, `InputSpec => []OneSwitchPerStart` |
| `InputInvariant`, `StreamInvariant`, `PortInvariant` | the inductive invariants |

Both senders are told of by what the PSP *will* hold once it has received the queue,
`AfterAll(psp, queue)`, which folds `handle_joyevent` over it. `JoyEventsProofs` has the
algebra of that fold: of an empty queue, of one event, of two queues in a row, of an event
that comes twice (a transfer that was reported as failed and had been received), and
which parts of the input which events leave alone. The library's induction theorems
take an operator as a parameter, which the provers cannot instantiate; the lemmas follow
a queue through an explicit trace of the states along it instead, and argue by the least
place at which a claim would fail (`LeastNumber`).

The Pico's invariant relates the queue and the transfer under way, which may already be
applied, to what the Pico believes, and adds `Calm`: at no place in the queue does the
PSP hold a button for an absent player 2, without which a late `StatusEvent` would hide
a button.

The refinement maps the queue to what player 1 will hold after each of its events
(`AheadOf`), so that the ring's contents, whatever player 2's events and repeated
transfers are among them, become the buttons the PSP has yet to pass through. What a
report or a poll appends is a run of player 1's events, which press before they
release and so stay on the way from what was held to what is (`ChangesPut`), followed by
a run that leaves player 1 alone (`Others`); appended to the queue they are one `Put`
(`PutStep`), and `Believed`, a part of the invariant, says that the run starts from
where the queue ends. A completed transfer of the queue's head is a `Receive`, which takes it off or, if
the Pico thinks it failed, leaves it: what is ahead is the same, since an event applied
twice is one applied once (`AheadHead`). An axis or an aim is a stutter. `Believed`
is also why a change made while there is room is put in at once (`SetStateAtOnce`): it is
computed against what the PSP will hold, takes two slots at most (`ChangesAreTwo`), and
leads to what the controller holds even if an earlier change is still waiting for room.

The RP2040's `StreamInv` says so of what was *not* lost: the queue that
`poll_input_state` leaves is a prefix of the changes, the gun's report or nothing, and a
prefix of the repeated buttons, whatever had no room. `PortInv` ties the modes the port
remembers to what was read last; it needs that a player who has switched the profile and
not let go of START is in a chord.

### The plugin in the console and in POPS (`PluginProofs`, `SpecialButtonsProofs`)

| Theorem | Statement |
|---|---|
| `SavedIsOriginal`, `GateMatches`, `NothingLeft` | `LifeSpec =>` `[]TrampolineIsOriginal`, `[]GateMatchesWhileLoaded`, `[]NothingLeftBehind` |
| `LatchesAreTold` | `LifeSpec => LatchesTell` |
| `GunIsSeenRight` | `AimSpec => GunSeenRight` |
| `CrosshairLeavesNoTrail`, `FlashIsAccounted` | `OverlaySpec =>` `[]NoTrail`, `[]FlashAccounted` |
| `CrosshairIsTrue` | `OverlaySpec => []CrosshairTrue` |
| `LifeInvariant`, `LatchInvariant`, `AimInvariant`, `OverlayInvariant` | the inductive invariants |
| `TypeCorrect`, `InterceptFollows`, `OnlyPressesAct`, `QuietOnceReleased` | `SpecialButtons`: `Spec =>` `[]TypeOK`, `[]InterceptReleased`, `[]ActsWerePressed`, `QuietWhenReleased` |

*Gate and life cycle.* `LifeInv` follows the two words by the special thread's place: in
the middle of a patch it says which of them have been written, and that `main_thread`,
which writes both, has either not come between or has left the mark `overtaken`. For
the cleanup it says what each of its steps has undone, and that nothing puts it
back unless `main_thread` ran amid it. The special thread goes on through a cleanup
whenever that sleeps, until it is terminated; what keeps its hands off the gate is
that it has been told to end (`Told`) and, if the cleanup did not come upon it on its way
to a patch (`~caught`), that it is at a place from which it comes to no patch without
another poll (`Quiet`). `LatchInv` compares the latches with what was
pressed and released since the game's last read.

*Aim.* `AimInv` compares the two ages of the dark while a lit reading counts
(`s_lit_valid`), and says that a flash that has seen no light has been in the dark for as
long; that is why the flash must not be longer than the hold of a gap (`HoldAssumption`).
A poll that has decided to write a gun's position meets a gun still (`PollInv`), as
another board takes longer to plug in.

*Overlay.* `RecordsInv`: records are those of different frames and fill up from the
first, so that, by the pigeonhole principle, a frame without a record finds one that is
no frame's (`SlotFree`). `TrailInv`: what is on a frame was drawn for the record's
position and the present layout. `FlashInv`: a frame whose probes are taken, or about to
be, has a record of this layout, and is inverted whole exactly if its record says so.

*Crosshair.* The invariant is the least of it (`DisplayInv`: the overlay meets only the
displays there are); the theorem is arithmetic, for all readings and aims and all
displays of `EveryDisplay`, which are the LCD in each of POPS's screen modes and the TV
progressive and interlaced (`OverlayAssumption`). `PictureOf` lists the pictures
`picture_rect` can return, so that the sizes are numbers of a table and what is left is
linear. A reading goes through three divisions, two of which undo each other:
`stretch_axis` divides by the picture's share of the display, `unscale_axis` by the
GunCon's range, and the crosshair is placed with the product of both (`StretchIs`,
`GunOnAxis`). Each is off by less than one unit of its own, and the sum of the three by
less than three pixels. A gyro's aim is scaled once for the game and once for the
screen, and both are compared with the exact value (`GyroOnAxis`).

*Special buttons.* `ActsWerePressed` says what was done; its strengthening, `PressesOwed`,
says what may still be done: there is a press for the button the thread is timing
(`Timed`), for the one the poll under way has read or the next one will (`Found`), and
for one that was pressed after the poll had read the buttons (`Missed`). `Timed` and
`Missed` together need two, which is the most there can be, so that `owed` may stop
counting at two. `ComboFollows` relates the display combination to the buttons it was
read from; it holds outside POPS only, where the music flag plays no part, and so does
the theorem for that combination. `QuietWhenReleased` needs that the first poll that
ends with nothing held may have read the buttons before their release, and that the next
one reads none and remembers none (`NothingSeen`).

### The Pico's settings and controllers (`JoypadBackendProofs`)

| Theorem | Statement |
|---|---|
| `GunConIsKept`, `SavedComesBack` | `Spec => []GunConFollows`, `Spec => []RestartBringsBack` |
| `SlotsAreKept`, `PairedAreReported` | `Spec => []SlotsKept`, `Spec => []OnlyPairedReported` |
| `BackendInvariant` | the inductive invariant, `SettingsInv /\ ControllersInv` |

`SettingsInv`: where profiles and bits were stored together, the bits in flash are
those of the profiles, even the ones a start would drop, as the chord, which stores the
profiles alone, brings them back (`Together`). `ControllersInv`: slots change only while
the portal is open, and then the output has been disabled until the restart
(`PortalFirst`); so as long as it is enabled, the input kept for a player is that of its
slot's controller, which is linked (`InputOfSlot`), and no other is reported. `SlotsKept`,
that no address is in two slots and that what a restart reads from flash are the slots,
is proved only; no run checks it by itself.

### What is only model-checked

- Liveness, which with fairness and `ENABLED` is out of the prover's reach: `RingDrains`,
  `Settles`, `Connects`, `InputReleased`, `HeldReaches`, `InstalledWhileLoaded`,
  `PulseEndsWhileLoaded`, `StandbyCompletes`, `PressesAct`, `HeldShotReaches`, `PadGivenBack`,
  `DiscoveryFollows`.
- The three properties that fail.

Type invariants are proved, as parts of the inductive invariants or as theorems of their
own (`TypeCorrect`), and no run checks one by itself.

## 6. Not modelled, and why

- Bytes on the wire, USB descriptors, what is logged (not the time it takes), web pages and JSON, LED patterns, bit
  timing of the PS2 port, checksums of records: I/O without state that a property here
  would tell apart.
- Gyro aim (`gyro_aim.c`): filters and angles in floating point, which TLA+'s integers
  do not have.
- How a profile maps buttons and axes, the button tables of the controllers and the
  dead zones: constant tables and one-line arithmetic, which unit tests can reach.
- The retries by which a DS3 or a PS2 pad is put into its mode, sniff mode, link keys:
  they meet no other state.
- The RP2040's mapping record: `rjm_mapping_save` erases the sector before it writes
  it, so that power lost in between loses the profiles; there is one record and
  nothing else for it to disagree with.
- How analog axes are merged with the console's own, and the registry keys of the TV
  aspect.
- How the pad block is recognised in POPS's memory: a scan of another program's data,
  modelled by what it finds.
- The network stack, the Bluetooth stack and `ncm_device.c`: third-party code, seen
  only through the calls and callbacks `src/` uses.
- Real time: delays and timeouts are events that may come at any moment their guard
  allows, but for the ticks of `pops_aim` and the polls of `special_buttons`; races
  that need one duration to be longer than another are noted with the hazards.

## 7. Plan

Every safety property of the passing runs is proved, and so are both refinements
(`AsyncRing` of `EventChannel`, `PspInput` of `PadChannel`). What may follow, each step
keeping the runs and the proofs passing:

1. *Player 2 as a channel*: a change of presence and one of buttons are queued apart, and
   the status event lets go of buttons the Pico goes on believing held, so what the
   channel promises is weaker: an abstract specification would have to say when a button
   of player 2 may be missing.
2. *The RP2040's stream as a channel* with losses: `StreamInv` says which part of each
   poll is queued; an abstract specification would let the PSP skip any change whose
   events had no room, and state that the repeats make up for it.
3. *The mapping and the portals*, where they come to hold state that two records have to
   agree on.
