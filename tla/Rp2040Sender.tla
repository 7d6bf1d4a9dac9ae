----------------------------- MODULE Rp2040Sender -----------------------------
(***************************************************************************)
(* The input stream of rp2040-zero/standalone_usbhost.c once the PSP is    *)
(* linked: what poll_input_state makes of the controllers' state, the      *)
(* event queue, and the transfer in flight.  The firmware is one loop: its *)
(* handlers do not interleave, but the queue fills up while the PSP is     *)
(* slow to take events, and a transfer may fail.                           *)
(*                                                                         *)
(* Unlike the Pico's (PspInput), this sender forgets an event as soon as   *)
(* it is handed to the USB stack, and what did not fit in the queue; it    *)
(* repeats the buttons that are down every BUTTON_REASSERT_MS, and tries   *)
(* the gun and the music controller again.                                 *)
(***************************************************************************)
EXTENDS JoyEvents

CONSTANTS
  EVENT_QUEUE_SIZE,  \* 16
  ANALOG_DEADBAND,   \* 2
  TransfersFail,     \* whether transfers may fail
  MaxReports         \* how often the controllers change (bounds the model)

ASSUME Rp2040SenderAssumption ==
  /\ EVENT_QUEUE_SIZE \in Nat \ {0}
  /\ ANALOG_DEADBAND \in Nat
  /\ TransfersFail \in BOOLEAN
  /\ MaxReports \in Nat

VARIABLES
  held,      \* what the controllers hold: a pad each, player 2's presence,
             \* the gun's reading and whether it is a music controller
  complete,  \* g_handshake_complete; g_input_started is set with it
  queue,     \* g_event_queue from g_event_head to g_event_tail
  inflight,  \* the event in flight while g_async_xfer_busy, Idle otherwise
  last,      \* g_last_buttons, g_last_x and g_last_y of each player
  present,   \* g_last_p2_present, -1 before the first report
  music,     \* g_last_music_controller, likewise
  aiming,    \* g_gun_present: the last full poll found a gun
  gun,       \* g_last_gun_xy, NoGun unless g_last_gun_present
  lit,       \* g_gun_lit_xy, NoGun unless it was seen recently
  psp,       \* the PSP's input after the events it has received
  dropped,   \* an event did not fit in the queue
  failed,    \* a transfer failed
  reports    \* how often the controllers have changed

diffVars == <<last, present, music, aiming, gun, lit>>
vars == <<held, complete, queue, inflight, diffVars, psp, dropped, failed, reports>>

Idle == [type |-> "none"]
NoGun == -1
NoLight == -2
Unknown == -1
AsFlag(b) == IF b THEN 1 ELSE 0

NeutralPad == [buttons |-> {}, x |-> Center, y |-> Center]
Pads == [buttons : SUBSET Buttons, x : SticksAt, y : SticksAt]
NeutralPads == [p \in Players |-> NeutralPad]
Nothing == [pad |-> NeutralPads, p2_present |-> FALSE, gun |-> NoGun, music |-> FALSE]

\* What read_ps2_controller_state may find: player 2 needs a slot, and a gun is
\* not a music controller.  A gun beside player 2 is left out to bound the model.
Found ==
  {h \in [pad : [Players -> Pads], p2_present : BOOLEAN,
          gun : AimsAt \cup (IF AimsAt = {} THEN {} ELSE {NoLight}) \cup {NoGun},
          music : BOOLEAN] :
     /\ ~h.p2_present => h.pad[1] = NeutralPad
     /\ h.music => h.gun = NoGun
     /\ h.gun # NoGun => ~h.p2_present}

-----------------------------------------------------------------------------
\* enqueue_joy_event, event after event: what does not fit is dropped.
Free == EVENT_QUEUE_SIZE - 1
enqueue(q, events) ==
  q \o SubSeq(events, 1, IF Len(events) <= Free - Len(q) THEN Len(events)
                         ELSE Free - Len(q))
Fits(q, events) == Len(q) + Len(events) <= Free

\* What a poll has to say about the buttons and the stick of a player.
\* Mutant: a release carries the buttons pressed now, not those held before.
ButtonChanges_MaskedByNow(p) ==
  LET now == held.pad[p].buttons
      was == last[p].buttons
  IN  IF now # was THEN <<DownEvent(p, now \ was), UpEvent(p, now \ was)>> ELSE <<>>
ButtonChanges(p) ==
  LET now == held.pad[p].buttons
      was == last[p].buttons
  IN  (IF now \ was # {} THEN <<DownEvent(p, now \ was)>> ELSE <<>>)
      \o (IF was \ now # {} THEN <<UpEvent(p, was \ now)>> ELSE <<>>)

Moved(p, a) ==
  LET now == held.pad[p][a]
      was == last[p][a]
  IN  now - was >= ANALOG_DEADBAND \/ was - now >= ANALOG_DEADBAND
AxisChange(p, a) ==
  IF Moved(p, a) THEN <<AnalogEvent(<<p, a>>, held.pad[p][a])>> ELSE <<>>

PadChanges(p) == ButtonChanges(p) \o AxisChange(p, "x") \o AxisChange(p, "y")

PresenceChange ==
  IF AsFlag(held.p2_present) # present THEN <<StatusEvent(held.p2_present)>> ELSE <<>>
MusicChange ==
  IF AsFlag(held.music) # music THEN <<MusicEvent(held.music)>> ELSE <<>>

\* report_gun_xy: a reading without light counts as the last lit one while that
\* one is recent.
GunReading == IF held.gun = NoLight /\ lit # NoGun THEN lit ELSE held.gun
GunEvent(xy) == IF xy = NoLight THEN OffscreenEvent ELSE AimEvent(xy)
GunChange ==
  IF GunReading = gun THEN <<>>
  ELSE IF GunReading = NoGun THEN <<ReleaseEvent>>
  ELSE <<GunEvent(GunReading)>>

\* The gun's last report, when its change could, or could not, be queued.
\* Mutant: the report is taken as made although it was not queued.
GunReported_Always(queued) == GunReading
GunReported(queued) == IF queued THEN GunReading ELSE gun

\* The buttons that are down, every BUTTON_REASSERT_MS.
\* Mutant: not repeated.
Reasserted_Never == <<>>
Reasserted ==
  LET Down(p) == IF held.pad[p].buttons # {}
                 THEN <<DownEvent(p, held.pad[p].buttons)>> ELSE <<>>
  IN  Down(0) \o Down(1)

\* process_event_queue: the head is taken from the queue q as soon as the USB
\* stack has accepted it.
process_event_queue(q, busy, submitted) ==
  IF complete /\ ~busy /\ q # <<>> /\ submitted
  THEN queue' = Tail(q) /\ inflight' = Head(q)
  ELSE queue' = q /\ inflight' = IF busy THEN inflight ELSE Idle

Busy == inflight # Idle

-----------------------------------------------------------------------------
Init ==
  /\ held = Nothing
  /\ complete = FALSE
  /\ queue = <<>>
  /\ inflight = Idle
  /\ last = NeutralPads
  /\ present = Unknown
  /\ music = Unknown
  /\ aiming = FALSE
  /\ gun = NoGun
  /\ lit = NoGun
  /\ psp = Neutral
  /\ dropped = FALSE
  /\ failed = FALSE
  /\ reports = 0

\* The controllers change between two polls.
Report ==
  /\ reports < MaxReports
  /\ reports' = reports + 1
  /\ held' \in Found \ {held}
  /\ UNCHANGED <<complete, queue, inflight, diffVars, psp, dropped, failed>>

\* hostfs_hello_response_sent_cb with start_input_scan: what is held at that
\* moment counts as reported, although the PSP has not been told.
hostfs_hello_response_sent_cb ==
  /\ ~complete
  /\ complete' = TRUE
  /\ last' = held.pad
  /\ present' = Unknown
  /\ music' = Unknown
  /\ aiming' = (held.gun # NoGun)
  /\ gun' = NoGun
  /\ lit' = NoGun
  /\ UNCHANGED <<held, queue, inflight, psp, dropped, failed, reports>>

\* clear_endpoints, when the PSP is unplugged or a device is mounted; the PSP
\* resets its input.
clear_endpoints ==
  /\ complete' = FALSE
  /\ queue' = <<>>
  /\ inflight' = Idle
  /\ last' = NeutralPads
  /\ present' = Unknown
  /\ music' = Unknown
  /\ aiming' = FALSE
  /\ gun' = NoGun
  /\ lit' = NoGun
  /\ psp' = Neutral
  /\ dropped' = FALSE
  /\ failed' = FALSE
  /\ UNCHANGED <<held, reports>>

\* poll_input_state, every STATE_REPORT_MS.  Only the gun and the music
\* controller are tried again when the queue was full.
poll_input_state(reassert, submitted) ==
  LET changes == MusicChange \o PadChanges(0) \o PresenceChange \o PadChanges(1)
      q1 == enqueue(queue, changes)
      gunEvents == GunChange
      q2 == enqueue(q1, gunEvents)
      again == IF reassert THEN Reasserted ELSE <<>>
  IN  /\ complete
      /\ last' = [p \in Players |->
                    [buttons |-> held.pad[p].buttons,
                     x |-> IF Moved(p, "x") THEN held.pad[p].x ELSE last[p].x,
                     y |-> IF Moved(p, "y") THEN held.pad[p].y ELSE last[p].y]]
      /\ present' = AsFlag(held.p2_present)
      /\ music' = IF Fits(queue, MusicChange) THEN AsFlag(held.music) ELSE music
      /\ aiming' = (held.gun # NoGun)
      /\ gun' = GunReported(Fits(q1, gunEvents))
      /\ lit' = IF held.gun \in Nat THEN held.gun ELSE lit
      /\ dropped' = (dropped \/ ~Fits(queue, changes))
      /\ process_event_queue(enqueue(q2, again), Busy, submitted)
      /\ UNCHANGED <<held, complete, psp, failed, reports>>

\* poll_gun_fast, between two polls: only the gun is read.
poll_gun_fast(submitted) ==
  /\ complete
  /\ aiming
  /\ held.gun # NoGun
  /\ gun' = GunReported(Fits(queue, GunChange))
  /\ lit' = IF held.gun \in Nat THEN held.gun ELSE lit
  /\ process_event_queue(enqueue(queue, GunChange), Busy, submitted)
  /\ UNCHANGED <<held, complete, last, present, music, aiming, psp, dropped, failed,
                 reports>>

\* GUN_NO_LIGHT_DEBOUNCE_MS have passed since the gun saw light.
LightIsOld ==
  /\ held.gun = NoLight
  /\ lit # NoGun
  /\ lit' = NoGun
  /\ UNCHANGED <<held, complete, queue, inflight, last, present, music, aiming, gun,
                 psp, dropped, failed, reports>>

\* The main loop's own call of process_event_queue.
Loop ==
  /\ complete
  /\ ~Busy
  /\ queue # <<>>
  /\ process_event_queue(queue, FALSE, TRUE)
  /\ UNCHANGED <<held, complete, diffVars, psp, dropped, failed, reports>>

\* joy_event_sent_cb: a failed transfer is not repeated, and leaves the queue
\* to the main loop.
joy_event_sent_cb(success, submitted) ==
  /\ Busy
  /\ success \/ TransfersFail
  /\ psp' = IF success THEN handle_joyevent(psp, inflight) ELSE psp
  /\ failed' = (failed \/ ~success)
  /\ IF success THEN process_event_queue(queue, FALSE, submitted)
     ELSE queue' = queue /\ inflight' = Idle
  /\ UNCHANGED <<held, complete, diffVars, dropped, reports>>

Poll ==
  \/ \E reassert, submitted \in BOOLEAN :
       poll_input_state(reassert, submitted)
  \/ \E submitted \in BOOLEAN : poll_gun_fast(submitted)

Usb ==
  \/ Loop
  \/ \E success, submitted \in BOOLEAN : joy_event_sent_cb(success, submitted)

Next ==
  \/ Report \/ LightIsOld \/ Poll \/ Usb
  \/ hostfs_hello_response_sent_cb \/ clear_endpoints

Spec == Init /\ [][Next]_vars

DeliversDown(p) ==
  /\ inflight.type = "down"
  /\ inflight.player = p
  /\ \E submitted \in BOOLEAN : joy_event_sent_cb(TRUE, submitted)

\* The main loop polls and serves the queue for ever: a transfer succeeds in
\* the end, and the buttons are repeated in a poll that finds room in the end.
Fairness ==
  /\ SF_vars(queue = <<>> /\ poll_input_state(TRUE, TRUE))
  /\ WF_vars(\E submitted \in BOOLEAN : joy_event_sent_cb(TRUE, submitted))
  /\ \A p \in Players : SF_vars(DeliversDown(p))

FairSpec == Spec /\ Fairness

-----------------------------------------------------------------------------
(***************************************************************************)
(* Properties                                                              *)
(***************************************************************************)

\* What the PSP will hold once it has received the event in flight and the
\* queue.
Upcoming == AfterAll(psp, (IF Busy THEN <<inflight>> ELSE <<>>) \o queue)

\* As long as nothing was dropped or failed, no button is stuck: the PSP will
\* hold only what this sender reported, repetitions included, and it will know
\* whether player 2 is there.
ReleasedUnlessLost ==
  complete /\ ~dropped /\ ~failed =>
    LET input == Upcoming
    IN  /\ \A p \in Players : input.buttons[p] \subseteq last[p].buttons
        /\ present # Unknown => input.p2_connected = (present = 1)

\* The gun and the music controller are reported right even when events were
\* dropped, as long as no transfer failed: they are tried again, and the aim
\* is released in the end.
GunSurvivesOverflow ==
  complete /\ ~failed =>
    LET input == Upcoming
    IN  /\ input.aim = IF gun = NoGun THEN ReleaseEvent ELSE GunEvent(gun)
        /\ music # Unknown => input.music = (music = 1)

\* A button that stays down is down at the PSP in the end, whatever was
\* dropped, failed, or held already when the link came up.
HeldReaches ==
  []<>(queue = <<>>) =>
    \A p \in Players, b \in Buttons :
      <>[](complete /\ b \in held.pad[p].buttons) => <>[](b \in psp.buttons[p])

\* POPS_2P.md, "On disconnect it also returns the cached Slot 2 state to
\* neutral so the PSP side releases any held player-2 buttons": without player
\* 2 the PSP holds no button of player 2 in the end.
Player2Released ==
  <>[](complete /\ ~held.p2_present) => <>[](psp.buttons[1] = {})

=============================================================================
