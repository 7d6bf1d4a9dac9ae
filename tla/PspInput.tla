------------------------------- MODULE PspInput -------------------------------
(***************************************************************************)
(* How the Pico 2 W keeps the PSP's input equal to its controllers':       *)
(* pico2w/psp_host.c from the state its callers set to the USB transfers   *)
(* of the asynchronous endpoint.                                           *)
(*                                                                         *)
(* Everything runs on one BTstack run loop, so a handler is one action.    *)
(* Between handlers a transfer may be in flight, whose completion          *)
(* (event_sent) may report a failure although the PSP received the event.  *)
(* What the PSP has received is the history variable psp.                  *)
(***************************************************************************)
EXTENDS JoyEvents, FiniteSets

CONSTANTS
  EVENT_QUEUE_SIZE,  \* ring slots; one is always free (32 in the code)
  ANALOG_DEADBAND,   \* 2
  AIM_DEADBAND,      \* 32
  MaxReports         \* how often the controllers change (bounds the model)

ASSUME PspInputAssumption ==
  /\ EVENT_QUEUE_SIZE \in Nat \ {0}
  /\ ANALOG_DEADBAND \in Nat
  /\ AIM_DEADBAND \in Nat
  /\ MaxReports \in Nat

VARIABLES
  complete,      \* g_handshake_complete: the PSP is linked
  queue,         \* g_queue from g_head to g_tail
  inflight,      \* g_inflight_event while g_xfer_busy, Idle otherwise
  state,         \* g_state: what the controllers hold now
  last,          \* g_last: what has been queued for the PSP
  pendingAxis,   \* g_pending_axis where g_axis_pending, NoValue elsewhere
  aim,           \* g_aim
  aimLast,       \* g_aim_last
  aimPending,    \* g_aim_pending
  inputEnabled,  \* g_input_enabled
  psp,           \* the PSP's input after the events it has received
  reports        \* how often the controllers have changed

inputs == <<state, aim, inputEnabled, reports>>
vars == <<complete, queue, inflight, state, last, pendingAxis,
          aim, aimLast, aimPending, inputEnabled, psp, reports>>

Idle == [type |-> "none"]
NoValue == -1
Distance(a, b) == IF a < b THEN b - a ELSE a - b

NeutralPad ==
  [buttons |-> {}, x |-> Center, y |-> Center, connected |-> FALSE]
Pads ==
  [buttons : SUBSET Buttons, x : SticksAt, y : SticksAt, connected : BOOLEAN]
\* A pad that is not connected reports nothing.
ReportedPads ==
  {pad \in Pads : ~pad.connected => pad = NeutralPad}

NoAim == [active |-> FALSE, offscreen |-> FALSE, x |-> 0]
AimStates ==
  {NoAim} \cup [active : {TRUE}, offscreen : BOOLEAN, x : AimsAt]

-----------------------------------------------------------------------------
\* The ring g_queue, as the sequence it holds.
queue_free_count(q) == EVENT_QUEUE_SIZE - 1 - Len(q)

\* queue_event: whether there is room, and the queue afterwards.
queue_event(q, event) == IF queue_free_count(q) > 0 THEN Append(q, event) ELSE q

\* queue_button_changes: both transitions or none.
\* Mutant: what is released goes first.
button_changes_UpFirst(player, current, previous) ==
  (IF previous \ current # {}
   THEN <<UpEvent(player, previous \ current)>> ELSE <<>>)
  \o
  (IF current \ previous # {}
   THEN <<DownEvent(player, current \ previous)>> ELSE <<>>)
button_changes(player, current, previous) ==
  (IF current \ previous # {}
   THEN <<DownEvent(player, current \ previous)>> ELSE <<>>)
  \o
  (IF previous \ current # {}
   THEN <<UpEvent(player, previous \ current)>> ELSE <<>>)

FitsIn(q, events) == Len(events) <= queue_free_count(q)

\* The queue and g_last[player] after the presence, then the buttons, of pad
\* have been queued as far as there is room.  rjm_psp_host_set_state and
\* poll_state share this.
sync_player(q, player, pad, was) ==
  LET status  == player = 1 /\ pad.connected # was.connected
      queued  == status /\ queue_free_count(q) > 0
      q1      == IF status THEN queue_event(q, StatusEvent(pad.connected)) ELSE q
      changes == button_changes(player, pad.buttons, was.buttons)
      fits    == FitsIn(q1, changes)
  IN  [queue |-> IF fits THEN q1 \o changes ELSE q1,
       last  |-> [was EXCEPT
                   !.connected = IF queued \/ player = 0 THEN pad.connected ELSE @,
                   !.buttons   = IF fits THEN pad.buttons ELSE @]]

\* event_sent: the mark of an axis, and that of the aim, are cleared if the
\* value has not changed since it was sent.
\* Mutants: they are cleared whatever was sent; the axis never is.
axis_sent_Any(pending, value) == NoValue
axis_sent_Never(pending, value) == pending
axis_sent(pending, value) == IF pending = value THEN NoValue ELSE pending
aim_sent(event, wanted) == event = wanted

\* aim_event_type and aim_event_value
aim_event(a) ==
  IF ~a.active THEN ReleaseEvent
  ELSE IF a.offscreen THEN OffscreenEvent
  ELSE AimEvent(a.x)

\* check_aim: the aim moved enough, or its state changed.
AimMoved(a, was) ==
  \/ a.active # was.active
  \/ a.active /\ a.offscreen # was.offscreen
  \/ a.active /\ ~a.offscreen /\ Distance(a.x, was.x) >= AIM_DEADBAND

check_aim(a) ==
  IF AimMoved(a, aimLast)
  THEN aimLast' = a /\ aimPending' = TRUE
  ELSE UNCHANGED <<aimLast, aimPending>>

-----------------------------------------------------------------------------
\* process_queue: the transfer it would start.  Queued events go first, then
\* the axes in this order, then the aim.
AxisOrder == << <<0, "x">>, <<0, "y">>, <<1, "x">>, <<1, "y">> >>
AxisIsPending(axis) == pendingAxis[axis] # NoValue

NextTransfer ==
  IF queue # <<>> THEN Head(queue)
  ELSE IF \E axis \in Axes : AxisIsPending(axis)
  THEN LET first == CHOOSE k \in DOMAIN AxisOrder :
                      /\ AxisIsPending(AxisOrder[k])
                      /\ \A j \in 1..(k - 1) : ~AxisIsPending(AxisOrder[j])
       IN  AnalogEvent(AxisOrder[first], pendingAxis[AxisOrder[first]])
  ELSE IF aimPending THEN aim_event(aimLast)
  ELSE Idle

\* The last thing a handler does.  busy is g_xfer_busy at the call; submitted
\* is what tuh_edpt_xfer answers.
process_queue(busy, submitted) ==
  inflight' = IF busy THEN inflight
              ELSE IF complete' /\ submitted THEN NextTransfer'
              ELSE Idle

Busy == inflight # Idle

Init ==
  /\ complete = FALSE
  /\ queue = <<>>
  /\ inflight = Idle
  /\ state = [p \in Players |-> NeutralPad]
  /\ last = [p \in Players |-> NeutralPad]
  /\ pendingAxis = [axis \in Axes |-> NoValue]
  /\ aim = NoAim
  /\ aimLast = NoAim
  /\ aimPending = FALSE
  /\ inputEnabled = TRUE
  /\ psp = Neutral
  /\ reports = 0

\* rjm_psp_host_set_state: a controller reports, connects or disconnects.
rjm_psp_host_set_state(player, pad, submitted) ==
  LET set == IF inputEnabled THEN pad ELSE NeutralPad
  IN  /\ reports < MaxReports
      /\ set # state[player]
      /\ reports' = reports + 1
      /\ state' = [state EXCEPT ![player] = set]
      /\ IF complete
         THEN LET r == sync_player(queue, player, set, last[player])
              IN  /\ queue' = r.queue
                  /\ last' = [last EXCEPT ![player] = r.last]
         ELSE UNCHANGED <<queue, last>>
      /\ UNCHANGED <<complete, pendingAxis, aim, aimLast, aimPending,
                     inputEnabled, psp>>
      /\ process_queue(Busy, submitted)

\* rjm_psp_host_set_enabled(false): the portal is about to reboot the Pico.
\* It is never called with true.
rjm_psp_host_set_enabled ==
  /\ inputEnabled
  /\ inputEnabled' = FALSE
  /\ state' = [p \in Players |-> NeutralPad]
  /\ aim' = [aim EXCEPT !.active = FALSE]
  /\ UNCHANGED <<complete, queue, inflight, last, pendingAxis, aimLast,
                 aimPending, psp, reports>>

\* rjm_psp_host_set_aim
rjm_psp_host_set_aim(new, submitted) ==
  LET set == IF inputEnabled THEN new ELSE NoAim
  IN  /\ reports < MaxReports
      /\ set # aim
      /\ reports' = reports + 1
      /\ aim' = set
      /\ IF complete THEN check_aim(set) ELSE UNCHANGED <<aimLast, aimPending>>
      /\ UNCHANGED <<complete, queue, state, last, pendingAxis, inputEnabled, psp>>
      /\ IF complete /\ AimMoved(set, aimLast)
         THEN process_queue(Busy, submitted)
         ELSE UNCHANGED inflight

\* event_sent, the completion of the transfer in flight.  What was sent is
\* forgotten only if the transfer succeeded, and an axis or the aim only if it
\* has not changed since.
event_sent(success, delivered, submitted) ==
  /\ Busy
  /\ success => delivered
  /\ psp' = IF delivered THEN handle_joyevent(psp, inflight) ELSE psp
  /\ queue' = IF success /\ inflight.type \in {"down", "up", "status"}
              THEN Tail(queue) ELSE queue
  /\ pendingAxis' =
        IF success /\ inflight.type = "analog"
        THEN [pendingAxis EXCEPT ![inflight.axis] = axis_sent(@, inflight.value)]
        ELSE pendingAxis
  /\ aimPending' = (aimPending /\ ~(success /\ aim_sent(inflight, aim_event(aimLast))))
  /\ UNCHANGED <<complete, state, last, aim, aimLast, inputEnabled, reports>>
  /\ process_queue(FALSE, submitted)

\* poll_state, every REPORT_MS: what could not be queued before is queued now,
\* and the axes that moved by the deadband are marked for sending.
poll_state ==
  LET r0 == sync_player(queue, 0, state[0], last[0])
      r1 == sync_player(r0.queue, 1, state[1], last[1])
      Moved(p, a) == Distance(state[p][a], last[p][a]) >= ANALOG_DEADBAND
      synced == [p \in Players |-> IF p = 0 THEN r0.last ELSE r1.last]
  IN  /\ queue' = r1.queue
      /\ last' = [p \in Players |->
                    [synced[p] EXCEPT
                       !.x = IF Moved(p, "x") THEN state[p].x ELSE @,
                       !.y = IF Moved(p, "y") THEN state[p].y ELSE @]]
      /\ pendingAxis' = [axis \in Axes |->
                           IF Moved(axis[1], axis[2]) THEN state[axis[1]][axis[2]]
                           ELSE pendingAxis[axis]]
      /\ check_aim(aim)

\* usb_timer, every millisecond; due is whether REPORT_MS have passed since the
\* last poll.
usb_timer(due, submitted) ==
  /\ complete
  /\ IF due THEN poll_state
     ELSE UNCHANGED <<queue, last, pendingAxis, aimLast, aimPending>>
  /\ UNCHANGED <<complete, state, aim, inputEnabled, psp, reports>>
  /\ process_queue(Busy, submitted)

\* hello_response_sent: the handshake is complete.  The PSP starts neutral,
\* and so does what the Pico believes of it.
hello_response_sent ==
  /\ ~complete
  /\ complete' = TRUE
  /\ queue' = <<>>
  /\ last' = [p \in Players |-> NeutralPad]
  /\ UNCHANGED <<inflight, pendingAxis, aimLast, aimPending, psp>>
  /\ UNCHANGED inputs

\* reset_host, when the PSP is unplugged or a device is mounted.  The transfer
\* in flight is forgotten with its device.  The PSP, for its part, sees the
\* detach and resets its input.
reset_host ==
  /\ complete' = FALSE
  /\ queue' = <<>>
  /\ inflight' = Idle
  /\ last' = [p \in Players |-> NeutralPad]
  /\ pendingAxis' = [axis \in Axes |-> NoValue]
  /\ aimLast' = NoAim
  /\ aimPending' = FALSE
  /\ psp' = Neutral
  /\ UNCHANGED inputs

Controller ==
  \/ \E player \in Players, pad \in ReportedPads, submitted \in BOOLEAN :
       rjm_psp_host_set_state(player, pad, submitted)
  \/ \E new \in AimStates, submitted \in BOOLEAN :
       rjm_psp_host_set_aim(new, submitted)
  \/ rjm_psp_host_set_enabled

Usb ==
  \/ \E success, delivered, submitted \in BOOLEAN :
       event_sent(success, delivered, submitted)
  \/ \E due, submitted \in BOOLEAN : usb_timer(due, submitted)

Link == hello_response_sent \/ reset_host

Next == Controller \/ Usb \/ Link

Spec == Init /\ [][Next]_vars

\* The timer polls every REPORT_MS and tuh_edpt_xfer accepts a transfer on an
\* idle endpoint in the end; a bulk transfer that is retried for ever succeeds
\* in the end.
FairSpec ==
  /\ Spec
  /\ WF_vars(usb_timer(TRUE, TRUE))
  /\ SF_vars(event_sent(TRUE, TRUE, TRUE))

-----------------------------------------------------------------------------
(***************************************************************************)
(* Properties                                                              *)
(***************************************************************************)

\* What the PSP will hold once it has received the queue.
Upcoming == AfterAll(psp, queue)

\* Player 1's buttons at the PSP, once the queue has been received, are those
\* the Pico believes it has sent (g_last): a transfer that failed and was
\* delivered all the same, and is therefore sent twice, does no harm, and no
\* transition is dropped halfway.
Player1Mirrored == complete => Upcoming.buttons[0] = last[0].buttons

\* The same of player 2's presence.  Of its buttons the PSP may hold fewer
\* (a status of 0 lets go of all) and never more: no button is stuck down.
Player2NeverStuck ==
  complete => /\ Upcoming.p2_connected = last[1].connected
              /\ Upcoming.buttons[1] \subseteq last[1].buttons

\* The PSP never holds a button for a player 2 who is not there, at any moment
\* of the stream: the status event is queued before the buttons.
Player2Present == psp.buttons[1] # {} => psp.p2_connected

Player2Mirrored == Player2NeverStuck /\ Player2Present

\* An axis of player 1 that is not marked for sending has reached the PSP, and
\* so has the aim: a completion never clears the mark of a newer value.
Player1StickMirrored ==
  complete => \A a \in {"x", "y"} :
    pendingAxis[<<0, a>>] = NoValue => psp.stick[<<0, a>>] = last[0][a]
AimMirrored == complete /\ ~aimPending => psp.aim = aim_event(aimLast)

\* What the Pico believes the PSP holds of player 1, it holds or will hold.
InputMirrored == Player1Mirrored /\ Player1StickMirrored /\ AimMirrored

\* The buttons the PSP will hold of player 1 after each of the events.
AheadOf(input, events) ==
  [n \in 1..Len(events) |-> AfterAll(input, SubSeq(events, 1, n)).buttons[0]]

\* Player 1's buttons reach the PSP as PadChannel promises: the queue, its full
\* ring and its retries split no change and reorder none, as long as the PSP
\* stays plugged in.  With two free slots a change is queued at once, whatever
\* earlier change was still waiting for room (README.md: "transitions are queued
\* immediately so short fighting-game inputs are not lost").
Channel == INSTANCE PadChannel
             WITH held <- state[0].buttons, ahead <- AheadOf(psp, queue),
                  seen <- psp.buttons[0], ready <- complete /\ inputEnabled,
                  room <- queue_free_count(queue) >= 2
ImplementsPadChannel == Channel!Spec

\* When the controllers hold still (they report at most MaxReports times) and
\* the PSP stays linked, its input settles on theirs, to within the deadbands,
\* however many transfers fail and however full the queue was.
Settled ==
  /\ psp.buttons[0] = state[0].buttons
  /\ \A a \in {"x", "y"} :
       Distance(psp.stick[<<0, a>>], state[0][a]) < ANALOG_DEADBAND
  /\ psp.p2_connected = state[1].connected
  /\ psp.buttons[1] \subseteq state[1].buttons
  /\ ~AimMoved(aim, aimLast) /\ psp.aim = aim_event(aimLast)
Settles == <>[]complete => <>[]Settled

=============================================================================
