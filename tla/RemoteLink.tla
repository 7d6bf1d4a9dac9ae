------------------------------ MODULE RemoteLink ------------------------------
(***************************************************************************)
(* The USB link between a sender, the Pico 2 W (PspLink) or the RP2040-    *)
(* Zero (Rp2040Link), and the PSP (UsbDevice): plugging and unplugging,    *)
(* the HostFS handshake with its two commands, the timeouts, transfer      *)
(* errors, standby, and the events of a session.                           *)
(*                                                                         *)
(* A transfer happens when both ends have asked for it; its two            *)
(* completions are one step.  What is external here is the bus, which      *)
(* answers slowly compared with the PSP's threads: the Pico polls TinyUSB  *)
(* once a millisecond, so an attach finds the threads where they wait or   *)
(* sleep; and a new enumeration takes many, so a handshake transfer finds  *)
(* them where they wait (Settled), the log after the last connection over. *)
(* A detach and an event come at any moment.                               *)
(***************************************************************************)
EXTENDS UsbDevice, PspLink

CONSTANTS
  MaxSessions,  \* how often the PSP is plugged in (bounds the model)
  MaxErrors     \* how many transfers fail, or time out while they could
                \* still take place, while it is (bounds the model)

ASSUME RemoteLinkAssumption == MaxSessions \in Nat /\ MaxErrors \in Nat

VARIABLES
  sender,       \* which sender the PSP is plugged in to
  session,      \* the number of the last attach
  psp_pops,     \* whether the PSP runs POPS in this session
  errors,       \* how many transfers have failed or timed out
  spoiled       \* the last session in which one did, 0 if none

busVars == <<sender, session, psp_pops, errors, spoiled>>
vars == <<deviceVars, hostVars, busVars>>

Rp2040 == INSTANCE Rp2040Link

\* The same step of either sender.
Either(pico, rp2040) == IF sender = "pico" THEN pico ELSE rp2040

Mounted == control # "none"

Settled == UsbWaits /\ MainBlocked /\ main # "connected"

Init ==
  /\ DeviceInit
  /\ HostInit
  /\ sender \in {"pico", "rp2040"}
  /\ session = 0
  /\ psp_pops = FALSE
  /\ errors = 0
  /\ spoiled = 0

-----------------------------------------------------------------------------
(* The bus and its user.                                                   *)

\* The PSP is plugged in, or back from standby, and configured by the host.
Attach ==
  /\ UsbWaits /\ MainBlocked
  /\ ~Mounted
  /\ power = "sleep"
  /\ session < MaxSessions
  /\ session' = session + 1
  /\ psp_pops' \in BOOLEAN
  /\ usb_attach
  /\ UNCHANGED <<hostVars, sender, errors, spoiled>>

Mount ==
  /\ attached
  /\ Either(tuh_mount_cb, Rp2040!tuh_mount_cb)
  /\ UNCHANGED <<deviceVars, busVars>>

Unplug == usb_detach /\ UNCHANGED <<hostVars, busVars>>

Unmount ==
  /\ ~attached
  /\ Mounted
  /\ Either(tuh_umount_cb, Rp2040!tuh_umount_cb)
  /\ UNCHANGED <<deviceVars, busVars>>

\* A transfer may fail because the PSP is gone, and now and then while it is
\* there.
MayFail ==
  /\ attached => errors < MaxErrors
  /\ errors' = IF attached THEN errors + 1 ELSE errors
  /\ spoiled' = IF attached THEN session ELSE spoiled
  /\ UNCHANGED <<sender, session, psp_pops>>

Enumerate(success) ==
  /\ IF success THEN attached /\ UNCHANGED busVars ELSE MayFail
  /\ Either(device_read(success) \/ config_read(success, TRUE),
            Rp2040!device_desc_cb(success) \/ Rp2040!config_desc_cb(success, TRUE))
  /\ UNCHANGED deviceVars

-----------------------------------------------------------------------------
(* Transfers on the bulk endpoints.                                        *)

\* What usb_thread writes.
PspWords ==
  IF usb = "write_hello" THEN <<HOSTFS_MAGIC, HELLO, Zero>>
  ELSE <<HOSTFS_MAGIC, CONTEXT, psp_pops>>

TakesIn  == attached /\ in_ep # "none" /\ bulk.dir = "in" /\ ~g_trans_event
TakesOut == attached /\ cmd_ep # Free /\ bulk.dir = "out" /\ ~g_trans_event

CommandRead(success) ==
  Either(\/ hello_read(success, PspWords)
         \/ context_read(success, PspWords),
         \/ Rp2040!hostfs_hello_read_cb(success, PspWords)
         \/ Rp2040!hostfs_context_read_cb(success, PspWords))

CommandSent(success) ==
  Either(\/ magic_sent(success)
         \/ hello_response_sent(success)
         \/ context_response_sent,
         \/ Rp2040!hostfs_magic_sent_cb(success)
         \/ Rp2040!hostfs_hello_response_sent_cb(success)
         \/ Rp2040!hostfs_context_response_sent_cb)

In ==
  /\ Settled
  /\ TakesIn
  /\ bulkin_done
  /\ CommandRead(TRUE)
  /\ UNCHANGED busVars

InFails == MayFail /\ CommandRead(FALSE) /\ UNCHANGED deviceVars

Out ==
  /\ Settled
  /\ TakesOut
  /\ bulkout_done(CommandWords)
  /\ CommandSent(TRUE)
  /\ UNCHANGED busVars

\* The host sees an error; the PSP may have received the words all the same.
OutFails(delivered) ==
  /\ MayFail
  /\ IF delivered THEN Settled /\ TakesOut /\ bulkout_done(CommandWords)
     ELSE UNCHANGED deviceVars
  /\ CommandSent(FALSE)

SendEvent ==
  /\ Either(process_queue, Rp2040!process_event_queue)
  /\ UNCHANGED <<deviceVars, busVars>>

EventSent == Either(event_sent, Rp2040!joy_event_sent_cb)

EventArrives == async_done(session) /\ EventSent /\ UNCHANGED busVars

EventFails(delivered) ==
  /\ MayFail
  /\ IF delivered THEN async_done(session) ELSE UNCHANGED deviceVars
  /\ EventSent

\* One or two seconds are longer than an exchange takes: the timeout comes when
\* the bus and the PSP have nothing left to do; or else a transfer took too
\* long.
Timeout ==
  /\ Either(usb_timer, Rp2040!poll_handshake_timeout)
  /\ IF attached => Settled /\ ~TakesIn /\ ~TakesOut
     THEN UNCHANGED busVars
     ELSE MayFail
  /\ UNCHANGED deviceVars

Transfers == In \/ Out \/ EventArrives

Bus ==
  \/ Attach \/ Mount \/ Unplug \/ Unmount \/ Timeout \/ SendEvent
  \/ \E success \in BOOLEAN : Enumerate(success)
  \/ In \/ InFails \/ Out \/ EventArrives
  \/ \E delivered \in BOOLEAN : OutFails(delivered) \/ EventFails(delivered)

Psp ==
  /\ usb_thread \/ main_thread \/ power_callback
  /\ UNCHANGED <<hostVars, busVars>>

Next == Bus \/ Psp

Spec == Init /\ [][Next]_vars

PspStep(thread) == thread /\ UNCHANGED <<hostVars, busVars>>

\* The PSP's kernel runs every thread that is ready and not preempted, and
\* main_thread, or the power callback once it has begun, whenever the threads
\* before it leave it the core time and again; TinyUSB mounts, unmounts and
\* enumerates, and a transfer both ends ask for takes place; a session has
\* events to send.
FairSpec ==
  /\ Spec
  /\ WF_vars(PspStep(usb_thread))
  /\ SF_vars(PspStep(main_thread))
  /\ SF_vars(PspStep(power_callback /\ ~(power = "sleep")))
  /\ WF_vars(Mount)
  /\ WF_vars(Unmount)
  /\ WF_vars(Enumerate(TRUE))
  /\ WF_vars(In)
  /\ WF_vars(Out)
  /\ WF_vars(SendEvent)
  /\ WF_vars(EventArrives)

-----------------------------------------------------------------------------
(***************************************************************************)
(* Properties                                                              *)
(***************************************************************************)

\* While the sender believes the link is up, the PSP holds input of this session
\* or none: whatever an earlier session left pressed has been let go of.  This
\* is what lets a sender start from neutral when the link comes up.
FreshInput == g_handshake_complete => input \in {Neutral, session}

\* When the PSP takes events, the sender knows the link is up and in which
\* context the PSP runs, which decides whether player 2 and the aim are sent;
\* and the PSP never goes deaf: while it is ready and has nothing to do, a
\* request for the next event is with the driver.
ReadyAgreement ==
  g_usb_ready /\ attached =>
    /\ g_handshake_complete /\ pops_context = psp_pops
    /\ usb = "wait" /\ "async" \notin g_main_event => async_armed

\* g_xfer_buf is shared by the magic, the hello, its answer and the events,
\* and the timeout writes it whatever is in flight: no transfer in flight has
\* its words changed under it.
BufferKept ==
  /\ cmd_ep.by = "magic" => CommandWords = <<HOSTFS_MAGIC>>
  /\ cmd_ep.by = "hello" => CommandWords = <<HOSTFS_MAGIC, HELLO, CAP_CONTEXT>>
  /\ cmd_ep.by = "context" => CommandWords[2] = CONTEXT
  /\ async_ep => g_xfer_buf = [w \in 1..3 |-> Joy]

\* The flags by which the timeout decides what to abort say which transfer is
\* in flight.
FlagsMatchTransfers ==
  g_handshake_started =>
    /\ g_waiting_hello <=> in_ep = "hello"
    /\ g_sending_magic <=> cmd_ep.by = "magic"

\* A transfer is what both ends take it for.
TransfersTracked == BufferKept /\ FlagsMatchTransfers

\* A PSP that stays plugged in and switched on, after whatever standby, gets
\* connected, if no transfer of this session fails or times out (a handshake
\* that failed is not repeated by the PSP; whatever failed in an earlier session
\* makes no difference), and goes on handling the events it is sent.  They come
\* a millisecond apart at the least, which leaves usb_thread blocked time and
\* again.
Connects ==
  <>[](attached /\ power = "sleep" /\ spoiled # session) /\ []<>UsbBlocked =>
    /\ <>[](g_usb_ready /\ g_handshake_complete)
    /\ []<>(main = "handle")

\* A PSP that stays unplugged, and is not on its way to standby, lets go of all
\* input.
InputReleased == <>[](~attached /\ power = "sleep") => <>[](input = Neutral)

\* rjmUsbSuspend wakes main_thread, of higher priority, with g_usb_ready clear and
\* CONNECT still set, and main_thread then goes round its outer loop without
\* waiting: the power callback gets the processor in its logs, and finishes
\* unless there is no end of events.
StandbyCompletes ==
  []<>UsbBlocked /\ <>[](main # "handle") =>
    (power # "sleep" ~> power = "sleep")

=============================================================================
