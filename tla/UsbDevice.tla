------------------------------ MODULE UsbDevice ------------------------------
(***************************************************************************)
(* The PSP's end of the USB link: usb_thread and the bus driver's          *)
(* callbacks of remotejoy_minus.c, main_thread and the power callback of   *)
(* main.c, and the event flags between them.  RemoteLink composes this     *)
(* module with the host and states the properties.                         *)
(*                                                                         *)
(* The PSP has one core and schedules by strict priority: usb_thread (10)  *)
(* before main_thread (15) before the power thread (16).  A thread steps   *)
(* only while those before it are blocked; the callbacks are interrupts    *)
(* and come at any point.  An action is what runs between two points at    *)
(* which an interrupt or a preemption makes a difference.                  *)
(*                                                                         *)
(* A call of rjmLogText or rjmLogHex sleeps for 10 ms (rjm_log.c), in      *)
(* which the threads below run: it is a place of its own wherever they     *)
(* could not have run before.                                              *)
(*                                                                         *)
(* A message is a sequence of 4-byte words.  An input event is the number  *)
(* of the session (the attach) it was sent in.                             *)
(***************************************************************************)
EXTENDS Integers, Sequences, SequencesExt

CONSTANTS
  PowerSwitch,  \* whether the user may switch the PSP to standby
  RingEvents    \* how many events the ring holds (341 in the code)

ASSUME UsbDeviceAssumption ==
  /\ PowerSwitch \in BOOLEAN
  /\ RingEvents \in Nat \ {0}

VARIABLES
  attached,     \* the bus driver has an active host
  g_main_event, \* the set of USB_EVENT_... flags
  g_async_event,\* the RJM_ASYNC_JOY flag
  g_trans_event,\* whether the flag of the current bulk request is set
  g_usb_ready,
  bulk,         \* the bulk request usb_thread waits for
  async_armed,  \* g_async_req is with the bus driver
  async_data,   \* what g_async_req received: an event, or Failed
  usb,          \* where usb_thread is
  result,       \* the flags usb_thread is handling
  received,     \* the words read_data has so far
  ring,         \* g_async_endp
  main,         \* where main_thread is
  joyevent,     \* the event main_thread has read
  input,        \* the session g_currjoy comes from, Neutral if none
  power         \* where the power thread is

deviceVars ==
  <<attached, g_main_event, g_async_event, g_trans_event, g_usb_ready, bulk,
    async_armed, async_data, usb, result, received, ring, main, joyevent,
    input, power>>
threadVars == <<usb, result, received>>
mainVars == <<main, joyevent, input>>
requestVars == <<g_trans_event, bulk, async_armed, async_data>>

Neutral == 0
Failed == -1

\* The words of the protocol.  The context is the third word of the command.
HOSTFS_MAGIC == "magic"
HELLO == "hello"
CONTEXT == "context"
CAP_CONTEXT == "cap_context"

\* The exchange of one attach: read the magic, then two commands, each
\* written and answered.
Exchange == <<"read_magic", "write_hello", "read_hello",
              "write_context", "read_context">>
Expected == [read_magic |-> 1, read_hello |-> 3, read_context |-> 3]
Reads == DOMAIN Expected

NoRequest == [dir |-> "none", ok |-> FALSE]

-----------------------------------------------------------------------------
\* A thread that waits for a flag is made ready by whoever sets it, at once.
UsbWaits ==
  \/ usb = "wait" /\ g_main_event \cap {"attach", "detach", "async"} = {}
  \/ usb \in ToSet(Exchange) /\ bulk.dir # "none" /\ ~g_trans_event

\* usb_thread logs the answer to each command, or that there was none.
UsbAsleep ==
  \/ usb \in {"arm", "failed"}
  \/ usb = "write_context" /\ bulk.dir = "none"

UsbBlocked == UsbWaits \/ UsbAsleep

\* main_thread logs before it waits for the connection, and after.
\* Mutant: it does not, as with RJM_TRACE_PACE_US set to 0.
MainAsleep_Never == FALSE
MainAsleep == main \in {"wait_connect", "connected"}

MainBlocked ==
  \/ MainAsleep
  \/ main = "wait_connect" /\ "connect" \notin g_main_event
  \/ main = "read_wait" /\ ~g_async_event

\* sceKernelSetEventFlag(g_async_event, ...): if main_thread waits for the flag
\* it is released and the flag stays clear.
SetAsync(waker) ==
  IF main = "read_wait"
  THEN main' = "read_woken" /\ UNCHANGED g_async_event
  ELSE main' = main /\ g_async_event' = TRUE

DeviceInit ==
  /\ attached = FALSE
  /\ g_main_event = {}
  /\ g_async_event = FALSE
  /\ g_trans_event = FALSE
  /\ g_usb_ready = FALSE
  /\ bulk = NoRequest
  /\ async_armed = FALSE
  /\ async_data = Failed
  /\ usb = "wait"
  /\ result = {}
  /\ received = <<>>
  /\ ring = <<>>
  /\ main = "reset"
  /\ joyevent = Neutral
  /\ input = Neutral
  /\ power = "sleep"

-----------------------------------------------------------------------------
(* Callbacks of the bus driver (interrupts).                               *)

usb_attach ==
  /\ ~attached
  /\ attached' = TRUE
  /\ g_main_event' = g_main_event \cup {"attach"}
  /\ UNCHANGED <<g_async_event, g_usb_ready, ring, power>>
  /\ UNCHANGED <<threadVars, mainVars, requestVars>>

\* The driver returns the requests it holds with an error, which calls their
\* done callbacks, and calls usb_detach.
Detach ==
  /\ attached
  /\ attached' = FALSE
  /\ g_trans_event' = (g_trans_event \/ bulk.dir # "none")
  /\ bulk' = [bulk EXCEPT !.ok = @ /\ g_trans_event]
  /\ async_armed' = FALSE
  /\ async_data' = IF async_armed THEN Failed ELSE async_data
  /\ g_usb_ready' = FALSE
  /\ SetAsync("usb_detach")
  /\ g_main_event' = (g_main_event \ {"connect"}) \cup {"detach"}
                     \cup (IF async_armed THEN {"async"} ELSE {})
  /\ UNCHANGED <<ring, threadVars, joyevent, input>>

usb_detach == Detach /\ UNCHANGED power

\* bulkin_done: the host has read the command.
bulkin_done ==
  /\ bulk.dir = "in" /\ ~g_trans_event
  /\ g_trans_event' = TRUE
  /\ bulk' = [bulk EXCEPT !.ok = TRUE]
  /\ UNCHANGED <<attached, g_main_event, g_async_event, g_usb_ready,
                 async_armed, async_data, ring, power, threadVars, mainVars>>

\* bulkout_done: the host has written words on the command endpoint.
bulkout_done(words) ==
  /\ bulk.dir = "out" /\ ~g_trans_event
  /\ g_trans_event' = TRUE
  /\ bulk' = [bulk EXCEPT !.ok = TRUE]
  /\ received' = received \o words
  /\ UNCHANGED <<attached, g_main_event, g_async_event, g_usb_ready,
                 async_armed, async_data, usb, result, ring, power, mainVars>>

\* async_done: the host has written one event on the asynchronous endpoint.
async_done(event) ==
  /\ async_armed
  /\ async_armed' = FALSE
  /\ async_data' = event
  /\ g_main_event' = g_main_event \cup {"async"}
  /\ UNCHANGED <<attached, g_async_event, g_trans_event, g_usb_ready, bulk,
                 ring, power, threadVars, mainVars>>

-----------------------------------------------------------------------------
(* usb_thread                                                              *)

\* The wait of usb_thread's loop takes and clears the flags it waits for.
usb_wait ==
  /\ usb = "wait"
  /\ result' = g_main_event \cap {"attach", "detach", "async"}
  /\ result' # {}
  /\ g_main_event' = g_main_event \ result'
  /\ usb' = "async"
  /\ UNCHANGED <<attached, g_async_event, g_usb_ready, received, ring, power>>
  /\ UNCHANGED <<mainVars, requestVars>>

\* set_async_req: a request the driver refuses, because the host is gone, is
\* not armed.
set_async_req ==
  /\ g_main_event' = g_main_event \ {"async"}
  /\ async_armed' = attached
  /\ async_data' = Failed
  /\ UNCHANGED <<g_trans_event, bulk>>

\* fill_async, in events: what does not fit is lost.  (AsyncRing has the words.)
fill_async(endp, event) ==
  IF Len(endp) < RingEvents THEN Append(endp, event) ELSE endp

\* usb_thread's ASYNC branch: fill_async ...
usb_async ==
  /\ usb = "async"
  /\ IF "async" \in result /\ async_data # Failed
     THEN /\ ring' = fill_async(ring, async_data)
          /\ SetAsync("fill_async")
          /\ usb' = "rearm"
     ELSE /\ usb' = "detach"
          /\ UNCHANGED <<ring, g_async_event, main>>
  /\ UNCHANGED <<attached, g_main_event, g_usb_ready, result, received,
                 joyevent, input, power, requestVars>>

\* ... and, after an interrupt perhaps, the test of g_usb_ready.
\* Mutant: a full ring is not to be filled further.
usb_rearm_Backpressure ==
  /\ usb = "rearm"
  /\ usb' = "detach"
  /\ IF g_usb_ready /\ Len(ring) < RingEvents
     THEN set_async_req ELSE UNCHANGED <<g_main_event, requestVars>>
  /\ UNCHANGED <<attached, g_async_event, g_usb_ready, result, received, ring,
                 power, mainVars>>
usb_rearm ==
  /\ usb = "rearm"
  /\ usb' = "detach"
  /\ IF g_usb_ready THEN set_async_req ELSE UNCHANGED <<g_main_event, requestVars>>
  /\ UNCHANGED <<attached, g_async_event, g_usb_ready, result, received, ring,
                 power, mainVars>>

\* usb_thread's DETACH branch: the flush clears the reader's flag, which is
\* set again.
usb_detach_branch ==
  /\ usb = "detach"
  /\ usb' = "attach"
  /\ IF "detach" \in result
     THEN /\ g_usb_ready' = FALSE
          /\ ring' = <<>>
          /\ SetAsync("usb_thread")
     ELSE UNCHANGED <<g_usb_ready, ring, g_async_event, main>>
  /\ UNCHANGED <<attached, g_main_event, result, received, joyevent, input,
                 power, requestVars>>

\* usb_thread's ATTACH branch, up to the exchange.
usb_attach_branch ==
  /\ usb = "attach"
  /\ IF "attach" \in result
     THEN /\ g_usb_ready' = FALSE
          /\ ring' = <<>>
          /\ g_async_event' = FALSE
          /\ g_main_event' = g_main_event \ {"connect"}
          /\ received' = <<>>
          /\ usb' = Head(Exchange)
     ELSE /\ usb' = "wait"
          /\ UNCHANGED <<g_usb_ready, ring, g_async_event, g_main_event, received>>
  /\ UNCHANGED <<attached, result, power, requestVars, mainVars>>

\* A failed exchange is logged, unless it failed at the magic.
Failure == IF usb = Head(Exchange) THEN "wait" ELSE "failed"

\* write_data and read_data hand their request to the driver, which refuses it
\* when the host is gone: the exchange has failed.
usb_submit ==
  /\ usb \in ToSet(Exchange)
  /\ bulk.dir = "none"
  /\ IF attached
     THEN /\ bulk' = [dir |-> IF usb \in Reads THEN "out" ELSE "in", ok |-> FALSE]
          /\ g_trans_event' = FALSE
          /\ UNCHANGED usb
     ELSE /\ usb' = Failure
          /\ UNCHANGED <<bulk, g_trans_event>>
  /\ UNCHANGED <<attached, g_main_event, g_async_event, g_usb_ready, result,
                 received, async_armed, async_data, ring, power, mainVars>>

\* What a finished read must hold: the magic, or the answer to the command.
Valid(step) ==
  /\ received[1] = HOSTFS_MAGIC
  /\ step = "read_hello" => received[2] = HELLO
  /\ step = "read_context" => received[2] = CONTEXT

\* A host that does not know contexts (HOSTFS_CAP_CONTEXT) is not sent one.
\* Mutant: the context command is never sent.
After_NoContext(step) ==
  IF step \in {"read_hello", "read_context"} THEN "arm"
  ELSE Exchange[1 + CHOOSE i \in DOMAIN Exchange : Exchange[i] = step]
After(step) ==
  IF step = Last(Exchange) \/ (step = "read_hello" /\ received[3] # CAP_CONTEXT)
  THEN "arm"
  ELSE Exchange[1 + CHOOSE i \in DOMAIN Exchange : Exchange[i] = step]

\* The request is done.  A failed request and a wrong answer end the exchange;
\* nothing retries it before the next attach.  A read goes on until it has all
\* its words.
usb_done ==
  /\ usb \in ToSet(Exchange)
  /\ bulk.dir # "none" /\ g_trans_event
  /\ g_trans_event' = FALSE
  /\ bulk' = NoRequest
  /\ IF ~bulk.ok
     THEN usb' = Failure /\ UNCHANGED received
     ELSE IF usb \notin Reads
     THEN usb' = After(usb) /\ received' = <<>>
     ELSE IF Len(received) < Expected[usb]
     THEN UNCHANGED <<usb, received>>
     ELSE IF Valid(usb)
     THEN usb' = After(usb) /\ received' = <<>>
     ELSE usb' = Failure /\ UNCHANGED received
  /\ UNCHANGED <<attached, g_main_event, g_async_event, g_usb_ready, result,
                 async_armed, async_data, ring, power, mainVars>>

\* send_hello_cmd returns after its last log.
usb_failed ==
  /\ usb = "failed"
  /\ usb' = "wait"
  /\ UNCHANGED <<attached, g_main_event, g_async_event, g_usb_ready, result,
                 received, ring, power, mainVars, requestVars>>

\* The three statements after the exchange, between which an interrupt may
\* come.
usb_arm ==
  /\ usb = "arm"
  /\ set_async_req
  /\ usb' = "ready"
  /\ UNCHANGED <<attached, g_async_event, g_usb_ready, result, received, ring,
                 power, mainVars>>

usb_ready ==
  /\ usb = "ready"
  /\ g_usb_ready' = TRUE
  /\ usb' = "connect"
  /\ UNCHANGED <<attached, g_main_event, g_async_event, result, received, ring,
                 power, mainVars, requestVars>>

usb_connect ==
  /\ usb = "connect"
  /\ g_main_event' = g_main_event \cup {"connect"}
  /\ usb' = "wait"
  /\ UNCHANGED <<attached, g_async_event, g_usb_ready, result, received, ring,
                 power, mainVars, requestVars>>

usb_thread ==
  \/ usb_wait \/ usb_async \/ usb_rearm \/ usb_detach_branch
  \/ usb_attach_branch \/ usb_submit \/ usb_done \/ usb_failed
  \/ usb_arm \/ usb_ready \/ usb_connect

-----------------------------------------------------------------------------
(* main_thread, which runs while usb_thread is blocked                     *)

rjmUsbAsyncFlush ==
  /\ ring' = <<>>
  /\ g_async_event' = FALSE

\* reset_remote_input_state, at the head of the outer loop.
\* Mutant: the reset is left to rjmUsbAsyncRead's failure.
main_reset_Forgets ==
  /\ main = "reset"
  /\ main' = "flush"
  /\ UNCHANGED <<attached, g_main_event, g_async_event, g_usb_ready, ring,
                 joyevent, input, power, threadVars, requestVars>>
main_reset ==
  /\ main = "reset"
  /\ input' = Neutral
  /\ main' = "flush"
  /\ UNCHANGED <<attached, g_main_event, g_async_event, g_usb_ready, ring,
                 joyevent, power, threadVars, requestVars>>

\* rjmUsbAsyncFlush, at the head of the outer loop and after a short read.
main_flush ==
  /\ main \in {"flush", "flush_short"}
  /\ rjmUsbAsyncFlush
  /\ main' = IF main = "flush" THEN "wait_connect" ELSE "check"
  /\ UNCHANGED <<attached, g_main_event, g_usb_ready, joyevent, input, power,
                 threadVars, requestVars>>

\* The log before rjmUsbWaitForConnect, and the wait, which does not clear the
\* flag it waits for.
rjmUsbWaitForConnect ==
  /\ main = "wait_connect"
  /\ "connect" \in g_main_event
  /\ main' = "connected"
  /\ UNCHANGED <<attached, g_main_event, g_async_event, g_usb_ready, ring,
                 joyevent, input, power, threadVars, requestVars>>

\* The log after it.
main_connected ==
  /\ main = "connected"
  /\ main' = "check"
  /\ UNCHANGED <<attached, g_main_event, g_async_event, g_usb_ready, ring,
                 joyevent, input, power, threadVars, requestVars>>

\* while(rjmUsbIsConnected()), and rjmUsbAsyncRead's test of the same variable.
rjmUsbIsConnected ==
  /\ main \in {"check", "read"}
  /\ main' = IF ~g_usb_ready THEN "reset"
             ELSE IF main = "check" THEN "read" ELSE "read_wait"
  /\ UNCHANGED <<attached, g_main_event, g_async_event, g_usb_ready, ring,
                 joyevent, input, power, threadVars, requestVars>>

\* rjmUsbAsyncRead's wait, when the flag is set already.
main_read_wait ==
  /\ main = "read_wait"
  /\ g_async_event
  /\ g_async_event' = FALSE
  /\ main' = "read_woken"
  /\ UNCHANGED <<attached, g_main_event, g_usb_ready, ring, joyevent, input,
                 power, threadVars, requestVars>>

\* The rest of rjmUsbAsyncRead, and main_thread's test of what it returned: -1
\* when the link is down, nothing when the wake-up was for no event, or an
\* event.
rjmUsbAsyncRead ==
  /\ main = "read_woken"
  /\ IF ~g_usb_ready
     THEN /\ main' = "reset"
          /\ input' = Neutral
          /\ UNCHANGED <<ring, joyevent, g_async_event>>
     ELSE IF ring = <<>>
     THEN /\ main' = "flush_short"
          /\ input' = Neutral
          /\ UNCHANGED <<ring, joyevent, g_async_event>>
     ELSE /\ main' = "handle"
          /\ joyevent' = Head(ring)
          /\ ring' = Tail(ring)
          /\ g_async_event' = (g_async_event \/ Len(ring) > 1)
          /\ UNCHANGED input
  /\ UNCHANGED <<attached, g_main_event, g_usb_ready, power, threadVars,
                 requestVars>>

\* The event has been handled; the next read overwrites it.
main_handle_joyevent ==
  /\ main = "handle"
  /\ input' = joyevent
  /\ joyevent' = Neutral
  /\ main' = "check"
  /\ UNCHANGED <<attached, g_main_event, g_async_event, g_usb_ready, ring,
                 power, threadVars, requestVars>>

main_thread ==
  /\ UsbBlocked
  /\ \/ main_reset \/ main_flush \/ rjmUsbWaitForConnect \/ main_connected
     \/ rjmUsbIsConnected \/ main_read_wait \/ rjmUsbAsyncRead \/ main_handle_joyevent

-----------------------------------------------------------------------------
(* The power thread's power_callback, which runs while both others are     *)
(* blocked.  Its steps end where it makes another thread ready.            *)

\* The PSP goes to standby: reset_remote_input_state, then rjmUsbSuspend up to
\* the wake-up of main_thread ...
power_suspend ==
  /\ PowerSwitch
  /\ power = "sleep"
  /\ power' = "woke_reader"
  /\ input' = Neutral
  /\ g_usb_ready' = FALSE
  /\ SetAsync("rjmUsbSuspend")
  /\ UNCHANGED <<attached, g_main_event, ring, joyevent, threadVars, requestVars>>

\* ... up to the wake-up of usb_thread ...
power_set_detach ==
  /\ power = "woke_reader"
  /\ power' = "deactivate"
  /\ g_main_event' = (g_main_event \ {"connect"}) \cup {"detach"}
  /\ UNCHANGED <<attached, g_async_event, g_usb_ready, ring, threadVars,
                 mainVars, requestVars>>

\* ... and sceUsbDeactivate, which takes the PSP off the bus.
power_deactivate ==
  /\ power = "deactivate"
  /\ power' = "suspended"
  /\ IF attached THEN Detach ELSE UNCHANGED
       <<attached, g_main_event, g_async_event, g_usb_ready, ring, threadVars,
         mainVars, requestVars>>

\* The flush after rjmUsbSuspend, and the one after rjmUsbResume once the PSP
\* is back.
power_flush ==
  /\ power = "suspended"
  /\ power' = "sleep"
  /\ rjmUsbAsyncFlush
  /\ UNCHANGED <<attached, g_main_event, g_usb_ready, threadVars, mainVars,
                 requestVars>>

power_callback ==
  /\ UsbBlocked /\ MainBlocked
  /\ power_suspend \/ power_set_detach \/ power_deactivate \/ power_flush

-----------------------------------------------------------------------------
=============================================================================
