------------------------------- MODULE HostLink -------------------------------
(***************************************************************************)
(* What the two senders' ends of the USB link have in common: the state of *)
(* the HostFS handshake and the completions of its transfers.  They agree  *)
(* step by step in pico2w/psp_host.c and rp2040-zero/standalone_usbhost.c, *)
(* whose functions are named in PspLink and Rp2040Link; those two modules  *)
(* have what differs: the resets and the timeout.  What is sent once the   *)
(* link is up is the subject of PspInput and Rp2040Sender; here an event   *)
(* is only a use of the asynchronous endpoint and of the buffer it shares  *)
(* with the handshake.                                                     *)
(*                                                                         *)
(* TinyUSB is external.  As the code uses it: an endpoint takes one        *)
(* transfer at a time and refuses another; a completion calls back later,  *)
(* from tuh_task; an aborted transfer never calls back; the transfers of a *)
(* device that is unplugged are forgotten.                                 *)
(***************************************************************************)
EXTENDS Integers, Sequences, SequencesExt

VARIABLES
  control,        \* the control transfer the enumeration waits for
  g_eps,          \* parse_config has found the three endpoints
  g_handshake_started,
  g_handshake_complete,
  g_sending_magic,
  g_waiting_hello,
  g_xfer_buf,     \* its first three words
  g_cmd_buf,      \* likewise
  in_ep,          \* which transfer holds the bulk IN endpoint
  cmd_ep,         \* which holds the command endpoint, and how many words
  async_ep,       \* whether an event holds the asynchronous endpoint
  pops_context    \* what context_read told the controller backend

hostVars ==
  <<control, g_eps, g_handshake_started, g_handshake_complete, g_sending_magic,
    g_waiting_hello, g_xfer_buf, g_cmd_buf, in_ep, cmd_ep, async_ep,
    pops_context>>
enumVars == <<control, g_eps>>
handshakeVars ==
  <<g_handshake_started, g_handshake_complete, g_sending_magic, g_waiting_hello>>

RJM_HOSTFS_MAGIC == "magic"
RJM_HOSTFS_CMD_HELLO == "hello"
RJM_HOSTFS_CMD_CONTEXT == "context"
RJM_HOSTFS_CAP_CONTEXT == "cap_context"
Zero == "zero"
Joy == "joy"               \* a word of an event

Free == [by |-> "none", words |-> 0]
Cleared == <<Zero, Zero, Zero>>

HostInit ==
  /\ control = "none"
  /\ g_eps = FALSE
  /\ g_handshake_started = FALSE
  /\ g_handshake_complete = FALSE
  /\ g_sending_magic = FALSE
  /\ g_waiting_hello = FALSE
  /\ g_xfer_buf = Cleared
  /\ g_cmd_buf = Cleared
  /\ in_ep = "none"
  /\ cmd_ep = Free
  /\ async_ep = FALSE
  /\ pops_context = FALSE

\* send_magic, when the command endpoint is ep: the magic is built in
\* g_xfer_buf even if the endpoint is taken and the transfer refused.
\* Mutant: the buffer is cleared first.
send_magic_Clears(ep) ==
  /\ g_xfer_buf' = [Cleared EXCEPT ![1] = RJM_HOSTFS_MAGIC]
  /\ g_waiting_hello' = FALSE
  /\ g_sending_magic' = (ep = Free)
  /\ cmd_ep' = IF ep = Free THEN [by |-> "magic", words |-> 1] ELSE ep
send_magic(ep) ==
  /\ g_xfer_buf' = [g_xfer_buf EXCEPT ![1] = RJM_HOSTFS_MAGIC]
  /\ g_waiting_hello' = FALSE
  /\ g_sending_magic' = (ep = Free)
  /\ cmd_ep' = IF ep = Free THEN [by |-> "magic", words |-> 1] ELSE ep

\* device_read, and config_read with parse_config: the control transfers of
\* the enumeration.  One that fails ends it: nothing asks again before the
\* next mount.
device_read(success) ==
  /\ control = "device"
  /\ control' = IF success THEN "config" ELSE "done"
  /\ UNCHANGED <<g_eps, handshakeVars, g_xfer_buf, g_cmd_buf, in_ep, cmd_ep,
                 async_ep, pops_context>>

\* magic_sent: on success the hello is awaited, in the buffer the magic was
\* sent from.
magic_sent(success) ==
  /\ cmd_ep.by = "magic"
  /\ cmd_ep' = Free
  /\ g_sending_magic' = FALSE
  /\ IF success
     THEN /\ g_xfer_buf' = Cleared
          /\ g_waiting_hello' = (in_ep = "none")
          /\ in_ep' = IF in_ep = "none" THEN "hello" ELSE in_ep
     ELSE UNCHANGED <<g_xfer_buf, g_waiting_hello, in_ep>>
  /\ UNCHANGED <<enumVars, g_handshake_started, g_handshake_complete, g_cmd_buf,
                 async_ep, pops_context>>

\* hello_read: the PSP's hello has filled g_xfer_buf, or the transfer failed.
\* The answer is built over it.
hello_read(success, words) ==
  /\ in_ep = "hello"
  /\ in_ep' = "none"
  /\ g_waiting_hello' = FALSE
  /\ IF /\ success
        /\ words[1] = RJM_HOSTFS_MAGIC
        /\ words[2] = RJM_HOSTFS_CMD_HELLO
        /\ words[3] = Zero
     THEN /\ g_xfer_buf' =
               <<RJM_HOSTFS_MAGIC, RJM_HOSTFS_CMD_HELLO, RJM_HOSTFS_CAP_CONTEXT>>
          /\ cmd_ep' = IF cmd_ep = Free THEN [by |-> "hello", words |-> 3] ELSE cmd_ep
     ELSE /\ g_xfer_buf' = IF success THEN words ELSE g_xfer_buf
          /\ UNCHANGED cmd_ep
  /\ UNCHANGED <<enumVars, g_handshake_started, g_handshake_complete,
                 g_sending_magic, g_cmd_buf, async_ep, pops_context>>

\* hello_response_sent: the link is up; the context is asked for, in the other
\* buffer.
hello_response_sent(success) ==
  /\ cmd_ep.by = "hello"
  /\ cmd_ep' = Free
  /\ IF success
     THEN /\ g_handshake_complete' = TRUE
          /\ g_cmd_buf' = Cleared
          /\ in_ep' = IF in_ep = "none" THEN "context" ELSE in_ep
     ELSE UNCHANGED <<g_handshake_complete, g_cmd_buf, in_ep>>
  /\ UNCHANGED <<enumVars, g_handshake_started, g_sending_magic, g_waiting_hello,
                 g_xfer_buf, async_ep, pops_context>>

\* context_read: the backend is told before the PSP is answered.
context_read(success, words) ==
  /\ in_ep = "context"
  /\ in_ep' = "none"
  /\ IF success /\ words[1] = RJM_HOSTFS_MAGIC /\ words[2] = RJM_HOSTFS_CMD_CONTEXT
     THEN /\ pops_context' = words[3]
          /\ g_cmd_buf' = <<RJM_HOSTFS_MAGIC, RJM_HOSTFS_CMD_CONTEXT, Zero>>
          /\ cmd_ep' = IF cmd_ep = Free THEN [by |-> "context", words |-> 3] ELSE cmd_ep
     ELSE UNCHANGED <<pops_context, g_cmd_buf, cmd_ep>>
  /\ UNCHANGED <<enumVars, handshakeVars, g_xfer_buf, async_ep>>

\* context_response_sent does nothing.
context_response_sent ==
  /\ cmd_ep.by = "context"
  /\ cmd_ep' = Free
  /\ UNCHANGED <<enumVars, handshakeVars, g_xfer_buf, g_cmd_buf, in_ep, async_ep,
                 pops_context>>

\* process_queue hands an event to the asynchronous endpoint, from the buffer
\* of the handshake, and event_sent takes the endpoint back.
process_queue ==
  /\ g_handshake_complete
  /\ ~async_ep
  /\ async_ep' = TRUE
  /\ g_xfer_buf' = [w \in 1..3 |-> Joy]
  /\ UNCHANGED <<enumVars, handshakeVars, g_cmd_buf, in_ep, cmd_ep, pops_context>>

event_sent ==
  /\ async_ep
  /\ async_ep' = FALSE
  /\ UNCHANGED <<enumVars, handshakeVars, g_xfer_buf, g_cmd_buf, in_ep, cmd_ep,
                 pops_context>>

\* The words the command endpoint sends: what is in the buffer when the PSP
\* takes them.
CommandWords ==
  SubSeq(IF cmd_ep.by = "context" THEN g_cmd_buf ELSE g_xfer_buf, 1, cmd_ep.words)

=============================================================================
