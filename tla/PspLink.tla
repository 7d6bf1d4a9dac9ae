------------------------------- MODULE PspLink -------------------------------
(***************************************************************************)
(* The Pico 2 W's end of the USB link (pico2w/psp_host.c): what differs    *)
(* from the RP2040-Zero's, and the names HostLink's steps have here.  Its  *)
(* timeout goes on for ever, whatever the handshake waits for, and it      *)
(* keeps the PSP's context over a reset.                                   *)
(***************************************************************************)
EXTENDS HostLink

\* reset_host, and what TinyUSB forgets with the device.
reset_host ==
  /\ g_eps' = FALSE
  /\ g_handshake_started' = FALSE
  /\ g_handshake_complete' = FALSE
  /\ g_sending_magic' = FALSE
  /\ g_waiting_hello' = FALSE
  /\ in_ep' = "none"
  /\ cmd_ep' = Free
  /\ async_ep' = FALSE
  /\ UNCHANGED <<g_xfer_buf, g_cmd_buf, pops_context>>

tuh_mount_cb ==
  /\ control = "none"
  /\ reset_host
  /\ control' = "device"

tuh_umount_cb ==
  /\ reset_host
  /\ control' = "none"

\* parse_config ends with start_handshake, which is guarded by
\* g_handshake_started and by the three endpoints.
config_read(success, found) ==
  /\ control = "config"
  /\ control' = "done"
  /\ g_eps' = (success /\ found)
  /\ IF success /\ found /\ ~g_handshake_started
     THEN g_handshake_started' = TRUE /\ send_magic(cmd_ep)
     ELSE UNCHANGED <<g_handshake_started, g_xfer_buf, g_waiting_hello,
                      g_sending_magic, cmd_ep>>
  /\ UNCHANGED <<g_handshake_complete, g_cmd_buf, in_ep, async_ep, pops_context>>

\* usb_timer, HOSTFS_TIMEOUT_MS after the magic was last sent or received: the
\* transfer waited for is aborted and the magic sent again.  An answer to the
\* hello that is still on its way is not aborted.
usb_timer ==
  /\ g_handshake_started /\ ~g_handshake_complete
  /\ in_ep' = IF g_waiting_hello THEN "none" ELSE in_ep
  /\ send_magic(IF ~g_waiting_hello /\ g_sending_magic THEN Free ELSE cmd_ep)
  /\ UNCHANGED <<enumVars, g_handshake_started, g_handshake_complete, g_cmd_buf,
                 async_ep, pops_context>>

=============================================================================
