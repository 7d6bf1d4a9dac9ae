------------------------------ MODULE Rp2040Link ------------------------------
(***************************************************************************)
(* The RP2040-Zero's end of the USB link (standalone_usbhost.c): what      *)
(* differs from the Pico 2 W's, and the names HostLink's steps have here.  *)
(* It resets itself once more before it reads the descriptor, forgets the  *)
(* PSP's context with every reset, and repeats the magic only for a hello  *)
(* that does not come: a magic that is not taken, and every failure, waits *)
(* for the next mount.                                                     *)
(***************************************************************************)
EXTENDS HostLink

\* clear_endpoints, and what TinyUSB forgets with the device.
clear_endpoints ==
  /\ g_eps' = FALSE
  /\ g_handshake_started' = FALSE
  /\ g_handshake_complete' = FALSE
  /\ g_sending_magic' = FALSE
  /\ g_waiting_hello' = FALSE
  /\ in_ep' = "none"
  /\ cmd_ep' = Free
  /\ async_ep' = FALSE
  /\ pops_context' = FALSE
  /\ UNCHANGED <<g_xfer_buf, g_cmd_buf>>

tuh_mount_cb ==
  /\ control = "none"
  /\ clear_endpoints
  /\ control' = "device"

tuh_umount_cb ==
  /\ clear_endpoints
  /\ control' = "none"

device_desc_cb(success) == device_read(success)

\* parse_config_descriptor, which calls clear_endpoints first (no transfer is
\* under way yet) and start_hostfs_hello last.
parse_config_descriptor(found) ==
  /\ g_eps' = found
  /\ g_handshake_started' = found
  /\ g_handshake_complete' = FALSE
  /\ IF found
     THEN send_magic(cmd_ep)
     ELSE /\ g_sending_magic' = FALSE
          /\ g_waiting_hello' = FALSE
          /\ UNCHANGED <<g_xfer_buf, cmd_ep>>
  /\ async_ep' = FALSE
  /\ pops_context' = FALSE
  /\ UNCHANGED <<g_cmd_buf, in_ep>>

config_desc_cb(success, found) ==
  /\ control = "config"
  /\ control' = "done"
  /\ IF success
     THEN parse_config_descriptor(found)
     ELSE UNCHANGED <<g_eps, handshakeVars, g_xfer_buf, g_cmd_buf, in_ep, cmd_ep,
                      async_ep, pops_context>>

hostfs_magic_sent_cb(success) == magic_sent(success)
hostfs_hello_read_cb(success, words) == hello_read(success, words)
hostfs_hello_response_sent_cb(success) == hello_response_sent(success)
hostfs_context_read_cb(success, words) == context_read(success, words)
hostfs_context_response_sent_cb == context_response_sent

\* poll_handshake_timeout.  The magic that timed out is not aborted: if the PSP
\* takes it after all, the handshake goes on, and this function no longer
\* watches it.  Only the wait for the hello is aborted and begun again, with
\* a new magic.
poll_handshake_timeout ==
  /\ g_handshake_started
  /\ ~g_handshake_complete
  /\ \/ /\ g_sending_magic
        /\ g_sending_magic' = FALSE
        /\ g_handshake_started' = FALSE
        /\ UNCHANGED <<g_waiting_hello, g_xfer_buf, in_ep, cmd_ep>>
     \/ /\ ~g_sending_magic
        /\ g_waiting_hello
        /\ in_ep' = "none"
        /\ send_magic(cmd_ep)
        /\ UNCHANGED g_handshake_started
  /\ UNCHANGED <<enumVars, g_handshake_complete, g_cmd_buf, async_ep, pops_context>>

process_event_queue == process_queue
joy_event_sent_cb == event_sent

=============================================================================
