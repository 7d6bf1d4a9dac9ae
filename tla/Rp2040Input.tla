----------------------------- MODULE Rp2040Input -----------------------------
(***************************************************************************)
(* The input side of rp2040-zero/standalone_usbhost.c: the PS2 port and    *)
(* the stream of events that is made of it.  They meet in one place, what  *)
(* a reading finds (Found of Rp2040Sender), and neither keeps any state of *)
(* the other: a behaviour follows one of them while the other stands       *)
(* still.                                                                  *)
(***************************************************************************)
EXTENDS Rp2040Sender, Ps2Port

VARIABLE subject  \* which of them the behaviour follows

inputVars == <<subject, vars, portVars>>

InputInit ==
  /\ subject \in {"port", "stream"}
  /\ Init
  /\ PortInit

InputNext ==
  \/ subject = "stream" /\ Next /\ UNCHANGED <<subject, portVars>>
  \/ subject = "port" /\ PortNext /\ UNCHANGED <<subject, vars>>

InputSpec == InputInit /\ [][InputNext]_inputVars /\ Fairness

=============================================================================
