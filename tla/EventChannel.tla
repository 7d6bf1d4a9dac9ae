----------------------------- MODULE EventChannel -----------------------------
(***************************************************************************)
(* What main_thread may assume of the JoyEvent stream that reaches it      *)
(* through remotejoy_minus.c: events are applied in the order they were    *)
(* sent, none twice and none invented.  Events may be skipped, but not     *)
(* silently: as long as nothing has been cut by a full ring or discarded   *)
(* by a flush, the event applied next is the oldest one outstanding.       *)
(***************************************************************************)
EXTENDS Naturals

CONSTANT MaxEvents

VARIABLES
  sent,     \* number of events the host has delivered to the PSP
  applied,  \* the last event applied
  lossy     \* some event has been lost

vars == <<sent, applied, lossy>>

Init ==
  /\ sent = 0
  /\ applied = 0
  /\ lossy = FALSE

Send ==
  /\ sent < MaxEvents
  /\ sent' = sent + 1
  /\ lossy' \in {lossy, TRUE}
  /\ UNCHANGED applied

Apply ==
  /\ \E event \in applied + 1..sent :
       /\ ~lossy => event = applied + 1
       /\ applied' = event
  /\ UNCHANGED <<sent, lossy>>

Lose ==
  /\ lossy' = TRUE
  /\ UNCHANGED <<sent, applied>>

Next == Send \/ Apply \/ Lose

Spec == Init /\ [][Next]_vars

=============================================================================
