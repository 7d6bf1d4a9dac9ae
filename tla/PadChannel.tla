------------------------------ MODULE PadChannel ------------------------------
(***************************************************************************)
(* What player 1 may assume of the way from the controllers to the PSP:    *)
(* the PSP passes, in order and skipping none, through the buttons that    *)
(* were put in the stream.  A change is put there whole or not at all, and *)
(* at once if there is room; on the way from what was held to what is      *)
(* held, the PSP may see both together, and never a release ahead of the   *)
(* press that came with it, nor a button that neither held.  Only          *)
(* unplugging the PSP loses anything.                                      *)
(***************************************************************************)
EXTENDS Integers, Sequences

CONSTANT Buttons

VARIABLES
  held,    \* what the controllers hold
  ahead,   \* what the PSP has yet to pass through, oldest first
  seen,    \* what the PSP holds
  ready,   \* the PSP is linked, and the controllers are listened to
  room     \* there is room for any one change

vars == <<held, ahead, seen, ready, room>>

\* What the PSP will hold in the end.
Newest == IF ahead = <<>> THEN seen ELSE ahead[Len(ahead)]

\* What may be seen on the way from what was held to what is.
OnTheWay(was, now) == {was} \cup {b \in SUBSET Buttons : now \subseteq b /\ b \subseteq was \cup now}

Init ==
  /\ held = {}
  /\ ahead = <<>>
  /\ seen = {}
  /\ ready = FALSE
  /\ room \in BOOLEAN

\* The PSP is linked, with nothing held and nothing on the way.
Plug ==
  /\ ~ready /\ ahead = <<>> /\ seen = {}
  /\ ready' = TRUE
  /\ UNCHANGED <<held, ahead, seen, room>>

\* The controllers hold something new, or what had no room is put in later.
Put ==
  /\ held' \in SUBSET Buttons
  /\ Len(ahead') >= Len(ahead)
  /\ \A i \in 1..Len(ahead) : ahead'[i] = ahead[i]
  /\ \A i \in Len(ahead) + 1..Len(ahead') : ahead'[i] \in OnTheWay(Newest, held')
  /\ Newest' \in {Newest, held'}
  /\ held' # held /\ ready' /\ room => Newest' = held'
  /\ ready' \in {ready, FALSE}
  /\ room' \in BOOLEAN
  /\ UNCHANGED seen

\* The PSP takes the oldest; the sender may not learn of it and send it again.
Receive ==
  /\ ahead # <<>>
  /\ seen' = Head(ahead)
  /\ ahead' \in {ahead, Tail(ahead)}
  /\ room' \in {room, TRUE}
  /\ UNCHANGED <<held, ready>>

Unplug ==
  /\ ahead' = <<>>
  /\ seen' = {}
  /\ ready' = FALSE
  /\ room' \in BOOLEAN
  /\ UNCHANGED held

Next == Plug \/ Put \/ Receive \/ Unplug

Spec == Init /\ [][Next]_vars

=============================================================================
