---------------------------- MODULE PopsOverlay ----------------------------
(***************************************************************************)
(* The crosshair and the flash that pops_aim.c paints into the frames POPS *)
(* shows (overlay_thread).  POPS shows its frames in any order, repaints   *)
(* only the PS1 picture in them when it likes, and leaves the border       *)
(* around it alone; the overlay thread works on the frame being shown, and *)
(* keeps what it did to a frame in one of XH_RECORDS records.              *)
(*                                                                         *)
(* A frame is its two areas: which of them have their colours inverted,    *)
(* and which crosshair pixels are on them.  A crosshair is drawn for an    *)
(* aim, by which it is known, and covers the areas its box reaches into.   *)
(***************************************************************************)
EXTENDS AimScreen, FiniteSets

CONSTANTS
  Frames,                   \* addresses of frame buffers POPS uses
  Displays,                 \* displays and screen modes
  XH_RECORDS

NoFrame == "none"

ASSUME OverlayAssumption ==
  /\ XH_RECORDS \in Nat \ {0}
  /\ IsFiniteSet(Frames) /\ Cardinality(Frames) <= XH_RECORDS
  /\ {NoFrame, "idle"} \cap Frames = {}
  /\ Displays \subseteq EveryDisplay

VARIABLES
  \* POPS and the display
  display, shown,
  inverted,          \* of each frame, the areas whose colours are inverted
  cross,             \* of each frame, the crosshair pixels on it
  \* the rest of pops_aim.c
  target,            \* the aim to show a crosshair at: [raw, xy]; NoTarget if
                     \* there is none or the player has hidden the crosshair
  \* the overlay thread
  s_xh,              \* the records
  s_xh_next,
  step,              \* "idle", or "probe" between the two parts of flash_invert
  probed,            \* frames not repainted since their probes were read
  \* history
  disturbed          \* frames repainted while they were flashed

popsVars == <<display, shown, inverted, cross>>
recordVars == <<s_xh, s_xh_next, step, probed>>
overlayVars == <<popsVars, target, s_flash_wanted, recordVars, disturbed>>

Areas == {"picture", "border"}
NoTarget == [raw |-> FALSE, xy |-> NO_LIGHT]
NoRecord == [base |-> NoFrame, layout |-> <<0, 0>>, drawn |-> FALSE,
             at |-> NO_LIGHT, inverted |-> FALSE]

XH_REACH == 7    \* pixels from the centre of the crosshair to its outline

Reaches(centre, first, size) ==
  centre - XH_REACH >= first /\ centre + XH_REACH < first + size

\* The crosshair pixels of a crosshair centred at c.
Pixels(c) ==
  LET rect == picture_rect(display)
      covered ==
        IF Reaches(c[1], rect.x, rect.w) /\ Reaches(c[2], rect.y, rect.h)
        THEN {"picture"} ELSE Areas
  IN {c} \X covered

-----------------------------------------------------------------------------
(***************************************************************************)
(* POPS, the display and the aim                                           *)
(***************************************************************************)

OverlayInit ==
  /\ display \in Displays /\ shown \in Frames
  /\ inverted = [f \in Frames |-> {}]
  /\ cross = [f \in Frames |-> {}]
  /\ target = NoTarget
  /\ s_flash_wanted = FALSE
  /\ s_xh = [i \in 0..(XH_RECORDS - 1) |-> NoRecord]
  /\ s_xh_next = 0
  /\ step = "idle"
  /\ probed = {}
  /\ disturbed = {}

\* POPS repaints the picture of a frame, the one being shown or not.
Repaint(frame) ==
  /\ inverted' = [inverted EXCEPT ![frame] = @ \ {"picture"}]
  /\ cross' = [cross EXCEPT ![frame] = {p \in @ : p[2] # "picture"}]
  /\ probed' = probed \ {frame}
  /\ disturbed' = IF inverted[frame] # {} THEN disturbed \cup {frame}
                  ELSE disturbed
  /\ UNCHANGED <<display, shown, target, s_flash_wanted, s_xh,
                 s_xh_next, step>>

Flip(frame) ==
  /\ shown' = frame
  /\ UNCHANGED <<display, inverted, cross, target, s_flash_wanted,
                 recordVars, disturbed>>

\* The display changes (TV out, or POPS's screen mode), and all is repainted.
SetDisplay(new) ==
  /\ step = "idle" /\ new # display
  /\ display' = new
  /\ inverted' = [f \in Frames |-> {}]
  /\ cross' = [f \in Frames |-> {}]
  /\ probed' = {}
  /\ disturbed' = {}
  /\ UNCHANGED <<shown, target, s_flash_wanted, s_xh, s_xh_next,
                 step>>

\* The aim moves or ends; the filter wants the flash or no longer does.
MoveAim(new) ==
  /\ target' = new
  /\ UNCHANGED <<popsVars, s_flash_wanted, recordVars, disturbed>>

WantFlash ==
  /\ s_flash_wanted' = ~s_flash_wanted
  /\ UNCHANGED <<popsVars, target, recordVars, disturbed>>

-----------------------------------------------------------------------------
(***************************************************************************)
(* Records                                                                 *)
(***************************************************************************)

HasRecord(frame) == \E i \in DOMAIN s_xh : s_xh[i].base = frame

RecordOf(frame) == CHOOSE i \in DOMAIN s_xh : s_xh[i].base = frame

\* The slot and the content of the shown frame's record: its own, cleared when
\* the layout has changed, or a new one in the place of the oldest.
xh_slot == IF HasRecord(shown) THEN RecordOf(shown) ELSE s_xh_next
layout == <<display.w, display.h>>
xh_record_for ==
  IF HasRecord(shown) /\ s_xh[xh_slot].layout = layout THEN s_xh[xh_slot]
  ELSE [s_xh[xh_slot] EXCEPT !.base = shown, !.layout = layout,
                             !.drawn = FALSE, !.inverted = FALSE]

\* A record is taken for the shown frame.
RecordTaken ==
  s_xh_next' = IF HasRecord(shown) THEN s_xh_next
               ELSE (s_xh_next + 1) % XH_RECORDS

\* A frame's picture has been repainted since the probes were read.
flash_intact(r) == r.base \in probed

Flipped(areas) == Areas \ areas

-----------------------------------------------------------------------------
(***************************************************************************)
(* The overlay thread                                                      *)
(***************************************************************************)

\* The crosshair pixels that still hold its colours get their background back.
xh_erase(pixels, r) == {p \in pixels : p[1] # r.at}

\* overlay_step while the flash is wanted, up to the inversion of the frame,
\* which takes as long as POPS takes for a frame.
FlashStep ==
  LET r == xh_record_for IN
  /\ step = "idle" /\ s_flash_wanted
  /\ RecordTaken
  /\ cross' = IF r.drawn THEN [cross EXCEPT ![shown] = xh_erase(@, r)] ELSE cross
  /\ IF ~r.inverted \/ ~flash_intact(r)
     THEN /\ inverted' = [inverted EXCEPT ![shown] = Flipped(@)]
          /\ s_xh' = [s_xh EXCEPT ![xh_slot] =
                        [r EXCEPT !.inverted = TRUE, !.drawn = FALSE]]
          /\ step' = shown
     ELSE /\ UNCHANGED <<inverted, step>>
          /\ s_xh' = [s_xh EXCEPT ![xh_slot] = [r EXCEPT !.drawn = FALSE]]
  /\ UNCHANGED <<display, shown, target, s_flash_wanted, probed,
                 disturbed>>

\* The end of flash_invert: the probes of the frame are read.
FlashProbe ==
  /\ step # "idle"
  /\ probed' = probed \cup {step}
  /\ step' = "idle"
  /\ UNCHANGED <<popsVars, target, s_flash_wanted, s_xh, s_xh_next,
                 disturbed>>

\* flash_restore_all: what is inverted and not repainted is inverted back.
\* Mutant: only the frame being shown is.
ToRestore_ShownOnly ==
  {f \in Frames : f = shown /\ HasRecord(f) /\ s_xh[RecordOf(f)].inverted
                            /\ flash_intact(s_xh[RecordOf(f)])}
ToRestore ==
  {f \in Frames : HasRecord(f) /\ s_xh[RecordOf(f)].inverted
                               /\ flash_intact(s_xh[RecordOf(f)])}
flash_restore_all ==
  inverted' = [f \in Frames |->
                 IF f \in ToRestore THEN Flipped(inverted[f]) ELSE inverted[f]]

\* A record after flash_restore_all; the shown frame's is r.
Restored(r) ==
  [i \in DOMAIN s_xh |-> IF i = xh_slot THEN [r EXCEPT !.inverted = FALSE]
                         ELSE [s_xh[i] EXCEPT !.inverted = FALSE]]

\* The crosshair is wanted: a real gun hides it while it sees no light.
want ==
  target # NoTarget /\ ~(target.raw /\ is_no_light(target.xy))

CentreOf(aimed, d) ==
  Crosshair(IF aimed.raw THEN raw_to_normalized(correct_raw(aimed.xy, Share(d)))
            ELSE aimed.xy, d)
\* Mutant: a gun's place is not corrected for the picture's.
Centre_Uncorrected ==
  Crosshair(IF target.raw THEN raw_to_normalized(target.xy) ELSE target.xy,
            display)
Centre == CentreOf(target, display)

xh_intact(r) == Pixels(r.at) \subseteq cross[shown]

\* overlay_step while no flash is wanted.
\* Mutant: a crosshair that has moved is drawn again without being erased.
CrosshairStep_NoErase ==
  LET r == xh_record_for IN
  /\ step = "idle" /\ ~s_flash_wanted
  /\ flash_restore_all
  /\ RecordTaken
  /\ cross' = [cross EXCEPT ![shown] =
                 (IF r.drawn /\ ~want THEN xh_erase(@, r) ELSE @)
                 \cup (IF want THEN Pixels(Centre) ELSE {})]
  /\ s_xh' = [Restored(r) EXCEPT ![xh_slot].drawn = want,
                                 ![xh_slot].at = IF want THEN Centre ELSE @]
  /\ disturbed' = {f \in disturbed : inverted'[f] # {}}
  /\ UNCHANGED <<display, shown, target, s_flash_wanted, step,
                 probed>>
CrosshairStep ==
  LET r == xh_record_for
      erase == r.drawn /\ (~want \/ Centre # r.at \/ ~xh_intact(r))
      draw == want /\ (~r.drawn \/ erase)
  IN
  /\ step = "idle" /\ ~s_flash_wanted
  /\ flash_restore_all
  /\ RecordTaken
  /\ cross' = [cross EXCEPT ![shown] =
                 (IF erase THEN xh_erase(@, r) ELSE @)
                 \cup (IF draw THEN Pixels(Centre) ELSE {})]
  /\ s_xh' = [Restored(r) EXCEPT
                ![xh_slot].drawn = draw \/ (r.drawn /\ ~erase),
                ![xh_slot].at = IF draw THEN Centre ELSE @]
  /\ disturbed' = {f \in disturbed : inverted'[f] # {}}
  /\ UNCHANGED <<display, shown, target, s_flash_wanted, step,
                 probed>>

overlay_step == FlashStep \/ FlashProbe \/ CrosshairStep

Pops ==
  \/ \E frame \in Frames : Repaint(frame) \/ Flip(frame)
  \/ \E new \in Displays : SetDisplay(new)

Targets ==
  {NoTarget} \cup [raw : {TRUE}, xy : Readings] \cup [raw : {FALSE}, xy : Aims]

OverlayNext ==
  \/ Pops \/ overlay_step \/ WantFlash
  \/ \E new \in Targets : MoveAim(new)

OverlaySpec == OverlayInit /\ [][OverlayNext]_overlayVars

-----------------------------------------------------------------------------
(***************************************************************************)
(* Properties                                                              *)
(***************************************************************************)

\* No trail: the crosshair pixels on a frame are those of the crosshair its
\* record holds as drawn, however the aim moves, POPS repaints parts of it and
\* shows frames in turn; so they can always be erased.
NoTrail ==
  \A f \in Frames : \A pixel \in cross[f] :
    HasRecord(f) /\ s_xh[RecordOf(f)].drawn /\ pixel[1] = s_xh[RecordOf(f)].at

\* A frame that POPS has not repainted during the flash is inverted as a whole
\* or not at all, and is never left inverted without a record to tell: while
\* the flash lasts it is lit for the gun, and after it given back exactly.
FlashAccounted ==
  \A f \in Frames \ disturbed :
    /\ inverted[f] # {} => HasRecord(f) /\ s_xh[RecordOf(f)].inverted
    /\ HasRecord(f) /\ s_xh[RecordOf(f)].inverted /\ f \in probed =>
         inverted[f] = Areas

Near(a, b, tolerance) == a - b \in -tolerance..tolerance

\* The crosshair of a gun, drawn at at, is where the gun points on display d,
\* to within three pixels on each axis, if that is in the picture.
GunCrosshairTrue(raw, at, d) ==
  LET rect == picture_rect(d)
      px == (raw[1] - GUNCON_X_MIN) * d.w
      py == (raw[2] - GUNCON_Y_MIN) * d.h
  IN /\ px \in (rect.x * 382)..((rect.x + rect.w) * 382) =>
          Near(at[1] * 382, px, 3 * 382)
     /\ py \in (rect.y * 240)..((rect.y + rect.h) * 240) =>
          Near(at[2] * 240, py, 3 * 240)

\* The crosshair of a gyro is where the game is told it aims, to within a
\* pixel and a unit.
GyroCrosshairTrue(xy, at, d) ==
  LET rect == picture_rect(d)
      told == Scaled(xy)
  IN /\ Near((at[1] - rect.x) * 382, (told[1] - GUNCON_X_MIN) * rect.w,
             382 + rect.w)
     /\ Near((at[2] - rect.y) * 240, (told[2] - GUNCON_Y_MIN) * rect.h,
             240 + rect.h)

\* The crosshair shows the player what the game is told, on any display.
CrosshairTrue ==
  want => IF target.raw THEN GunCrosshairTrue(target.xy, Centre, display)
          ELSE GyroCrosshairTrue(target.xy, Centre, display)

=============================================================================
