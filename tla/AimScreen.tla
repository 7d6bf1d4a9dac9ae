----------------------------- MODULE AimScreen -----------------------------
(***************************************************************************)
(* Aim coordinates (pops_aim.c).  A real gun reports GunCon units over the *)
(* whole display, a gyro 0..65535 over the PS1 picture; POPS shows the     *)
(* picture in a rectangle of the display that depends on the display and   *)
(* on its screen mode.  A packed word (x << 16) | y is the pair <<x, y>>.  *)
(***************************************************************************)
EXTENDS Integers

\* What the aim and the overlay have in common.
CONSTANTS
  Readings,         \* what a real gun reports, lit or not
  Aims              \* what a gyro reports, 0..65535 on each axis

ASSUME AimScreenAssumption ==
  /\ Readings \subseteq Nat \X Nat
  /\ Aims \subseteq Nat \X Nat
  /\ \A aim \in Aims : aim[1] <= 65535 /\ aim[2] <= 65535

VARIABLE s_flash_wanted   \* the filter wants the overlay to flash the screen

GUNCON_X_MIN == 78
GUNCON_X_MAX == 460
GUNCON_Y_MIN == 16
GUNCON_Y_MAX == 256
NO_LIGHT == <<1, 10>>

\* The gun can report "no light" on one axis only.
is_no_light(xy) == xy[1] = NO_LIGHT[1] \/ xy[2] = NO_LIGHT[2]

Least(a, b) == IF a < b THEN a ELSE b
Most(a, b) == IF a > b THEN a ELSE b

\* C's division, towards zero.
Quotient(n, d) == IF n < 0 THEN -((-n) \div d) ELSE n \div d

-----------------------------------------------------------------------------
(***************************************************************************)
(* Between the units                                                       *)
(***************************************************************************)

unscale_axis(v, lo, hi) ==
  ((Least(Most(v, lo), hi) - lo) * 65535) \div (hi - lo)

raw_to_normalized(raw) ==
  <<unscale_axis(raw[1], GUNCON_X_MIN, GUNCON_X_MAX),
    unscale_axis(raw[2], GUNCON_Y_MIN, GUNCON_Y_MAX)>>

scale_axis(norm, lo, hi) == lo + ((norm * (hi - lo + 1)) \div 65536)

Scaled(xy) == <<scale_axis(xy[1], GUNCON_X_MIN, GUNCON_X_MAX),
                scale_axis(xy[2], GUNCON_Y_MIN, GUNCON_Y_MAX)>>

stretch_axis(v, lo, hi, ratio) ==
  LET centre == (lo + hi) \div 2
      stretched == centre + Quotient((Least(v, 2047) - centre) * 65536, ratio)
  IN IF ratio \in {0, 65536} THEN v ELSE Most(0, Least(stretched, 65535))

\* share is the picture's share of the display on each axis, Q16.
correct_raw(raw, share) ==
  IF raw = NO_LIGHT THEN raw
  ELSE <<stretch_axis(raw[1], GUNCON_X_MIN, GUNCON_X_MAX, share[1]),
         stretch_axis(raw[2], GUNCON_Y_MIN, GUNCON_Y_MAX, share[2])>>

-----------------------------------------------------------------------------
(***************************************************************************)
(* The picture on the display                                              *)
(***************************************************************************)

\* A display is [w, h, mode, tv_4_3]: its size, POPS's screen mode (5 while
\* POPS's block is not found) and the TV's aspect setting.  It is the LCD, or a
\* TV driven progressively or interlaced.
EveryDisplay ==
  [w : {480}, h : {272}, mode : 0..5, tv_4_3 : BOOLEAN]
  \cup [w : {672, 720}, h : {240, 480}, mode : 0..5, tv_4_3 : BOOLEAN]

k_lcd_rect ==
  [mode \in 0..5 |->
     CASE mode \in {0, 4, 5} -> [x |-> 80, y |-> 16, w |-> 320, h |-> 240]
       [] mode = 1 -> [x |-> 60, y |-> 1, w |-> 360, h |-> 270]
       [] mode = 2 -> [x |-> 0, y |-> -44, w |-> 480, h |-> 360]
       [] mode = 3 -> [x |-> 0, y |-> 0, w |-> 480, h |-> 272]]

\* On TV out POPS enlarges 320 x 240 by a whole factor on each axis.
tv_rect(display) ==
  LET pw == 320 * Most(1, display.w \div 320)
      ph == 240 * Most(1, display.h \div 240)
  IN [x |-> IF display.tv_4_3 THEN 0 ELSE Quotient(display.w - pw, 2),
      y |-> Quotient(display.h - ph, 2),
      w |-> IF display.tv_4_3 THEN display.w ELSE pw,
      h |-> ph]

picture_rect(display) ==
  IF display.w <= 480 /\ display.h <= 272 THEN k_lcd_rect[display.mode]
  ELSE tv_rect(display)

\* s_picture_width_q16 and s_picture_height_q16.
Share(display) ==
  LET rect == picture_rect(display)
  IN <<(rect.w * 65536) \div display.w, (rect.h * 65536) \div display.h>>

\* Where the crosshair goes for a normalized aim.
Crosshair(xy, display) ==
  LET rect == picture_rect(display)
  IN <<rect.x + ((xy[1] * rect.w) \div 65536),
       rect.y + ((xy[2] * rect.h) \div 65536)>>

=============================================================================
