--------------------------- MODULE MCPopsOverlay ---------------------------
(***************************************************************************)
(* PopsOverlay with the LCD in "Original" mode and an interlaced TV, a gun *)
(* aimed away from the centre or without light, and a gyro aimed at a      *)
(* corner of the picture, where the crosshair reaches into the border.     *)
(***************************************************************************)
EXTENDS PopsOverlay

SomeDisplays ==
  {[w |-> 480, h |-> 272, mode |-> 0, tv_4_3 |-> FALSE],
   [w |-> 672, h |-> 240, mode |-> 0, tv_4_3 |-> FALSE]}
GunReadings == {<<200, 100>>, <<1, 100>>}
GyroAims == {<<0, 65535>>}

\* CrosshairTrue on every display, for every place a gun or a gyro can aim at
\* (a gyro in steps of 257).
ASSUME CrosshairTrueEverywhere ==
  LET gun(xy, d) == GunCrosshairTrue(xy, CentreOf([raw |-> TRUE, xy |-> xy], d), d)
      gyro(xy, d) == GyroCrosshairTrue(xy, CentreOf([raw |-> FALSE, xy |-> xy], d), d)
  IN
  \A d \in EveryDisplay :
    /\ \A x \in GUNCON_X_MIN..GUNCON_X_MAX : gun(<<x, 136>>, d)
    /\ \A y \in GUNCON_Y_MIN..GUNCON_Y_MAX : gun(<<269, y>>, d)
    /\ \A k \in 0..255 : gyro(<<257 * k, 257 * k>>, d)

=============================================================================
