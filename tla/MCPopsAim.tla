---------------------------- MODULE MCPopsAim ----------------------------
(*************************************************************************)
(* PopsAim on the PSP's screen in POPS's "Original" mode: a gun that is  *)
(* lit, in the picture or beside it at a place whose correction is "no   *)
(* light", or that sees no light and reports so on one axis, and a gyro. *)
(*************************************************************************)
EXTENDS PopsAim

GunReadings == {<<200, 100>>, <<90, 24>>, <<1, 100>>}
Lcd == [w |-> 480, h |-> 272, mode |-> 0, tv_4_3 |-> FALSE]
GyroAims == {<<65535, 0>>}

=============================================================================
