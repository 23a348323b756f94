--------------------------- MODULE MCCalibration ---------------------------
(***************************************************************************)
(* Calibration for TLC: three places, the upper two at the same height     *)
(* (which OrderBy leaves as they were clicked), with an edge that leaves   *)
(* the picture on the right before it meets the bottom; and the corners of *)
(* a slanted zone.                                                         *)
(***************************************************************************)
EXTENDS Calibration

P(x, y) == [x |-> x, y |-> y]

ThreePoints == {P(20, 20), P(70, 20), P(90, 80)}
FourPoints  == {P(40, 20), P(80, 20), P(20, 80), P(60, 80)}

AllZoneFaults == {"navigation", "sdcard"}
NoZoneFaults == {}
=============================================================================
