---------------------------- MODULE MCFaceDetect ----------------------------
(* FaceDetect for TLC: boxes that overlap and that do not, wide and high   *)
(* ones, one without area, one of negative size and one with a low score.  *)
EXTENDS FaceDetect

B(x, y, w, h, s) == [x |-> x, y |-> y, w |-> w, h |-> h, score |-> s]

SomeBoxes ==
  {B(30, 30, 40, 40, 4), B(40, 30, 40, 40, 3), B(100, 10, 20, 60, 4), B(10, 90, 10, 20, 3),
   B(50, 50, 0, 30, 4), B(50, 50, -10, 30, 4), B(50, 50, 30, 30, 2)}

NoFaceFaults == {}
AllFaceFaults == {"sensor", "frame", "clip", "capture"}
=============================================================================
