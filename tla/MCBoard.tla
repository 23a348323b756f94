------------------------------ MODULE MCBoard ------------------------------
(* Board for TLC: the named instances that the configurations use.         *)
EXTENDS Board

BothApps == Apps
WebOnly  == {"web"}
AllFaults == {"sensor", "heap", "sdcard", "tty", "slow"}
NoFaults == {}
AllRequests == Commands
OnOnly == {"on"}
OnOff == {"on", "off"}
CameraOnly == {"camera"}
=============================================================================
