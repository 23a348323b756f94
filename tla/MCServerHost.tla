---------------------------- MODULE MCServerHost ----------------------------
(* ServerHost for TLC.                                                     *)
EXTENDS ServerHost

AllHostFaults == {"busy", "silent", "bad", "gone"}
=============================================================================
