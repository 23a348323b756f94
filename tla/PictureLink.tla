---------------------------- MODULE PictureLink ----------------------------
(***************************************************************************)
(* What the board and the server may rely on when a picture is fetched: a  *)
(* request opens the exchange, web_source writes a part and then the rest, *)
(* and the server's only way back to its loop is a whole picture or a      *)
(* restart.  Board has the exchange in these steps; SerialTransfer has it  *)
(* byte for byte and implements them.                                      *)
(***************************************************************************)
CONSTANT slow  \* may the server stop waiting although all is written?

VARIABLES
  tx,     \* the picture on the line: "none", "some" or "all" of it
  server  \* WebServer.Run: "idle", in its "camera" branch, or "dead"

Init == tx = "none" /\ server \in {"idle", "camera"}

Asks == server = "idle" /\ server' = "camera" /\ UNCHANGED tx

WritesPart == tx' = "some" /\ UNCHANGED server

WritesRest == tx' = "all" /\ UNCHANGED server

Answers == server = "camera" /\ tx = "all" /\ server' = "idle" /\ tx' = "none"

\* The exception in isEnd.
GivesUp == server = "camera" /\ (slow \/ tx # "all") /\ server' = "dead" /\ UNCHANGED tx

Restarts == server = "dead" /\ server' = "idle" /\ tx' = "none"

\* The board's power is lost, and the port with it.
Breaks == server' = "dead" /\ tx' = "none"

Next == Asks \/ WritesPart \/ WritesRest \/ Answers \/ GivesUp \/ Restarts \/ Breaks

Spec == Init /\ [][Next]_<<tx, server>>
=============================================================================
