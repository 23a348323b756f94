--------------------------- MODULE SwitchMailbox ---------------------------
(***************************************************************************)
(* What the forced switch promises to its user: commands are numbered as   *)
(* they are sent; one box holds the newest that has got through; what is   *)
(* obeyed comes from the box and is never older than what was obeyed       *)
(* before.  A command may be overtaken by a newer one, or lost.            *)
(***************************************************************************)
EXTENDS Naturals

VARIABLES
  sent,  \* number of the last command sent
  box,   \* number of the command in the box
  done   \* number of the last command obeyed

Init == sent = 0 /\ box = 0 /\ done = 0

Send == sent' = sent + 1 /\ UNCHANGED <<box, done>>

Put == box' \in box .. sent /\ UNCHANGED <<sent, done>>

\* The box may have been refilled since its command was read.
Obey == done' \in done .. box /\ UNCHANGED <<sent, box>>

Next == Send \/ Put \/ Obey

Spec == Init /\ [][Next]_<<sent, box, done>>
=============================================================================
