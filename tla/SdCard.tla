------------------------------- MODULE SdCard -------------------------------
(***************************************************************************)
(* The three files through which the applications talk, on the FAT volume  *)
(* /mnt/sd0.  web_source writes all of them, diff_ditect reads them and    *)
(* removes switch.ini.  fopen(.., "w") truncates the directory entry at    *)
(* once; what is written sits in the stdio buffer and in the open file     *)
(* until fclose, when data and size reach the card.  Unlinking an open     *)
(* file is not deferred: the writer keeps writing clusters of a file that  *)
(* no directory names.                                                     *)
(***************************************************************************)
EXTENDS Naturals

VARIABLES
  switch_ini,    \* CONFIG/switch.ini: directory entry and data clusters
  switch_wr,     \* web_source's stream on it
  switch_rd,     \* diff_ditect's stream on it
  hazard_ini,    \* CONFIG/hazard.ini
  uyvy           \* PIC/uyvy.yuv, the background picture

cardVars == <<switch_ini, switch_wr, switch_rd, hazard_ini, uyvy>>

\* A command as switch.ini holds it; id is the request that caused it.
\* "junk" is any text that is neither "on" nor "off".
Content == [cmd: {"on", "off", "junk"}, id: Nat]

CardTypeOK ==
  /\ switch_ini \in [entry: {"absent", "empty", "full"}, data: Content]
  /\ switch_wr \in {"closed", "linked", "orphan"}
  /\ switch_rd \in [open: {"no", "empty", "full"}, data: Content]
  /\ hazard_ini \in {"absent", "empty", "full"}
  /\ uyvy \in {"absent", "empty", "frame", "junk"}

NoContent == [cmd |-> "junk", id |-> 0]

\* The card as it was left by an earlier session; switch.ini may be there,
\* and by hand it may say "off".
CardInit ==
  /\ switch_ini \in [entry: {"absent", "full"},
                     data: [cmd: {"on", "off"}, id: {0}]]
  /\ switch_wr = "closed"
  /\ switch_rd = [open |-> "no", data |-> NoContent]
  /\ hazard_ini \in {"absent", "full"}
  /\ uyvy \in {"absent", "frame"}

fopen_switch_w ==
  /\ switch_ini' = [switch_ini EXCEPT !.entry = "empty"]
  /\ switch_wr' = "linked"
  /\ UNCHANGED <<switch_rd, hazard_ini, uyvy>>

fclose_switch_w(c) ==
  /\ switch_ini' = IF switch_wr = "linked"
                   THEN [entry |-> "full", data |-> c]
                   ELSE switch_ini
  /\ switch_wr' = "closed"
  /\ UNCHANGED <<switch_rd, hazard_ini, uyvy>>

\* The stream keeps the size it found in the directory entry.
fopen_switch_r ==
  /\ switch_ini.entry # "absent"
  /\ switch_rd' = [open |-> switch_ini.entry, data |-> switch_ini.data]
  /\ UNCHANGED <<switch_ini, switch_wr, hazard_ini, uyvy>>

\* What fread can return: nothing from a file that was empty at fopen, else
\* the clusters of then, old bytes or the ones a writer has put there since.
ReadableSwitch == IF switch_rd.open = "full"
                  THEN {switch_rd.data, switch_ini.data}
                  ELSE {}

fclose_switch_r ==
  /\ switch_rd' = [switch_rd EXCEPT !.open = "no"]
  /\ UNCHANGED <<switch_ini, switch_wr, hazard_ini, uyvy>>

remove_switch ==
  /\ switch_ini' = [switch_ini EXCEPT !.entry = "absent"]
  /\ switch_wr' = IF switch_wr = "linked" THEN "orphan" ELSE switch_wr
  /\ UNCHANGED <<switch_rd, hazard_ini, uyvy>>

\* Power is gone: open streams with it, what was not closed is not there.
CardPowerLoss ==
  /\ switch_wr' = "closed"
  /\ switch_rd' = [switch_rd EXCEPT !.open = "no"]
  /\ UNCHANGED <<switch_ini, hazard_ini, uyvy>>
=============================================================================
