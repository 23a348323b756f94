-------------------------- MODULE SerialTransfer --------------------------
(***************************************************************************)
(* One JPEG on its way over the serial line: web_source packs blocks of    *)
(* seven bytes into eight printable ones and ends with "EndOfFile" and a   *)
(* NUL; the server collects what arrives until it ends with that word, and *)
(* unpacks it.                                                             *)
(*                                                                         *)
(* The line loses, repeats and reorders nothing: m_buffer[0 .. size - 1]   *)
(* is always the first size bytes of what was written.                     *)
(***************************************************************************)
EXTENDS Naturals, Sequences

CONSTANTS
  Images,  \* the pictures that may be sent
  Slow     \* may the line be silent for 1.5 s before all is written?

Byte == 0 .. 255

ASSUME TransferAssumption == Images \subseteq Seq(Byte) /\ Slow \in BOOLEAN

VARIABLES
  jpeg,      \* the picture: mem + YUVSIZE, jpgLen bytes
  sender,    \* web_source: "send" or "sent"
  i,         \* blocks written
  wire,      \* every byte written so far
  receiver,  \* the server: "wait", "check", "decode", "done" or "dead"
  size,      \* bytes in m_buffer
  k,         \* blocks unpacked
  res        \* the bytes unpacked

vars == <<jpeg, sender, i, wire, receiver, size, k, res>>

Init ==
  /\ jpeg \in Images
  /\ sender = "send" /\ i = 0 /\ wire = <<>>
  /\ receiver = "wait" /\ size = 0 /\ k = 0 /\ res = <<>>
----------------------------------------------------------------------------
(* Packing                                                                 *)

\* "EndOfFile" and its NUL
EndOfFile == <<69, 110, 100, 79, 102, 70, 105, 108, 101, 0>>

\* Mutant: the gap of the control characters is not skipped.
Printable_no_gap(v) == v + 32

\* Seven bits to a byte outside the control characters.
Printable(v) == IF v + 32 >= 127 THEN v + 65 ELSE v + 32

\* The place of byte j's eighth bit in the appended byte.
Weight == <<64, 32, 16, 8, 4, 2, 1>>

\* wSize - 1
BlockLength(b) == IF Len(jpeg) - 7 * b > 7 THEN 7 ELSE Len(jpeg) - 7 * b

HighBit(b, j) == IF j <= BlockLength(b) THEN (jpeg[7 * b + j] \div 128) * Weight[j] ELSE 0

append(b) ==
  HighBit(b, 1) + HighBit(b, 2) + HighBit(b, 3) + HighBit(b, 4)
    + HighBit(b, 5) + HighBit(b, 6) + HighBit(b, 7)

wbuf(b) ==
  [j \in 1 .. BlockLength(b) + 1 |->
     IF j <= BlockLength(b) THEN Printable(jpeg[7 * b + j] % 128) ELSE Printable(append(b))]

WriteBlock ==
  /\ sender = "send"
  /\ 7 * i < Len(jpeg)
  /\ wire' = wire \o wbuf(i)
  /\ i' = i + 1
  /\ UNCHANGED <<jpeg, sender, receiver, size, k, res>>

\* Mutant: the word without its NUL.
WriteEnd_without_NUL ==
  /\ sender = "send"
  /\ 7 * i >= Len(jpeg)
  /\ wire' = wire \o SubSeq(EndOfFile, 1, 9)
  /\ sender' = "sent"
  /\ UNCHANGED <<jpeg, i, receiver, size, k, res>>

WriteEnd ==
  /\ sender = "send"
  /\ 7 * i >= Len(jpeg)
  /\ wire' = wire \o EndOfFile
  /\ sender' = "sent"
  /\ UNCHANGED <<jpeg, i, receiver, size, k, res>>
----------------------------------------------------------------------------
(* Unpacking                                                               *)

\* The server reads after 1.5 s of silence, and after a first read that was
\* too early at any time: a part of what was written, or all of it.
ServerReadsPart ==
  /\ Slow
  /\ receiver = "wait"
  /\ size' \in size .. Len(wire)
  /\ receiver' = "check"
  /\ UNCHANGED <<jpeg, sender, i, wire, k, res>>

ServerReadsAll ==
  /\ receiver = "wait"
  /\ sender = "sent"
  /\ size' = Len(wire)
  /\ receiver' = "check"
  /\ UNCHANGED <<jpeg, sender, i, wire, k, res>>

ServerReads == ServerReadsPart \/ ServerReadsAll

\* Mutant: the NUL is not looked for.
isEnd_without_NUL == \A j \in 1 .. 9 : wire[size - 9 + j] = EndOfFile[j]

isEnd == \A j \in 1 .. 10 : wire[size - 10 + j] = EndOfFile[j]

\* Mutant: ten bytes are taken for the end, whatever they are.
CheckEnd_unread ==
  /\ receiver = "check"
  /\ receiver' = IF size < 10 THEN "dead" ELSE "decode"
  /\ UNCHANGED <<jpeg, sender, i, wire, size, k, res>>

\* With fewer than ten bytes isEnd looks in front of the buffer; the
\* exception ends Run.
CheckEnd ==
  /\ receiver = "check"
  /\ receiver' = IF size < 10 THEN "dead" ELSE IF isEnd THEN "decode" ELSE "wait"
  /\ UNCHANGED <<jpeg, sender, i, wire, size, k, res>>

\* Mutant: the skipped gap is not taken back.
Unprintable_no_gap(c) == c - 32

\* Only characters of the packed text and of the end word reach it.
Unprintable(c) == IF c - 32 >= 127 THEN c - 65 ELSE c - 32

\* len: the end word counts as part of the last block.
DecodeLength(b) == IF size - 8 * b > 8 THEN 8 ELSE size - 8 * b

DecodedBlock(b) ==
  LET a_byte == Unprintable(wire[8 * b + DecodeLength(b)])
  IN  [j \in 1 .. DecodeLength(b) - 1 |->
         Unprintable(wire[8 * b + j]) + 128 * ((a_byte \div Weight[j]) % 2)]

DecodeBlock ==
  /\ receiver = "decode"
  /\ 8 * k < size - 10
  /\ res' = res \o DecodedBlock(k)
  /\ k' = k + 1
  /\ UNCHANGED <<jpeg, sender, i, wire, receiver, size>>

Reply ==
  /\ receiver = "decode"
  /\ 8 * k >= size - 10
  /\ receiver' = "done"
  /\ UNCHANGED <<jpeg, sender, i, wire, size, k, res>>
----------------------------------------------------------------------------
Next == WriteBlock \/ WriteEnd \/ ServerReads \/ CheckEnd \/ DecodeBlock \/ Reply

Spec == Init /\ [][Next]_vars

\* web_source writes on, the server's loop waits only for time to pass, and
\* the line delivers: a server that reads again and again reads the rest.
FairSpec ==
  /\ Spec
  /\ WF_vars(WriteBlock) /\ WF_vars(WriteEnd)
  /\ SF_vars(ServerReadsAll)
  /\ WF_vars(CheckEnd) /\ WF_vars(DecodeBlock) /\ WF_vars(Reply)

\* The characters of the packed picture: no control character, which a
\* terminal driver could act on, is among them.
Packed == 32 .. 126 \cup 160 .. 192

\* The types: all that web_source writes is packed text and one NUL, and
\* what the server unpacks are bytes.
TypeOK ==
  /\ jpeg \in Images
  /\ sender \in {"send", "sent"}
  /\ i \in Nat
  /\ wire \in Seq(Packed \cup {0})
  /\ receiver \in {"wait", "check", "decode", "done", "dead"}
  /\ size \in Nat
  /\ k \in Nat
  /\ res \in Seq(Byte)

(***************************************************************************)
(* The server takes the picture for complete only when it is: whatever the *)
(* picture's bytes and however the reads cut the stream, isEnd finds the   *)
(* end word nowhere but at the end.                                        *)
(***************************************************************************)
EndsWhole == receiver \in {"decode", "done"} => sender = "sent" /\ size = Len(wire)

(***************************************************************************)
(* The picture the server answers with has the sender's bytes in all whole *)
(* blocks of seven, and one whole block in place of a last shorter one:    *)
(* len of the last block is taken from a size that includes the end word,  *)
(* so that the eighth bits of its bytes come from the end word.            *)
(***************************************************************************)
PictureReceived ==
  receiver = "done" =>
    /\ Len(res) = 7 * ((Len(jpeg) + 6) \div 7)
    /\ \A q \in 1 .. 7 * (Len(jpeg) \div 7) : res[q] = jpeg[q]

(* Why they hold.  The line holds packed blocks and then the end word, and *)
(* a whole block is where its number says.                                 *)

Written == IF 7 * i <= Len(jpeg) THEN 8 * i ELSE Len(jpeg) + i

LineInv ==
  /\ i > 0 => 7 * (i - 1) < Len(jpeg)
  /\ sender = "sent" => 7 * i >= Len(jpeg)
  /\ Len(wire) = IF sender = "sent" THEN Written + 10 ELSE Written
  /\ \A p \in 1 .. Written : wire[p] \in Packed
  /\ sender = "sent" => \A j \in 1 .. 10 : wire[Written + j] = EndOfFile[j]
  /\ \A b \in 0 .. i - 1 :
       7 * (b + 1) <= Len(jpeg) => \A j \in 1 .. 8 : wire[8 * b + j] = wbuf(b)[j]

ReadInv ==
  /\ size <= Len(wire)
  /\ EndsWhole
  /\ ~Slow /\ receiver # "wait" => sender = "sent" /\ size = Len(wire)

UnpackInv ==
  /\ Len(res) = 7 * k
  /\ k > 0 => receiver \in {"decode", "done"} /\ 8 * (k - 1) < size - 10
  /\ receiver = "done" => 8 * k >= size - 10
  /\ \A b \in 0 .. k - 1 :
       7 * (b + 1) <= Len(jpeg) => \A j \in 1 .. 7 : res[7 * b + j] = jpeg[7 * b + j]

TransferInv == LineInv /\ ReadInv /\ UnpackInv

(***************************************************************************)
(* A server that has ten bytes of the picture comes to its answer, however *)
(* many reads it takes: isEnd no longer looks in front of the buffer, and  *)
(* sees the end word when all has arrived.  (With fewer it may be dead.)   *)
(***************************************************************************)
PictureArrives == size >= 10 ~> receiver = "done"

(***************************************************************************)
(* Seen from outside the transfer is the board's view of it: the server    *)
(* answers only when web_source has written the whole picture.             *)
(***************************************************************************)
LinkTx ==
  IF receiver = "done" THEN "none"
  ELSE IF sender = "sent" THEN "all"
  ELSE IF i > 0 THEN "some" ELSE "none"

LinkServer ==
  IF receiver = "done" THEN "idle" ELSE IF receiver = "dead" THEN "dead" ELSE "camera"

Link == INSTANCE PictureLink WITH tx <- LinkTx, server <- LinkServer, slow <- Slow

LinkSpec == Link!Spec
=============================================================================
