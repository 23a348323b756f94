----------------------- MODULE SerialTransferProofs -----------------------
(***************************************************************************)
(* The picture on the serial line, for pictures of any length and content  *)
(* and for reads at any moment: what is on the line, where the end word    *)
(* can be found, and which bytes arrive.                                   *)
(***************************************************************************)
EXTENDS SerialTransfer, TLAPS

SevenBits == 0 .. 127

----------------------------------------------------------------------------
(* The codec                                                               *)

\* Seven bits become a packed character, and the same seven bits again.
LEMMA PrintableInverse ==
  ASSUME NEW v \in SevenBits
  PROVE  Printable(v) \in Packed /\ Unprintable(Printable(v)) = v
BY DEF SevenBits, Packed, Printable, Unprintable

\* A packed character stands for seven bits.
LEMMA UnprintableType ==
  ASSUME NEW c \in Packed
  PROVE  Unprintable(c) \in SevenBits
BY DEF SevenBits, Packed, Unprintable

\* A byte is its low seven bits and its eighth.
LEMMA ByteSplit ==
  ASSUME NEW v \in Byte
  PROVE  /\ v % 128 \in SevenBits
         /\ v \div 128 \in {0, 1}
         /\ v = (v % 128) + 128 * (v \div 128)
BY DEF Byte, SevenBits

\* Seven bits with their weights.
Weighted(b1, b2, b3, b4, b5, b6, b7) ==
  64 * b1 + 32 * b2 + 16 * b3 + 8 * b4 + 4 * b5 + 2 * b6 + b7

\* They are found again by their weights.
LEMMA BitsInverse ==
  ASSUME NEW b1 \in {0, 1}, NEW b2 \in {0, 1}, NEW b3 \in {0, 1}, NEW b4 \in {0, 1},
         NEW b5 \in {0, 1}, NEW b6 \in {0, 1}, NEW b7 \in {0, 1}
  PROVE  LET a == Weighted(b1, b2, b3, b4, b5, b6, b7)
         IN  /\ a \in SevenBits
             /\ (a \div 64) % 2 = b1
             /\ (a \div 32) % 2 = b2
             /\ (a \div 16) % 2 = b3
             /\ (a \div 8) % 2 = b4
             /\ (a \div 4) % 2 = b5
             /\ (a \div 2) % 2 = b6
             /\ (a \div 1) % 2 = b7
<1> DEFINE a == Weighted(b1, b2, b3, b4, b5, b6, b7)
<1> USE DEF Weighted
<1>1. a \in SevenBits BY DEF SevenBits
<1>2. (a \div 64) % 2 = b1 OBVIOUS
<1>3. (a \div 32) % 2 = b2 OBVIOUS
<1>4. (a \div 16) % 2 = b3 OBVIOUS
<1>5. (a \div 8) % 2 = b4 OBVIOUS
<1>6. (a \div 4) % 2 = b5 OBVIOUS
<1>7. (a \div 2) % 2 = b6 OBVIOUS
<1>8. (a \div 1) % 2 = b7 OBVIOUS
<1> HIDE DEF Weighted
<1> QED BY <1>1, <1>2, <1>3, <1>4, <1>5, <1>6, <1>7, <1>8

\* A function on 1 .. n is a sequence of length n.
LEMMA TableIsSequence ==
  ASSUME NEW S, NEW n \in Nat, NEW f \in [1 .. n -> S]
  PROVE  f \in Seq(S) /\ Len(f) = n
OBVIOUS

\* q is r, of length n, with d, of length m, behind it.
Joined(q, r, d, n, m) ==
  /\ Len(q) = n + m
  /\ \A p \in 1 .. n : q[p] = r[p]
  /\ \A p \in 1 .. m : q[n + p] = d[p]

\* Which is what \o makes of two sequences.
LEMMA ConcatJoins ==
  ASSUME NEW S, NEW r \in Seq(S), NEW d \in Seq(S)
  PROVE  r \o d \in Seq(S) /\ Joined(r \o d, r, d, Len(r), Len(d))
BY DEF Joined

\* The eighth bit of byte j of block b, 0 behind a short block's end.
Bit(b, j) == IF j <= BlockLength(b) THEN jpeg[7 * b + j] \div 128 ELSE 0

\* What web_source writes for a block, and what the appended byte holds.
LEMMA BlockPacked ==
  ASSUME jpeg \in Seq(Byte), NEW b \in Nat, 7 * b < Len(jpeg)
  PROVE  /\ BlockLength(b) \in 1 .. 7
         /\ wbuf(b) \in Seq(Packed)
         /\ Len(wbuf(b)) = BlockLength(b) + 1
         /\ append(b) \in SevenBits
         /\ \A j \in 1 .. 7 : (append(b) \div Weight[j]) % 2 = Bit(b, j)
<1>1. BlockLength(b) \in 1 .. 7 /\ 7 * b + BlockLength(b) <= Len(jpeg)
  <2>1. Len(jpeg) \in Nat OBVIOUS
  <2>2. CASE Len(jpeg) - 7 * b > 7
    <3>1. BlockLength(b) = 7 BY <2>2 DEF BlockLength
    <3> QED BY <2>1, <2>2, <3>1
  <2>3. CASE ~(Len(jpeg) - 7 * b > 7)
    <3>1. BlockLength(b) = Len(jpeg) - 7 * b BY <2>3 DEF BlockLength
    <3> QED BY <2>1, <2>3, <3>1
  <2> QED BY <2>2, <2>3
<1>2. \A j \in 1 .. BlockLength(b) : jpeg[7 * b + j] \in Byte
  <2> TAKE j \in 1 .. BlockLength(b)
  <2>1. 7 * b + j \in 1 .. Len(jpeg) BY <1>1
  <2> QED BY <2>1
<1>3. \A j \in 1 .. 7 : Bit(b, j) \in {0, 1}
  BY <1>1, <1>2, ByteSplit DEF Bit
<1>4. \A j \in 1 .. 7 : HighBit(b, j) = Bit(b, j) * Weight[j]
  BY <1>1, <1>3 DEF HighBit, Bit, Weight
<1>5. append(b) = Weighted(Bit(b, 1), Bit(b, 2), Bit(b, 3), Bit(b, 4), Bit(b, 5), Bit(b, 6),
                           Bit(b, 7))
  <2> HIDE DEF Bit, HighBit
  <2> QED BY <1>3, <1>4 DEF append, Weight, Weighted
<1>6. /\ append(b) \in SevenBits
      /\ \A j \in 1 .. 7 : (append(b) \div Weight[j]) % 2 = Bit(b, j)
  <2> HIDE DEF Bit, append
  <2>1. /\ append(b) \in SevenBits
        /\ (append(b) \div 64) % 2 = Bit(b, 1)
        /\ (append(b) \div 32) % 2 = Bit(b, 2)
        /\ (append(b) \div 16) % 2 = Bit(b, 3)
        /\ (append(b) \div 8) % 2 = Bit(b, 4)
        /\ (append(b) \div 4) % 2 = Bit(b, 5)
        /\ (append(b) \div 2) % 2 = Bit(b, 6)
        /\ (append(b) \div 1) % 2 = Bit(b, 7)
    <3>1. /\ Bit(b, 1) \in {0, 1} /\ Bit(b, 2) \in {0, 1} /\ Bit(b, 3) \in {0, 1}
          /\ Bit(b, 4) \in {0, 1} /\ Bit(b, 5) \in {0, 1} /\ Bit(b, 6) \in {0, 1}
          /\ Bit(b, 7) \in {0, 1}
      BY <1>3
    <3> QED BY <1>5, <3>1, BitsInverse
  <2>2. ASSUME NEW j \in 1 .. 7 PROVE (append(b) \div Weight[j]) % 2 = Bit(b, j)
    <3>1. j \in {1, 2, 3, 4, 5, 6, 7} OBVIOUS
    <3> QED BY <2>1, <3>1 DEF Weight
  <2> QED BY <2>1, <2>2
<1>7. \A j \in 1 .. BlockLength(b) + 1 : wbuf(b)[j] \in Packed
  <2> TAKE j \in 1 .. BlockLength(b) + 1
  <2>1. CASE j <= BlockLength(b)
    BY <1>1, <1>2, <2>1, ByteSplit, PrintableInverse DEF wbuf
  <2>2. CASE ~(j <= BlockLength(b))
    BY <1>1, <1>6, <2>2, PrintableInverse DEF wbuf
  <2> QED BY <2>1, <2>2
<1>8. wbuf(b) \in Seq(Packed) /\ Len(wbuf(b)) = BlockLength(b) + 1
  <2>1. wbuf(b) = [j \in 1 .. BlockLength(b) + 1 |-> wbuf(b)[j]]
    BY DEF wbuf
  <2> HIDE DEF wbuf
  <2>2. wbuf(b) \in [1 .. BlockLength(b) + 1 -> Packed] BY <1>7, <2>1
  <2> QED BY <1>1, <2>2
<1> QED BY <1>1, <1>6, <1>8

\* A whole block that arrives as it was written is unpacked to what it was.
LEMMA BlockArrives ==
  ASSUME jpeg \in Seq(Byte), NEW b \in Nat, 7 * (b + 1) <= Len(jpeg),
         DecodeLength(b) = 8, \A j \in 1 .. 8 : wire[8 * b + j] = wbuf(b)[j]
  PROVE  \A j \in 1 .. 7 : DecodedBlock(b)[j] = jpeg[7 * b + j]
<1>1. BlockLength(b) = 7 BY DEF BlockLength
<1>2. /\ append(b) \in SevenBits
      /\ \A j \in 1 .. 7 : (append(b) \div Weight[j]) % 2 = Bit(b, j)
  BY BlockPacked
<1>3. Unprintable(wire[8 * b + 8]) = append(b)
  <2>1. wire[8 * b + 8] = Printable(append(b)) BY <1>1 DEF wbuf
  <2> QED BY <1>2, <2>1, PrintableInverse
<1> TAKE j \in 1 .. 7
<1>4. jpeg[7 * b + j] \in Byte
  <2>1. 7 * b + j \in 1 .. Len(jpeg) OBVIOUS
  <2> QED BY <2>1
<1>5. Unprintable(wire[8 * b + j]) = jpeg[7 * b + j] % 128
  <2> j \in 1 .. 8 /\ j <= 7 OBVIOUS
  <2>1. wbuf(b)[j] = Printable(jpeg[7 * b + j] % 128)
    <3>1. BlockLength(b) + 1 = 8 BY <1>1
    <3> QED BY <1>1, <3>1 DEF wbuf
  <2>2. wire[8 * b + j] = wbuf(b)[j] OBVIOUS
  <2> QED BY <1>4, <2>1, <2>2, PrintableInverse, ByteSplit
<1>6. DecodedBlock(b)[j] = (jpeg[7 * b + j] % 128) + 128 * Bit(b, j)
  <2>1. DecodedBlock(b)[j] = Unprintable(wire[8 * b + j])
                               + 128 * ((Unprintable(wire[8 * b + 8]) \div Weight[j]) % 2)
    BY DEF DecodedBlock
  <2> QED BY <1>2, <1>3, <1>5, <2>1
<1> QED BY <1>1, <1>4, <1>6, ByteSplit DEF Bit

----------------------------------------------------------------------------
(* The transfer                                                            *)

\* The picture is a sequence of bytes throughout.
LEMMA JpegType == ASSUME TypeOK PROVE jpeg \in Seq(Byte) /\ Len(jpeg) \in Nat
<1>1. jpeg \in Seq(Byte) BY TransferAssumption DEF TypeOK
<1> QED BY <1>1

\* At the start all of it holds.
LEMMA InitInv == Init => TypeOK /\ TransferInv
<1> SUFFICES ASSUME Init PROVE TypeOK /\ TransferInv OBVIOUS
<1>1. TypeOK BY DEF Init, TypeOK
<1>2. Len(jpeg) \in Nat BY <1>1, JpegType
<1>3. Written = 0 BY <1>2 DEF Init, Written
<1>4. LineInv BY <1>2, <1>3 DEF Init, LineInv
<1>5. ReadInv /\ UnpackInv BY DEF Init, ReadInv, EndsWhole, UnpackInv
<1> QED BY <1>1, <1>4, <1>5 DEF TransferInv

\* web_source's blocks go behind what is there.
LEMMA WriteBlockInv ==
  ASSUME TypeOK, TransferInv, WriteBlock
  PROVE  TypeOK' /\ TransferInv'
<1>1. jpeg \in Seq(Byte) /\ Len(jpeg) \in Nat BY JpegType
<1>2. /\ i \in Nat /\ 7 * i < Len(jpeg) /\ sender = "send"
      /\ i' = i + 1 /\ wire' = wire \o wbuf(i)
      /\ UNCHANGED <<jpeg, sender, receiver, size, k, res>>
  BY DEF WriteBlock, TypeOK
<1>3. /\ BlockLength(i) \in 1 .. 7
      /\ wbuf(i) \in Seq(Packed) /\ Len(wbuf(i)) = BlockLength(i) + 1
  BY <1>1, <1>2, BlockPacked
<1>4. wire \in Seq(Packed \cup {0}) /\ Len(wire) = Written /\ Written = 8 * i
  BY <1>1, <1>2 DEF TypeOK, TransferInv, LineInv, Written
<1>5. wbuf(i) \in Seq(Packed \cup {0})
  <2>1. \A j \in 1 .. Len(wbuf(i)) : wbuf(i)[j] \in Packed \cup {0} BY <1>3
  <2> QED BY <1>3, <2>1
<1>6. /\ wire' \in Seq(Packed \cup {0})
      /\ Len(wire') = 8 * i + BlockLength(i) + 1
      /\ \A p \in 1 .. 8 * i : wire'[p] = wire[p]
      /\ \A j \in 1 .. BlockLength(i) + 1 : wire'[8 * i + j] = wbuf(i)[j]
  <2>1. /\ wire \o wbuf(i) \in Seq(Packed \cup {0})
        /\ Joined(wire \o wbuf(i), wire, wbuf(i), Len(wire), Len(wbuf(i)))
    BY <1>4, <1>5, ConcatJoins, Zenon
  <2>2. /\ wire' \in Seq(Packed \cup {0})
        /\ Joined(wire', wire, wbuf(i), 8 * i, BlockLength(i) + 1)
    BY <1>2, <1>3, <1>4, <2>1, Zenon
  <2>3. i \in Nat /\ BlockLength(i) \in Nat BY <1>2, <1>3
  <2> QED BY <2>2, <2>3 DEF Joined
<1>7. TypeOK' BY <1>2, <1>6 DEF TypeOK
<1>8. Written' = 8 * i + BlockLength(i) + 1
  <2>1. CASE Len(jpeg) - 7 * i > 7
    <3>1. BlockLength(i) = 7 BY <2>1 DEF BlockLength
    <3> QED BY <1>1, <1>2, <2>1, <3>1 DEF Written
  <2>2. CASE ~(Len(jpeg) - 7 * i > 7)
    <3>1. BlockLength(i) = Len(jpeg) - 7 * i BY <2>2 DEF BlockLength
    <3>2. CASE Len(jpeg) = 7 * (i + 1) BY <1>1, <1>2, <3>1, <3>2 DEF Written
    <3>3. CASE Len(jpeg) < 7 * (i + 1)
      <4>1. Written' = Len(jpeg) + (i + 1)
        <5>1. ~(7 * i' <= Len(jpeg')) BY <1>1, <1>2, <3>3
        <5> QED BY <1>2, <5>1 DEF Written
      <4> QED BY <1>1, <1>2, <3>1, <4>1
    <3> QED BY <1>1, <1>2, <2>2, <3>2, <3>3
  <2> QED BY <2>1, <2>2
<1>9. LineInv'
  <2>1. \A p \in 1 .. Written' : wire'[p] \in Packed
    <3> TAKE p \in 1 .. Written'
    <3>1. CASE p <= 8 * i
      BY <1>2, <1>4, <1>6, <3>1 DEF TransferInv, LineInv
    <3>2. CASE p > 8 * i
      <4>1. PICK j \in 1 .. BlockLength(i) + 1 : p = 8 * i + j
        <5>1. p - 8 * i \in 1 .. BlockLength(i) + 1 BY <1>2, <1>3, <1>8, <3>2
        <5> QED BY <1>2, <5>1
      <4>2. wire'[p] = wbuf(i)[j] BY <1>6, <4>1
      <4>3. wbuf(i)[j] \in Packed BY <1>3
      <4> QED BY <4>2, <4>3
    <3>3. p <= 8 * i \/ p > 8 * i BY <1>2, <1>3, <1>8
    <3> QED BY <3>1, <3>2, <3>3
  <2>2. ASSUME NEW b \in 0 .. i' - 1, 7 * (b + 1) <= Len(jpeg'), NEW j \in 1 .. 8
        PROVE  wire'[8 * b + j] = wbuf(b)'[j]
    <3>1. wbuf(b)' = wbuf(b) BY <1>2 DEF wbuf, append, HighBit, BlockLength
    <3>2. CASE b < i
      <4>1. 8 * b + j \in 1 .. 8 * i BY <1>2, <3>2
      <4>2. wire[8 * b + j] = wbuf(b)[j]
        <5>1. b \in 0 .. i - 1 /\ 7 * (b + 1) <= Len(jpeg) BY <1>2, <2>2, <3>2
        <5> QED BY <5>1 DEF TransferInv, LineInv
      <4> QED BY <1>6, <3>1, <4>1, <4>2
    <3>3. CASE b = i
      <4>1. Len(jpeg) - 7 * i >= 7 BY <1>1, <1>2, <2>2, <3>3
      <4>2. BlockLength(i) = 7 BY <1>1, <1>2, <4>1 DEF BlockLength
      <4>3. j \in 1 .. BlockLength(i) + 1 BY <4>2
      <4> QED BY <1>6, <3>1, <3>3, <4>3
    <3>4. b < i \/ b = i BY <1>2
    <3> QED BY <3>2, <3>3, <3>4
  <2>3. i' > 0 => 7 * (i' - 1) < Len(jpeg') BY <1>1, <1>2
  <2>4. Len(wire') = Written' /\ sender' # "sent" BY <1>2, <1>6, <1>8
  <2> QED BY <2>1, <2>2, <2>3, <2>4 DEF LineInv
<1>10. ReadInv'
  BY <1>2, <1>3, <1>4, <1>6 DEF TypeOK, TransferInv, ReadInv, EndsWhole
<1>11. UnpackInv' BY <1>2 DEF TransferInv, UnpackInv
<1> QED BY <1>7, <1>9, <1>10, <1>11 DEF TransferInv

\* The end word goes behind all blocks.
LEMMA WriteEndInv ==
  ASSUME TypeOK, TransferInv, WriteEnd
  PROVE  TypeOK' /\ TransferInv'
<1>1. jpeg \in Seq(Byte) /\ Len(jpeg) \in Nat BY JpegType
<1>2. /\ i \in Nat /\ 7 * i >= Len(jpeg) /\ sender = "send" /\ sender' = "sent"
      /\ wire' = wire \o EndOfFile
      /\ UNCHANGED <<jpeg, i, receiver, size, k, res>>
  BY DEF WriteEnd, TypeOK
<1>3. EndOfFile \in Seq(Packed \cup {0}) /\ Len(EndOfFile) = 10
  BY DEF EndOfFile, Packed
<1>4. wire \in Seq(Packed \cup {0}) /\ Len(wire) = Written /\ Written \in Nat
  BY <1>1, <1>2 DEF TypeOK, TransferInv, LineInv, Written
<1>5. /\ wire' \in Seq(Packed \cup {0})
      /\ Len(wire') = Written + 10
      /\ \A p \in 1 .. Written : wire'[p] = wire[p]
      /\ \A j \in 1 .. 10 : wire'[Written + j] = EndOfFile[j]
  <2>1. /\ wire \o EndOfFile \in Seq(Packed \cup {0})
        /\ Joined(wire \o EndOfFile, wire, EndOfFile, Len(wire), Len(EndOfFile))
    BY <1>3, <1>4, ConcatJoins, Zenon
  <2>2. wire' \in Seq(Packed \cup {0}) /\ Joined(wire', wire, EndOfFile, Written, 10)
    BY <1>2, <1>3, <1>4, <2>1, Zenon
  <2> QED BY <2>2 DEF Joined
<1>6. TypeOK' BY <1>2, <1>5 DEF TypeOK
<1>7. Written' = Written BY <1>2 DEF Written
<1>8. LineInv'
  <2>1. \A p \in 1 .. Written' : wire'[p] \in Packed
    BY <1>2, <1>5, <1>7 DEF TransferInv, LineInv
  <2>2. ASSUME NEW b \in 0 .. i' - 1, 7 * (b + 1) <= Len(jpeg'), NEW j \in 1 .. 8
        PROVE  wire'[8 * b + j] = wbuf(b)'[j]
    <3>1. wbuf(b)' = wbuf(b) BY <1>2 DEF wbuf, append, HighBit, BlockLength
    <3>2. b \in 0 .. i - 1 /\ 7 * (b + 1) <= Len(jpeg) BY <1>2, <2>2
    <3>3. wire[8 * b + j] = wbuf(b)[j] BY <3>2 DEF TransferInv, LineInv
    <3>4. 8 * b + j \in 1 .. Written BY <1>1, <1>2, <3>2 DEF Written
    <3> QED BY <1>5, <3>1, <3>3, <3>4
  <2>3. i' > 0 => 7 * (i' - 1) < Len(jpeg') BY <1>2 DEF TransferInv, LineInv
  <2> QED BY <1>2, <1>5, <1>7, <2>1, <2>2, <2>3 DEF LineInv
<1>9. ReadInv'
  BY <1>2, <1>4, <1>5 DEF TypeOK, TransferInv, ReadInv, EndsWhole
<1>10. UnpackInv' BY <1>2 DEF TransferInv, UnpackInv
<1> QED BY <1>6, <1>8, <1>9, <1>10 DEF TransferInv

\* What neither side writes keeps the line's part of the invariant.
LEMMA LineFrame == ASSUME LineInv, UNCHANGED <<jpeg, sender, i, wire>> PROVE LineInv'
<1>1. Written' = Written BY DEF Written
<1>2. \A b : wbuf(b)' = wbuf(b) BY DEF wbuf, append, HighBit, BlockLength
<1> QED BY <1>1, <1>2 DEF LineInv

\* A read takes what has been written.
LEMMA ServerReadsInv ==
  ASSUME TypeOK, TransferInv, ServerReads
  PROVE  TypeOK' /\ TransferInv'
<1>1. wire \in Seq(Packed \cup {0}) /\ Len(wire) \in Nat /\ size \in Nat /\ size <= Len(wire)
  BY DEF TypeOK, TransferInv, ReadInv
<1>2. size' \in Nat /\ size' <= Len(wire) BY <1>1 DEF ServerReads, ServerReadsPart, ServerReadsAll
<1>3. UNCHANGED <<jpeg, sender, i, wire, k, res>> /\ receiver = "wait" /\ receiver' = "check"
  BY DEF ServerReads, ServerReadsPart, ServerReadsAll
<1>4. TypeOK' BY <1>2, <1>3 DEF TypeOK
<1>5. LineInv' BY <1>3, LineFrame DEF TransferInv
<1>6. ReadInv'
  <2>1. Slow \/ (sender = "sent" /\ size' = Len(wire))
    BY DEF ServerReads, ServerReadsPart, ServerReadsAll
  <2> QED BY <1>2, <1>3, <2>1, TransferAssumption DEF ReadInv, EndsWhole
<1>7. UnpackInv' BY <1>3 DEF TransferInv, UnpackInv, TypeOK
<1> QED BY <1>4, <1>5, <1>6, <1>7 DEF TransferInv

\* The NUL of the end word is the only one on the line.
LEMMA EndIsTheEnd ==
  ASSUME TypeOK, TransferInv, size >= 10, isEnd
  PROVE  sender = "sent" /\ size = Len(wire)
<1>1. Len(jpeg) \in Nat /\ i \in Nat /\ Written \in Nat
  BY JpegType DEF TypeOK, Written
<1>2. size \in Nat /\ size <= Len(wire)
  BY DEF TypeOK, TransferInv, ReadInv
<1>3. wire[size] = 0
  <2>1. wire[size - 10 + 10] = EndOfFile[10] BY DEF isEnd
  <2> QED BY <1>2, <2>1 DEF EndOfFile
<1>4. size > Written
  <2>0. 0 \notin Packed BY DEF Packed
  <2>1. \A p \in 1 .. Written : wire[p] # 0 BY <2>0 DEF TransferInv, LineInv
  <2> QED BY <1>1, <1>2, <1>3, <2>1
<1>5. sender = "sent" /\ Len(wire) = Written + 10
  BY <1>1, <1>2, <1>4 DEF TypeOK, TransferInv, LineInv
<1>6. PICK j \in 1 .. 10 : size = Written + j
  <2>1. size - Written \in 1 .. 10 BY <1>1, <1>2, <1>4, <1>5
  <2> QED BY <1>1, <1>2, <2>1
<1>7. EndOfFile[j] = 0
  BY <1>3, <1>5, <1>6 DEF TransferInv, LineInv
<1>8. j = 10
  <2>1. j \in {1, 2, 3, 4, 5, 6, 7, 8, 9, 10} OBVIOUS
  <2> QED BY <1>7, <2>1 DEF EndOfFile
<1> QED BY <1>5, <1>6, <1>8

\* Whether the word is there or not, checking keeps the invariant.
LEMMA CheckEndInv ==
  ASSUME TypeOK, TransferInv, CheckEnd
  PROVE  TypeOK' /\ TransferInv'
<1>1. UNCHANGED <<jpeg, sender, i, wire, size, k, res>> /\ receiver = "check"
  BY DEF CheckEnd
<1>2. size \in Nat BY DEF TypeOK
<1>3. \/ receiver' \in {"dead", "wait"}
      \/ receiver' = "decode" /\ size >= 10 /\ isEnd
  BY <1>2 DEF CheckEnd
<1>4. TypeOK' BY <1>1, <1>3 DEF TypeOK
<1>5. LineInv' BY <1>1, LineFrame DEF TransferInv
<1>6. ReadInv' BY <1>1, <1>3, EndIsTheEnd DEF TransferInv, ReadInv, EndsWhole
<1>7. UnpackInv'
  <2>1. ~(k > 0) BY <1>1 DEF TransferInv, UnpackInv
  <2> QED BY <1>1, <1>3, <2>1 DEF TransferInv, UnpackInv
<1> QED BY <1>4, <1>5, <1>6, <1>7 DEF TransferInv

\* A block that is unpacked lies before the end word.
LEMMA DecodeBlockInv ==
  ASSUME TypeOK, TransferInv, DecodeBlock
  PROVE  TypeOK' /\ TransferInv'
<1>1. jpeg \in Seq(Byte) /\ Len(jpeg) \in Nat BY JpegType
<1>2. /\ k \in Nat /\ size \in Nat /\ i \in Nat /\ 8 * k < size - 10
      /\ receiver = "decode" /\ sender = "sent" /\ size = Len(wire)
      /\ k' = k + 1 /\ res' = res \o DecodedBlock(k)
      /\ UNCHANGED <<jpeg, sender, i, wire, receiver, size>>
  BY DEF DecodeBlock, TypeOK, TransferInv, ReadInv, EndsWhole
<1>3. /\ Written \in Nat /\ size = Written + 10 /\ 7 * i >= Len(jpeg)
      /\ i > 0 => 7 * (i - 1) < Len(jpeg)
  BY <1>1, <1>2 DEF TransferInv, LineInv, Written
<1>4. DecodeLength(k) = 8
  BY <1>2 DEF DecodeLength
<1>5. \A j \in 1 .. 8 : wire[8 * k + j] \in Packed \cup {0} /\ 8 * k + j \in 1 .. Len(wire) - 1
  <2> TAKE j \in 1 .. 8
  <2>1. 8 * k + j \in 1 .. Len(wire) - 1 BY <1>2
  <2>2. wire \in Seq(Packed \cup {0}) BY DEF TypeOK
  <2>3. wire[8 * k + j] \in Packed \cup {0} BY <2>1, <2>2
  <2> QED BY <2>1, <2>3
<1>6. \A j \in 1 .. 8 : wire[8 * k + j] \in Packed
  <2> TAKE j \in 1 .. 8
  <2>1. CASE 8 * k + j <= Written
    <3>1. 8 * k + j \in 1 .. Written BY <1>2, <1>3, <2>1
    <3> QED BY <3>1 DEF TransferInv, LineInv
  <2>2. CASE 8 * k + j > Written
    <3>1. PICK m \in 1 .. 9 : 8 * k + j = Written + m
      <4>1. 8 * k + j - Written \in 1 .. 9 BY <1>2, <1>3, <2>2
      <4> QED BY <1>2, <1>3, <4>1
    <3>2. wire[8 * k + j] = EndOfFile[m]
      <4>1. m \in 1 .. 10 OBVIOUS
      <4> QED BY <1>2, <3>1, <4>1 DEF TransferInv, LineInv
    <3>3. m \in {1, 2, 3, 4, 5, 6, 7, 8, 9} OBVIOUS
    <3>4. EndOfFile[m] \in Packed BY <3>3 DEF EndOfFile, Packed
    <3> QED BY <3>2, <3>4
  <2>3. 8 * k + j <= Written \/ 8 * k + j > Written BY <1>2, <1>3
  <2> QED BY <2>1, <2>2, <2>3
<1>7. DecodedBlock(k) \in Seq(Byte) /\ Len(DecodedBlock(k)) = 7
  <2>1. \A j \in 1 .. 7 : DecodedBlock(k)[j] \in Byte
    <3> TAKE j \in 1 .. 7
    <3>1. DecodedBlock(k)[j] = Unprintable(wire[8 * k + j])
                                 + 128 * ((Unprintable(wire[8 * k + 8]) \div Weight[j]) % 2)
      BY <1>4 DEF DecodedBlock
    <3>2. Unprintable(wire[8 * k + j]) \in SevenBits
      <4>1. j \in 1 .. 8 OBVIOUS
      <4> QED BY <1>6, <4>1, UnprintableType
    <3>3. Unprintable(wire[8 * k + 8]) \in SevenBits BY <1>6, UnprintableType
    <3>4. Weight[j] \in {64, 32, 16, 8, 4, 2, 1}
      <4>1. j \in {1, 2, 3, 4, 5, 6, 7} OBVIOUS
      <4> QED BY <4>1 DEF Weight
    <3>5. (Unprintable(wire[8 * k + 8]) \div Weight[j]) % 2 \in {0, 1}
      BY <3>3, <3>4 DEF SevenBits
    <3> QED BY <3>1, <3>2, <3>5 DEF SevenBits, Byte
  <2>2. DecodedBlock(k) = [j \in 1 .. 7 |-> DecodedBlock(k)[j]]
    BY <1>4 DEF DecodedBlock
  <2>3. DecodedBlock(k) \in [1 .. 7 -> Byte] BY <2>1, <2>2
  <2> HIDE DEF DecodedBlock
  <2> QED BY <2>3, TableIsSequence
<1>8. res \in Seq(Byte) /\ Len(res) = 7 * k BY DEF TypeOK, TransferInv, UnpackInv
<1>9. /\ res' \in Seq(Byte)
      /\ Len(res') = 7 * (k + 1)
      /\ \A p \in 1 .. 7 * k : res'[p] = res[p]
      /\ \A j \in 1 .. 7 : res'[7 * k + j] = DecodedBlock(k)[j]
  <2>1. /\ res \o DecodedBlock(k) \in Seq(Byte)
        /\ Joined(res \o DecodedBlock(k), res, DecodedBlock(k), Len(res), Len(DecodedBlock(k)))
    BY <1>7, <1>8, ConcatJoins, Zenon
  <2>2. res' \in Seq(Byte) /\ Joined(res', res, DecodedBlock(k), 7 * k, 7)
    BY <1>2, <1>7, <1>8, <2>1, Zenon
  <2>3. k \in Nat BY <1>2
  <2> QED BY <2>2, <2>3 DEF Joined
<1>10. TypeOK' BY <1>2, <1>9 DEF TypeOK
<1>11. LineInv' BY <1>2, LineFrame DEF TransferInv
<1>12. ReadInv' BY <1>2 DEF TransferInv, ReadInv, EndsWhole
<1>13. UnpackInv'
  <2>1. ASSUME NEW b \in 0 .. k' - 1, 7 * (b + 1) <= Len(jpeg'), NEW j \in 1 .. 7
        PROVE  res'[7 * b + j] = jpeg'[7 * b + j]
    <3>1. CASE b < k
      <4>1. b \in 0 .. k - 1 /\ 7 * (b + 1) <= Len(jpeg) BY <1>2, <2>1, <3>1
      <4>2. 7 * b + j \in 1 .. 7 * k BY <1>2, <3>1
      <4>3. res[7 * b + j] = jpeg[7 * b + j] BY <4>1 DEF TransferInv, UnpackInv
      <4> QED BY <1>2, <1>9, <4>2, <4>3
    <3>2. CASE b = k
      <4>1. 7 * (k + 1) <= Len(jpeg) BY <1>2, <2>1, <3>2
      <4>2. k \in 0 .. i - 1 BY <1>1, <1>2, <1>3, <4>1
      <4>3. \A l \in 1 .. 8 : wire[8 * k + l] = wbuf(k)[l]
        BY <4>1, <4>2 DEF TransferInv, LineInv
      <4>4. DecodedBlock(k)[j] = jpeg[7 * k + j]
        BY <1>1, <1>2, <1>4, <4>1, <4>3, BlockArrives
      <4> QED BY <1>2, <1>9, <3>2, <4>4
    <3>3. b < k \/ b = k BY <1>2
    <3> QED BY <3>1, <3>2, <3>3
  <2>2. k' > 0 => receiver' \in {"decode", "done"} /\ 8 * (k' - 1) < size' - 10
    BY <1>2
  <2>3. Len(res') = 7 * k' /\ receiver' # "done" BY <1>2, <1>9
  <2> QED BY <2>1, <2>2, <2>3 DEF UnpackInv
<1> QED BY <1>10, <1>11, <1>12, <1>13 DEF TransferInv

\* The answer is what was unpacked.
LEMMA ReplyInv ==
  ASSUME TypeOK, TransferInv, Reply
  PROVE  TypeOK' /\ TransferInv'
<1>1. /\ UNCHANGED <<jpeg, sender, i, wire, size, k, res>>
      /\ receiver = "decode" /\ receiver' = "done" /\ 8 * k >= size - 10
  BY DEF Reply
<1>2. TypeOK' BY <1>1 DEF TypeOK
<1>3. LineInv' BY <1>1, LineFrame DEF TransferInv
<1>4. ReadInv' BY <1>1 DEF TransferInv, ReadInv, EndsWhole
<1>5. UnpackInv' BY <1>1 DEF TransferInv, UnpackInv
<1> QED BY <1>2, <1>3, <1>4, <1>5 DEF TransferInv

(***************************************************************************)
(* The transfer's invariant: its types, and what lies where on the line.   *)
(***************************************************************************)
THEOREM TransferCorrect == Spec => [](TypeOK /\ TransferInv)
<1>1. TypeOK /\ TransferInv /\ [Next]_vars => (TypeOK /\ TransferInv)'
  <2> SUFFICES ASSUME TypeOK, TransferInv, [Next]_vars PROVE TypeOK' /\ TransferInv' OBVIOUS
  <2>1. CASE UNCHANGED vars
    <3>1. UNCHANGED <<jpeg, sender, i, wire, receiver, size, k, res>> BY <2>1 DEF vars
    <3>2. TypeOK' BY <3>1 DEF TypeOK
    <3>3. LineInv' BY <3>1, LineFrame DEF TransferInv
    <3>4. ReadInv' /\ UnpackInv' BY <3>1 DEF TransferInv, ReadInv, EndsWhole, UnpackInv
    <3> QED BY <3>2, <3>3, <3>4 DEF TransferInv
  <2> QED
    BY <2>1, WriteBlockInv, WriteEndInv, ServerReadsInv, CheckEndInv, DecodeBlockInv, ReplyInv
       DEF Next
<1> QED BY <1>1, InitInv, PTL DEF Spec

(***************************************************************************)
(* For every picture and every way the reads cut the stream, the server    *)
(* takes it for complete only when it has all of it (isEnd).               *)
(***************************************************************************)
THEOREM EndsOnlyWhole == Spec => []EndsWhole
<1>1. TransferInv => EndsWhole BY DEF TransferInv, ReadInv
<1> QED BY <1>1, TransferCorrect, PTL

(***************************************************************************)
(* Every whole block of seven bytes arrives as it was sent, and nothing    *)
(* but a last shorter block is lengthened (the two loops of the codec).    *)
(***************************************************************************)
THEOREM PictureCorrect == Spec => []PictureReceived
<1>1. TypeOK /\ TransferInv => PictureReceived
  <2> SUFFICES ASSUME TypeOK, TransferInv, receiver = "done"
               PROVE  /\ Len(res) = 7 * ((Len(jpeg) + 6) \div 7)
                      /\ \A q \in 1 .. 7 * (Len(jpeg) \div 7) : res[q] = jpeg[q]
    BY DEF PictureReceived
  <2>1. Len(jpeg) \in Nat /\ i \in Nat /\ k \in Nat /\ size \in Nat
    BY JpegType DEF TypeOK
  <2>2. sender = "sent" /\ size = Len(wire)
    BY DEF TransferInv, ReadInv, EndsWhole
  <2>3. /\ 7 * i >= Len(jpeg)
        /\ i > 0 => 7 * (i - 1) < Len(jpeg)
        /\ size = Written + 10
    BY <2>2 DEF TransferInv, LineInv
  <2>4. /\ Len(res) = 7 * k
        /\ k > 0 => 8 * (k - 1) < size - 10
        /\ 8 * k >= size - 10
    BY DEF TransferInv, UnpackInv
  <2>5. Written = Len(jpeg) + i BY <2>1, <2>3 DEF Written
  <2>6. 7 * k >= Len(jpeg) /\ (k > 0 => 7 * (k - 1) < Len(jpeg))
    BY <2>1, <2>3, <2>4, <2>5
  <2>7. k = (Len(jpeg) + 6) \div 7 BY <2>1, <2>6
  <2>8. ASSUME NEW q \in 1 .. 7 * (Len(jpeg) \div 7) PROVE res[q] = jpeg[q]
    <3> DEFINE b == (q - 1) \div 7
    <3> DEFINE j == ((q - 1) % 7) + 1
    <3>1. b \in Nat /\ j \in 1 .. 7 /\ q = 7 * b + j BY <2>1
    <3>2. 7 * (b + 1) <= Len(jpeg) BY <2>1
    <3>3. b \in 0 .. k - 1 BY <2>1, <2>6, <3>1, <3>2
    <3> HIDE DEF b, j
    <3>4. res[7 * b + j] = jpeg[7 * b + j]
      BY <3>1, <3>2, <3>3 DEF TransferInv, UnpackInv
    <3> QED BY <3>1, <3>4
  <2> QED BY <2>4, <2>7, <2>8
<1> QED BY <1>1, TransferCorrect, PTL

(***************************************************************************)
(* Everything on the line and everything unpacked has its type.            *)
(***************************************************************************)
THEOREM TransferTypes == Spec => []TypeOK
BY TransferCorrect, PTL

\* A step of the sender is a write of the link, or invisible.
LEMMA SenderLinks ==
  ASSUME TypeOK, WriteBlock \/ WriteEnd
  PROVE  Link!WritesPart \/ Link!WritesRest \/ UNCHANGED <<LinkTx, LinkServer>>
<1>1. CASE WriteBlock
  BY <1>1 DEF WriteBlock, TypeOK, Link!WritesPart, LinkTx, LinkServer
<1>2. CASE WriteEnd
  BY <1>2 DEF WriteEnd, TypeOK, Link!WritesRest, LinkTx, LinkServer
<1> QED BY <1>1, <1>2

\* A step of the server is invisible, or gives up, or answers: by
\* EndsWhole only a whole picture is answered with.
LEMMA ReceiverLinks ==
  ASSUME TypeOK, TransferInv, ServerReads \/ CheckEnd \/ DecodeBlock \/ Reply
  PROVE  Link!GivesUp \/ Link!Answers \/ UNCHANGED <<LinkTx, LinkServer>>
<1>1. CASE ServerReads
  BY <1>1 DEF ServerReads, ServerReadsPart, ServerReadsAll, LinkTx, LinkServer
<1>2. CASE CheckEnd
  <2>1. ASSUME ~Slow PROVE size >= 10
    <3>1. receiver = "check" /\ Len(jpeg) \in Nat /\ i \in Nat
      BY <1>2, JpegType DEF CheckEnd, TypeOK
    <3>2. sender = "sent" /\ size = Len(wire)
      BY <2>1, <3>1 DEF TransferInv, ReadInv
    <3>3. Len(wire) = Written + 10
      BY <3>2 DEF TransferInv, LineInv
    <3>4. Written \in Nat
      BY <3>1 DEF Written
    <3> QED BY <3>2, <3>3, <3>4
  <2> QED BY <1>2, <2>1 DEF CheckEnd, TypeOK, LinkTx, LinkServer, Link!GivesUp
<1>3. CASE DecodeBlock
  BY <1>3 DEF DecodeBlock, LinkTx, LinkServer
<1>4. CASE Reply
  BY <1>4 DEF Reply, TransferInv, ReadInv, EndsWhole, LinkTx, LinkServer, Link!Answers
<1> QED BY <1>1, <1>2, <1>3, <1>4

(***************************************************************************)
(* The transfer, byte for byte, implements the exchange in three stages    *)
(* that the board's model uses for it.                                     *)
(***************************************************************************)
THEOREM TransferImplementsLink == Spec => LinkSpec
<1>1. Init => Link!Init
  BY DEF Init, Link!Init, LinkTx, LinkServer
<1>2. TypeOK /\ TransferInv /\ [Next]_vars => [Link!Next]_<<LinkTx, LinkServer>>
  <2> SUFFICES ASSUME TypeOK, TransferInv, [Next]_vars
               PROVE  Link!Next \/ UNCHANGED <<LinkTx, LinkServer>>
    OBVIOUS
  <2>1. CASE WriteBlock \/ WriteEnd
    BY <2>1, SenderLinks DEF Link!Next
  <2>2. CASE ServerReads \/ CheckEnd \/ DecodeBlock \/ Reply
    BY <2>2, ReceiverLinks DEF Link!Next
  <2>3. CASE UNCHANGED vars
    BY <2>3 DEF vars, LinkTx, LinkServer
  <2> QED BY <2>1, <2>2, <2>3 DEF Next
<1> QED BY <1>1, <1>2, TransferCorrect, PTL DEF Spec, LinkSpec, Link!Spec
=============================================================================
