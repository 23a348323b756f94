------------------------- MODULE MCSerialTransfer -------------------------
(* SerialTransfer for TLC: all pictures of up to MaxLength bytes from a    *)
(* few that matter to the packing.                                         *)
EXTENDS SerialTransfer

\* 95 is the first of the seven-bit values moved over the gap, 94 the last
\* below it (with its eighth bit: 222), 255 the largest.
Values == {95, 222, 255}

UpTo(n) == UNION {[1 .. l -> Values] : l \in 0 .. n}

ShortImages == UpTo(3) \cup [1 .. 7 -> Values]

\* Two whole blocks, and a whole block with a shorter one.
LongImages == {[j \in 1 .. l |-> IF j <= 7 THEN 95 ELSE v[((j - 1) % 3) + 1]] :
                 l \in 8 .. 15, v \in [1 .. 3 -> Values]}

AllImages == ShortImages \cup LongImages
=============================================================================
