----------------------------- MODULE HazardZone -----------------------------
(***************************************************************************)
(* The zone, from four clicked points to the decision whether somebody is  *)
(* outside it.  Coordinates and limits are in hundredths of the picture's  *)
(* width and height; quotients are rounded where the code prints them.     *)
(***************************************************************************)
EXTENDS Integers, Sequences, FiniteSets

\* A zone as diff_ditect keeps it: where its left and right edge meet the
\* top and the bottom of the picture.
Zone == [lt: Int, rt: Int, lb: Int, rb: Int]

DefaultZone == [lt |-> 25, rt |-> 75, lb |-> 25, rb |-> 75]
----------------------------------------------------------------------------
(* The server: /sethazard                                                  *)

\* OrderBy(p => p.y), which keeps the order of equal keys.
ByY(p) ==
  LET rank(a) == 1 + Cardinality({b \in 1 .. 4 : p[b].y < p[a].y \/ (p[b].y = p[a].y /\ b < a)})
  IN  [r \in 1 .. 4 |-> p[CHOOSE a \in 1 .. 4 : rank(a) = r]]

\* Mutant: the point clicked first is taken for the left one.
Left_first(p, q) == p

Left(p, q) == IF p.x < q.x THEN p ELSE q

Right(p, q) == IF p.x < q.x THEN q ELSE p

\* ToString("0.00") of num / den hundredths, den > 0 and num >= 0.
Rounded(num, den) == (2 * num + den) \div (2 * den)

\* p.x + h / d, where 1 / d is the edge's run over its rise from top to
\* bottom: the numerator, over bottom.y - top.y.
Along(p, h, top, bottom) == p.x * (bottom.y - top.y) + h * (bottom.x - top.x)

NotBelow(num, least) == IF num < least THEN least ELSE num
NotAbove(num, most)  == IF num > most THEN most ELSE num

\* Mutant: the left edge's lower end is measured from its upper point.
Limits_lb_from_lt(p) ==
  LET s  == ByY(p)
      lt == Left(s[1], s[2])   rt == Right(s[1], s[2])
      lb == Left(s[3], s[4])   rb == Right(s[3], s[4])
      dl == lb.y - lt.y        dr == rb.y - rt.y
  IN  [lt |-> Rounded(NotBelow(Along(lt, lt.y, lt, lb), 0), dl),
       lb |-> Rounded(NotBelow(Along(lt, 100 - lb.y, lt, lb), 0), dl),
       rt |-> Rounded(NotAbove(Along(rt, rt.y, rt, rb), 100 * dr), dr),
       rb |-> Rounded(NotAbove(Along(rt, 100 - rt.y, rt, rb), 100 * dr), dr)]

\* ltp, lbp, rtp and rbp.
Limits(p) ==
  LET s  == ByY(p)
      lt == Left(s[1], s[2])   rt == Right(s[1], s[2])
      lb == Left(s[3], s[4])   rb == Right(s[3], s[4])
      dl == lb.y - lt.y        dr == rb.y - rt.y
  IN  [lt |-> Rounded(NotBelow(Along(lt, lt.y, lt, lb), 0), dl),
       lb |-> Rounded(NotBelow(Along(lb, 100 - lb.y, lt, lb), 0), dl),
       rt |-> Rounded(NotAbove(Along(rt, rt.y, rt, rb), 100 * dr), dr),
       rb |-> Rounded(NotAbove(Along(rt, 100 - rt.y, rt, rb), 100 * dr), dr)]

(***************************************************************************)
(* Bound: the zones considered have two points strictly above the other    *)
(* two (else a slope is 0 and a limit infinite or no number) and limits    *)
(* from 0.00 to 9.99, which print as four characters.                      *)
(***************************************************************************)
WithinBounds(p) ==
  LET s == ByY(p)
  IN  /\ s[2].y < s[3].y
      /\ LET lt == Left(s[1], s[2])    lb == Left(s[3], s[4])
             rt == Right(s[1], s[2])   rb == Right(s[3], s[4])
         IN  /\ Along(lt, lt.y, lt, lb) <= 999 * (lb.y - lt.y)
             /\ Along(lb, 100 - lb.y, lt, lb) <= 999 * (lb.y - lt.y)
             /\ Along(rt, rt.y, rt, rb) >= 0 /\ Along(rt, 100 - rt.y, rt, rb) >= 0

\* "set LT LB RT RB", as numbers.
SetText(z) == <<z.lt, z.lb, z.rt, z.rb>>
----------------------------------------------------------------------------
(* The board                                                               *)

\* Mutant: fourteen bytes are stored, which are three numbers.
Stored_short(t) == SubSeq(t, 1, 3)

\* Sixteen bytes from buff + 4 are three numbers of four characters with
\* their blanks, and the first character of the fourth.
Stored(t) == [t EXCEPT ![4] = (@ \div 100) * 100]

\* fscanf reads the four numbers into LT, RT, LB and RB.
Scanned(t) == [lt |-> t[1], rt |-> t[2], lb |-> t[3], rb |-> t[4]]

\* The sign of x - (b + y / (t - b)) for an edge from b to t, with x and y
\* in hundredths too.
Side(x, y, t, b) ==
  IF t = b THEN x - b
  ELSE IF t > b THEN (x - b) * (t - b) - 100 * y
  ELSE 100 * y - (x - b) * (t - b)

\* main passes pixels, which count as whole numbers.
IsHazard(z, x, y) == Side(100 * x, 100 * y, z.lt, z.lb) < 0 \/ Side(100 * x, 100 * y, z.rt, z.rb) > 0
=============================================================================
