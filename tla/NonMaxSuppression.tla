-------------------------- MODULE NonMaxSuppression --------------------------
(***************************************************************************)
(* The post-processing of face_detect: which of the model's boxes count,   *)
(* and how boxes that overlap become one.  A box has its centre x, y and   *)
(* its size w, h in hundredths of the region searched, and a score in      *)
(* quarters.  What the code divides is kept as a numerator.                *)
(***************************************************************************)
EXTENDS Integers, Sequences, FiniteSets, Functions

Box == [x: Int, y: Int, w: Int, h: Int, score: Int]

\* Which of the network's boxes count: below kMinScoreThresh (0.75) or with
\* a negative size a box is dropped.
Tensors2Detections(raw) == {b \in raw : b.score >= 3 /\ b.w >= 0 /\ b.h >= 0}

\* The orders std::sort may give: scores descend, equal ones either way.
SortedOrders(bb) ==
  LET N == 1 .. Len(bb)
  IN  {[k \in N |-> bb[f[k]]] :
         f \in {f \in Injection(N, N) : \A a, b \in N : a < b => bb[f[a]].score >= bb[f[b]].score}}

Larger(a, b)  == IF a > b THEN a ELSE b
Smaller(a, b) == IF a < b THEN a ELSE b

\* The common width and height of two boxes, doubled.
IntersectRect(p, q) ==
  [w |-> Smaller(2 * p.x + p.w, 2 * q.x + q.w) - Larger(2 * p.x - p.w, 2 * q.x - q.w),
   h |-> Smaller(2 * p.y + p.h, 2 * q.y + q.h) - Larger(2 * p.y - p.h, 2 * q.y - q.h)]

\* OverlapSimilarity(p, q) > kMinSuppressionThreshold (0.3).
Overlap(p, q) ==
  LET common == IntersectRect(p, q)
      area   == common.w * common.h
      norm   == 4 * p.w * p.h + 4 * q.w * q.h - area
  IN  common.w > 0 /\ common.h > 0 /\ norm > 0 /\ 10 * area > 3 * norm

(***************************************************************************)
(* The mean of the boxes numbered in C, weighted by their scores.  x and y *)
(* are over 4 * den, w and h over 2 * den.  The lower edge is summed from  *)
(* x and w, as in the code.                                                *)
(***************************************************************************)
Weighted(bb, C) ==
  LET sum(term(_)) == SumFunction([c \in C |-> term(bb[c]) * bb[c].score])
      xmin == sum(LAMBDA b : 2 * b.x - b.w)
      ymin == sum(LAMBDA b : 2 * b.y - b.h)
      xmax == sum(LAMBDA b : 2 * b.x + b.w)
      ymax == xmax
  IN  [x |-> xmin + xmax, y |-> ymin + ymax, w |-> xmax - xmin, h |-> ymax - ymin,
       den |-> sum(LAMBDA b : 1)]

\* A box by itself, in the same form.
Alone(b) == [x |-> 4 * b.x, y |-> 4 * b.y, w |-> 2 * b.w, h |-> 2 * b.h, den |-> 1]

\* The first of the boxes left: the sorted boxes are known by their places.
Best(remained, best) == \A c \in remained : best <= c

\* The boxes left, remained, that the box best takes.
Candidates(bb, remained, best) == {c \in remained : Overlap(bb[c], bb[best])}

\* What one turn puts out: the best box itself if it takes none.
TurnResult(bb, C, best) == IF C = {} THEN Alone(bb[best]) ELSE Weighted(bb, C)

\* Mutant: only the best box leaves.
TurnLeaves_others(remained, C) == {c \in remained : \E b \in remained : b < c}

\* What it leaves.  A box without an area does not even overlap itself and
\* ends the loop.
TurnLeaves(remained, C) == IF C = {} THEN {} ELSE remained \ C
=============================================================================
