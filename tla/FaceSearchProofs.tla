-------------------------- MODULE FaceSearchProofs --------------------------
(***************************************************************************)
(* Proofs for FaceDetect: what non-maximum suppression puts out, where the *)
(* face is taken to be and which region is searched next.                  *)
(***************************************************************************)
EXTENDS FaceDetectProofs, FiniteSums

\* What a turn puts out.
Result == [x: Int, y: Int, w: Int, h: Int, den: Nat \ {0}]

\* The edges of a box that counts lie within eight regions of the region's
\* corner (in half hundredths of the region).  The code does not bound what
\* the network puts out.
BoxesNear ==
  \A b \in Counted : \A e \in {2 * b.x - b.w, 2 * b.x + b.w, 2 * b.y - b.h, 2 * b.y + b.h} :
    -1600 <= e /\ e <= 1600

\* What this means for a result.
NearResult(r) ==
  /\ -3200 * r.den <= r.x /\ r.x <= 3200 * r.den
  /\ -3200 * r.den <= r.y /\ r.y <= 3200 * r.den
  /\ r.w >= 0 /\ r.h >= -3200 * r.den
----------------------------------------------------------------------------
(* The weighted mean.                                                      *)

LEMMA ProductMonotone == \A a, b, s \in Int : s > 0 /\ a <= b => a * s <= b * s
OBVIOUS

\* One of the sums: its terms times the scores, against a bound times the
\* sum of the scores.
LEMMA WeightedSum ==
  ASSUME NEW C, IsFiniteSet(C), NEW s \in [C -> Int], \A c \in C : s[c] > 0,
         NEW t \in [C -> Int], NEW k \in Int
  PROVE  /\ SumFunction([c \in C |-> t[c] * s[c]]) \in Int
         /\ (\A c \in C : t[c] <= k) => SumFunction([c \in C |-> t[c] * s[c]]) <= k * SumFunction(s)
         /\ (\A c \in C : k <= t[c]) => k * SumFunction(s) <= SumFunction([c \in C |-> t[c] * s[c]])
<1> DEFINE f == [c \in C |-> t[c] * s[c]]
           g == [c \in C |-> k * s[c]]
<1>1. f \in [C -> Int] /\ g \in [C -> Int]
  OBVIOUS
<1>2. SumFunction(g) = k * SumFunction(s)
  BY SumScaled
<1>3. ASSUME \A c \in C : t[c] <= k PROVE \A c \in C : f[c] <= g[c]
  BY <1>3, ProductMonotone
<1>4. ASSUME \A c \in C : k <= t[c] PROVE \A c \in C : g[c] <= f[c]
  BY <1>4, ProductMonotone
<1> HIDE DEF f, g
<1>5. SumFunction(f) \in Int
  BY <1>1, SumInt
<1>6. (\A c \in C : f[c] <= g[c]) => SumFunction(f) <= SumFunction(g)
  BY <1>1, SumMonotone
<1>7. (\A c \in C : g[c] <= f[c]) => SumFunction(g) <= SumFunction(f)
  BY <1>1, SumMonotone
<1> QED BY <1>2, <1>3, <1>4, <1>5, <1>6, <1>7 DEF f

LEMMA WeightedResult ==
  ASSUME NEW bb \in Seq(Counted), NEW C \in SUBSET (1 .. Len(bb)), C # {}
  PROVE  Weighted(bb, C) \in Result /\ (BoxesNear => NearResult(Weighted(bb, C)))
<1> DEFINE s    == [c \in C |-> bb[c].score]
           xlo  == [c \in C |-> 2 * bb[c].x - bb[c].w]
           ylo  == [c \in C |-> 2 * bb[c].y - bb[c].h]
           xhi  == [c \in C |-> 2 * bb[c].x + bb[c].w]
           S(t) == SumFunction([c \in C |-> t[c] * s[c]])
           den  == SumFunction(s)
<1>1. IsFiniteSet(C)
  <2>1. Len(bb) \in Int
    OBVIOUS
  <2>2. IsFiniteSet(1 .. Len(bb))
    BY <2>1, FS_Interval
  <2> QED BY <2>2, FS_Subset
<1>2. \A c \in C : bb[c] \in Counted /\ bb[c] \in Box /\ bb[c].w >= 0 /\ bb[c].h >= 0 /\ bb[c].score >= 3
  BY CountedBoxes DEF Counted, Tensors2Detections
<1>3. s \in [C -> Int] /\ xlo \in [C -> Int] /\ ylo \in [C -> Int] /\ xhi \in [C -> Int]
  BY <1>2 DEF Box
<1>4. \A c \in C : s[c] > 0
  BY <1>2 DEF Box
<1>5. den \in Int /\ den > 0
  <2> HIDE DEF s
  <2> QED BY <1>1, <1>3, <1>4, SumInt, SumPositive
<1>6. S(xlo) \in Int /\ S(ylo) \in Int /\ S(xhi) \in Int
  <2> HIDE DEF s, xlo, ylo, xhi
  <2> QED BY <1>1, <1>3, <1>4, WeightedSum
<1>7. S(xlo) <= S(xhi)
  <2> DEFINE lo == [c \in C |-> xlo[c] * s[c]]
             hi == [c \in C |-> xhi[c] * s[c]]
  <2>1. lo \in [C -> Int] /\ hi \in [C -> Int]
    <3> HIDE DEF s, xlo, xhi
    <3> QED BY <1>3
  <2>2. \A c \in C : xlo[c] <= xhi[c]
    BY <1>2 DEF Box
  <2>3. \A c \in C : lo[c] <= hi[c]
    <3> HIDE DEF s, xlo, xhi
    <3> QED BY <1>3, <1>4, <2>2, ProductMonotone
  <2>4. SumFunction(lo) <= SumFunction(hi)
    <3> HIDE DEF lo, hi
    <3> QED BY <1>1, <2>1, <2>3, SumMonotone
  <2> QED BY <2>4
<1>8. Weighted(bb, C) = [x |-> S(xlo) + S(xhi), y |-> S(ylo) + S(xhi), w |-> S(xhi) - S(xlo),
                         h |-> S(xhi) - S(ylo), den |-> den]
  <2>1. /\ [c \in C |-> (2 * bb[c].x - bb[c].w) * bb[c].score] = [c \in C |-> xlo[c] * s[c]]
        /\ [c \in C |-> (2 * bb[c].y - bb[c].h) * bb[c].score] = [c \in C |-> ylo[c] * s[c]]
        /\ [c \in C |-> (2 * bb[c].x + bb[c].w) * bb[c].score] = [c \in C |-> xhi[c] * s[c]]
    OBVIOUS
  <2>2. [c \in C |-> 1 * bb[c].score] = s
    BY <1>2 DEF Box
  <2> HIDE DEF s, xlo, ylo, xhi
  <2> QED BY <2>1, <2>2 DEF Weighted
<1>9. ASSUME BoxesNear PROVE NearResult(Weighted(bb, C))
  <2>1. \A c \in C : /\ -1600 <= xlo[c] /\ xlo[c] <= 1600 /\ -1600 <= ylo[c] /\ ylo[c] <= 1600
                     /\ -1600 <= xhi[c] /\ xhi[c] <= 1600
    BY <1>2, <1>9 DEF BoxesNear
  <2>2. /\ -1600 * den <= S(xlo) /\ S(xlo) <= 1600 * den
        /\ -1600 * den <= S(ylo) /\ S(ylo) <= 1600 * den
        /\ -1600 * den <= S(xhi) /\ S(xhi) <= 1600 * den
    <3> HIDE DEF s, xlo, ylo, xhi
    <3>1. ASSUME NEW t \in [C -> Int], \A c \in C : -1600 <= t[c] /\ t[c] <= 1600
          PROVE  -1600 * den <= S(t) /\ S(t) <= 1600 * den
      <4>1. ASSUME NEW k \in Int
            PROVE  /\ S(t) \in Int
                   /\ (\A c \in C : t[c] <= k) => S(t) <= k * den
                   /\ (\A c \in C : k <= t[c]) => k * den <= S(t)
        BY <1>1, <1>3, <1>4, WeightedSum
      <4>2. PICK l \in Int : l = -1600
        OBVIOUS
      <4>3. l * den <= S(t) /\ S(t) <= 1600 * den /\ S(t) \in Int
        <5> HIDE DEF S, den
        <5> QED BY <3>1, <4>1, <4>2
      <4> HIDE DEF S, den
      <4> QED BY <1>5, <4>2, <4>3
    <3> HIDE DEF S, den
    <3> QED BY <1>3, <2>1, <3>1
  <2> HIDE DEF S, den, s, xlo, ylo, xhi
  <2> QED BY <1>5, <1>6, <1>7, <1>8, <2>2 DEF NearResult
<1> HIDE DEF S, den, s, xlo, ylo, xhi
<1> QED BY <1>5, <1>6, <1>8, <1>9 DEF Result

LEMMA TurnGives ==
  ASSUME NEW bb \in Seq(Counted), NEW best \in 1 .. Len(bb), NEW C \in SUBSET (1 .. Len(bb))
  PROVE  /\ TurnResult(bb, C, best) \in Result
         /\ BoxesNear => NearResult(TurnResult(bb, C, best))
<1>1. CASE C = {}
  <2>1. bb[best] \in Counted /\ bb[best] \in Box /\ bb[best].w >= 0 /\ bb[best].h >= 0
    BY CountedBoxes
  <2>2. Alone(bb[best]) \in Result
    BY <2>1 DEF Alone, Result, Box
  <2>3. ASSUME BoxesNear PROVE NearResult(Alone(bb[best]))
    <3>1. \A e \in {2 * bb[best].x - bb[best].w, 2 * bb[best].x + bb[best].w,
                    2 * bb[best].y - bb[best].h, 2 * bb[best].y + bb[best].h} : -1600 <= e /\ e <= 1600
      BY <2>1, <2>3 DEF BoxesNear
    <3>2. PICK x \in Int, y \in Int, w \in Int, h \in Int :
            x = bb[best].x /\ y = bb[best].y /\ w = bb[best].w /\ h = bb[best].h
      BY <2>1 DEF Box
    <3>3. /\ -1600 <= 2 * x - w /\ 2 * x - w <= 1600 /\ -1600 <= 2 * x + w /\ 2 * x + w <= 1600
          /\ -1600 <= 2 * y - h /\ 2 * y - h <= 1600 /\ -1600 <= 2 * y + h /\ 2 * y + h <= 1600
          /\ w >= 0 /\ h >= 0
      BY <2>1, <3>1, <3>2
    <3>4. /\ -3200 <= 4 * x /\ 4 * x <= 3200 /\ -3200 <= 4 * y /\ 4 * y <= 3200
          /\ 2 * w >= 0 /\ 2 * h >= -3200
      BY <3>3
    <3>5. Alone(bb[best]) = [x |-> 4 * x, y |-> 4 * y, w |-> 2 * w, h |-> 2 * h, den |-> 1]
      BY <3>2 DEF Alone
    <3> QED BY <3>4, <3>5 DEF NearResult
  <2> QED BY <1>1, <2>2, <2>3 DEF TurnResult
<1>2. CASE C # {}
  BY <1>2, WeightedResult DEF TurnResult
<1> QED BY <1>1, <1>2
----------------------------------------------------------------------------
(* Where the face is taken to be.                                          *)

LEMMA Division ==
  ASSUME NEW n \in Nat, NEW d \in Nat \ {0}
  PROVE  n \div d \in Nat /\ (n < 3 * d => n \div d < 3) /\ (n < d => n \div d = 0)
<1> DEFINE q == n \div d
<1>1. q \in Int /\ d * q <= n /\ n < d * (q + 1)
  OBVIOUS
<1> HIDE DEF q
<1>2. q >= 0
  <2>1. ASSUME q <= -1 PROVE d * (q + 1) <= 0
    BY <1>1, <2>1
  <2> QED BY <1>1, <2>1
<1>3. ASSUME q >= 3 PROVE d * q >= d * 3
  BY <1>1, <1>3
<1>4. ASSUME q >= 1 PROVE d * q >= d * 1
  BY <1>1, <1>4
<1> QED BY <1>1, <1>2, <1>3, <1>4 DEF q

LEMMA IndexRange ==
  ASSUME NEW n \in Int, NEW d \in Nat \ {0}, NEW top \in Nat
  PROVE  Index(n, d, top) \in 0 .. top /\ (n < 3 * d => Index(n, d, top) <= 2) /\ (n < d => Index(n, d, top) = 0)
<1> DEFINE m == Larger(n, 0)
<1>1. m \in Nat /\ (n < 3 * d => m < 3 * d) /\ (n < d => m < d)
  BY DEF Larger
<1>2. m \div d \in Nat /\ (m < 3 * d => m \div d < 3) /\ (m < d => m \div d = 0)
  BY <1>1, Division
<1> QED BY <1>1, <1>2 DEF Index, Smaller

\* The position of a face.
Place(p) == p.x \in Int /\ p.y \in Int /\ p.size \in Int /\ p.unit \in Nat \ {0}

LEMMA FacePlace ==
  ASSUME NEW type \in 0 .. 16, NEW r \in Result PROVE Place(DeOffset(type, r))
<1>1. Clip(type).x \in Int /\ Clip(type).y \in Int
  BY DEF Clip
<1>2. /\ r.x \in Int /\ r.y \in Int /\ r.w \in Int /\ r.h \in Int
      /\ 400 * r.den \in Nat \ {0}
  BY DEF Result
<1>3. \A a, b \in Int : a * b \in Int /\ a + b \in Int
  OBVIOUS
<1> QED BY <1>1, <1>2, <1>3 DEF DeOffset, Place

\* The next region after a face, whatever the face.
LEMMA FaceRegion ==
  ASSUME NEW p, Place(p) PROVE CloseUp(p) \in 0 .. 16 /\ Band(p) \in 0 .. 2
<1>1. /\ 3 * p.y \in Int /\ 4 * p.x \in Int
      /\ 240 * p.unit \in Nat \ {0} /\ 320 * p.unit \in Nat \ {0}
  BY DEF Place
<1>2. Index(3 * p.y, 240 * p.unit, 3) \in 0 .. 3 /\ Index(4 * p.x, 320 * p.unit, 4) \in 0 .. 4
  BY <1>1, IndexRange
<1> QED BY <1>2 DEF CloseUp, Band

\* A face near one of the first regions: the next region is one of the
\* half-scale ones, and in the regions 0 and 2 the face has a size.
LEMMA NearFace ==
  ASSUME NEW type \in 0 .. 3, NEW r \in Result, NearResult(r)
  PROVE  /\ CloseUp(DeOffset(type, r)) \in 0 .. 2
         /\ type \in {0, 2} => DeOffset(type, r).size >= 0
<1> DEFINE p == DeOffset(type, r)
<1>1. /\ r.x \in Int /\ r.y \in Int /\ r.w \in Int /\ r.h \in Int /\ r.den \in Nat \ {0}
      /\ p.unit = 400 * r.den
  BY DEF Result, DeOffset
<1>2. Clip(type).x \in {0, 32, 64} /\ Clip(type).y = 0 /\ (type \in {0, 2} => Clip(type).x \in {32, 64})
  BY DEF Clip
<1>3. p.x <= 80 * p.unit /\ p.y <= 16 * p.unit
  BY <1>1, <1>2 DEF DeOffset, NearResult
<1>4. type \in {0, 2} => p.size >= 0
  BY <1>1, <1>2 DEF DeOffset, NearResult
<1>5. Place(p)
  BY FacePlace
<1> HIDE DEF p
<1>6. Index(3 * p.y, 240 * p.unit, 3) = 0 /\ Index(4 * p.x, 320 * p.unit, 4) \in 0 .. 2
  <2>1. /\ 3 * p.y \in Int /\ 4 * p.x \in Int
        /\ 240 * p.unit \in Nat \ {0} /\ 320 * p.unit \in Nat \ {0}
        /\ 3 * p.y < 240 * p.unit /\ 4 * p.x < 3 * (320 * p.unit)
    BY <1>3, <1>5 DEF Place
  <2>2. Index(3 * p.y, 240 * p.unit, 3) = 0
    BY <2>1, IndexRange
  <2>3. Index(4 * p.x, 320 * p.unit, 4) \in 0 .. 4 /\ Index(4 * p.x, 320 * p.unit, 4) <= 2
    BY <2>1, IndexRange
  <2> QED BY <2>2, <2>3
<1>7. CloseUp(p) \in 0 .. 2
  BY <1>6 DEF CloseUp
<1> QED BY <1>4, <1>7 DEF p
----------------------------------------------------------------------------
(* What suppression has put out, by where the task is: nothing as long as  *)
(* all boxes are left.                                                     *)

RetInv ==
  /\ ret \in Seq(Result)
  /\ BoxesNear => \A k \in 1 .. Len(ret) : NearResult(ret[k])
  /\ fpc \notin {"nms", "decide", "halted"} => ret = <<>>
  /\ fpc \in {"nms", "decide"} /\ ret = <<>> => remained = 1 .. Len(detected)

LEMMA TurnKeepsRet == NmsInv /\ RetInv /\ NmsTurn => RetInv'
<1> SUFFICES ASSUME NmsInv, RetInv, NmsTurn PROVE RetInv'
  OBVIOUS
<1>1. PICK best \in remained : ret' = Append(ret, TurnResult(detected, Candidates(detected, remained, best), best))
  BY DEF NmsTurn
<1> DEFINE r == TurnResult(detected, Candidates(detected, remained, best), best)
<1>2. /\ detected \in Seq(Counted) /\ best \in 1 .. Len(detected)
      /\ Candidates(detected, remained, best) \in SUBSET (1 .. Len(detected))
  BY DEF NmsInv, Candidates
<1>3. r \in Result /\ (BoxesNear => NearResult(r))
  BY <1>2, TurnGives
<1> HIDE DEF r
<1>4. ret' = Append(ret, r) /\ fpc = "nms" /\ fpc' = "nms" /\ ret \in Seq(Result)
  BY <1>1 DEF NmsTurn, r, RetInv
<1>5. ret' \in Seq(Result) /\ ret' # <<>>
  BY <1>3, <1>4
<1>6. ASSUME BoxesNear, NEW k \in 1 .. Len(ret') PROVE NearResult(ret'[k])
  <2>1. CASE k \in 1 .. Len(ret)
    BY <1>4, <1>6, <2>1 DEF RetInv
  <2>2. CASE k = Len(ret) + 1
    BY <1>3, <1>4, <1>6, <2>2
  <2> QED BY <1>3, <1>4, <2>1, <2>2
<1> QED BY <1>4, <1>5, <1>6 DEF RetInv

LEMMA RetStep == NmsInv /\ RetInv /\ [Next]_vars => RetInv'
<1> SUFFICES ASSUME NmsInv, RetInv, [Next]_vars PROVE RetInv'
  OBVIOUS
<1>1. CASE Prepare \/ Qbuf \/ Dqbuf \/ FenceOnEnds \/ Invoke
  <2>1. /\ fpc \notin {"nms", "decide", "halted"} /\ fpc' \notin {"nms", "decide"}
        /\ UNCHANGED ret
    BY <1>1 DEF Prepare, OpenVideo, Reqbufs, SFmt, Memalign, Streamon, PrepareFailed, Qbuf, Dqbuf,
                Invoke, FenceOnEnds, CameraStep, Passes, Goto, nmsVars
  <2> QED BY <2>1 DEF RetInv
<1>2. CASE NmsSort
  <2>1. fpc = "sort" /\ fpc' = "nms" /\ remained' = 1 .. Len(detected) /\ UNCHANGED ret
    BY <1>2 DEF NmsSort, Goto
  <2>2. Len(detected') = Len(detected)
    BY <1>2, SortedBoxes
  <2> QED BY <2>1, <2>2 DEF RetInv
<1>3. CASE NmsTurn
  BY <1>3, TurnKeepsRet
<1>4. CASE NmsEnds
  <2>1. fpc = "nms" /\ fpc' = "decide" /\ UNCHANGED <<ret, remained, detected>>
    BY <1>4 DEF NmsEnds, Goto, nmsVars
  <2> QED BY <2>1 DEF RetInv
<1>5. CASE FaceLoop
  <2>1. fpc' \in {"FenceOn", "init_video"} /\ ret' = <<>>
    BY <1>5 DEF FaceLoop, Miss, FaceFound, Goto
  <2> QED BY <2>1 DEF RetInv
<1>6. CASE OtherSteps \/ UNCHANGED vars
  <2>1. UNCHANGED <<detected, remained, ret>> /\ fpc' \in {fpc, "halted"}
    BY <1>6, OthersLeave DEF nmsVars, vars
  <2> QED BY <2>1 DEF RetInv
<1> QED BY <1>1, <1>2, <1>3, <1>4, <1>5, <1>6 DEF Next, Face, OtherSteps
----------------------------------------------------------------------------
(* The search.                                                             *)

SearchTypes ==
  /\ nextType \in 0 .. 16 /\ state \in -1 .. 2 /\ band \in 0 .. 2
  /\ since \in [1 .. 2 -> Nat]

\* The regions in turn, and how long ago the left and the right one were
\* tried.
SearchInv ==
  /\ state = -1 => nextType \in 0 .. 2 /\ since[1] = 0 /\ since[2] = 0
  /\ state = 0  => nextType = 1 /\ since[1] <= 2 /\ since[2] <= 1
  /\ state = 1  => nextType = 2 /\ since[1] = 0 /\ since[2] <= 2
  /\ state = 2  => nextType = 3 /\ since[1] = 1 /\ since[2] = 0

\* A decision is a miss or a face somewhere.
LEMMA LoopCases ==
  ASSUME RetInv, SearchTypes, FaceLoop
  PROVE  \/ \E newBand \in 0 .. 2 : Miss(newBand)
         \/ /\ ret # <<>> /\ ret[1] \in Result
            /\ FaceFound(DeOffset(nextType, ret[1]))
<1>1. CASE ret = <<>>
  BY <1>1 DEF FaceLoop
<1>2. CASE ret # <<>>
  <2>1. ret[1] \in Result
    BY <1>2 DEF RetInv
  <2>2. Band(DeOffset(nextType, ret[1])) \in 0 .. 2
    BY <2>1, FacePlace, FaceRegion DEF SearchTypes
  <2> QED BY <1>2, <2>1, <2>2 DEF FaceLoop
<1> QED BY <1>1, <1>2

\* Every other step leaves the search alone.
LEMMA SearchUnchanged == Next => FaceLoop \/ UNCHANGED searchVars
BY OthersLeave DEF Next, Face, Prepare, OpenVideo, Reqbufs, SFmt, Memalign, Streamon, PrepareFailed,
       Qbuf, Dqbuf, Invoke, NmsSort, NmsTurn, NmsEnds, FenceOnEnds, CameraStep, Passes, OtherSteps

LEMMA SearchTypesStep == RetInv /\ SearchTypes /\ [Next]_vars => SearchTypes'
<1> SUFFICES ASSUME RetInv, SearchTypes, [Next]_vars PROVE SearchTypes'
  OBVIOUS
<1>1. CASE FaceLoop
  <2>1. ASSUME NEW newBand \in 0 .. 2, Miss(newBand) PROVE SearchTypes'
    BY <2>1 DEF Miss, Rotate, Tried, SearchTypes
  <2>2. ASSUME ret # <<>>, ret[1] \in Result, FaceFound(DeOffset(nextType, ret[1])) PROVE SearchTypes'
    <3>1. /\ CloseUp(DeOffset(nextType, ret[1])) \in 0 .. 16
          /\ Band(DeOffset(nextType, ret[1])) \in 0 .. 2
      BY <2>2, FacePlace, FaceRegion DEF SearchTypes
    <3> QED BY <2>2, <3>1 DEF FaceFound, SearchTypes
  <2> QED BY <1>1, <2>1, <2>2, LoopCases
<1>2. CASE UNCHANGED searchVars
  BY <1>2 DEF SearchTypes, searchVars
<1> QED BY <1>1, <1>2, SearchUnchanged DEF vars

LEMMA SearchStep ==
  ASSUME BoxesNear PROVE RetInv /\ SearchTypes /\ SearchInv /\ [Next]_vars => SearchInv'
<1> SUFFICES ASSUME RetInv, SearchTypes, SearchInv, [Next]_vars PROVE SearchInv'
  OBVIOUS
<1>1. CASE FaceLoop
  <2>1. ASSUME NEW newBand \in 0 .. 2, Miss(newBand) PROVE SearchInv'
    <3>1. state' = (state + 1) % 3 /\ nextType' = state' + 1
      BY <2>1 DEF Miss, Rotate, SearchTypes, SearchInv
    <3>2. since' = [s \in 1 .. 2 |-> IF s = nextType THEN 0 ELSE since[s] + 1]
      BY <2>1 DEF Miss, Tried
    <3>3. since'[1] = (IF nextType = 1 THEN 0 ELSE since[1] + 1) /\ since'[2] = (IF nextType = 2 THEN 0 ELSE since[2] + 1)
      BY <3>2
    <3>4. since[1] \in Nat /\ since[2] \in Nat /\ state \in -1 .. 2 /\ nextType \in 0 .. 16
      BY DEF SearchTypes
    <3> QED BY <3>1, <3>3, <3>4 DEF SearchInv
  <2>2. ASSUME ret # <<>>, ret[1] \in Result, FaceFound(DeOffset(nextType, ret[1])) PROVE SearchInv'
    <3>1. nextType \in 0 .. 3
      BY DEF SearchTypes, SearchInv
    <3>2. NearResult(ret[1])
      BY <2>2 DEF RetInv
    <3>3. CloseUp(DeOffset(nextType, ret[1])) \in 0 .. 2
      BY <2>2, <3>1, <3>2, NearFace
    <3> QED BY <2>2, <3>3 DEF FaceFound, SearchTypes, SearchInv
  <2> QED BY <1>1, <2>1, <2>2, LoopCases
<1>2. CASE UNCHANGED searchVars
  BY <1>2 DEF SearchInv, searchVars
<1> QED BY <1>1, <1>2, SearchUnchanged DEF vars
----------------------------------------------------------------------------
(* The types that no other invariant gives.                                *)

RestTypes ==
  /\ fpc \in {"init_video", "reqbufs", "s_fmt", "memalign", "streamon", "failed",
              "capture", "dqbuf", "waiting", "Invoke", "sort", "nms", "decide",
              "FenceOn", "halted"}
  /\ stream \in {"STREAMOFF", "STREAMON"} /\ fmt \in {"uyvy", "jpeg"}
  /\ other \in {"none", "reqbufs", "s_fmt", "streamon", "qbuf", "dqbuf", "close", "stuck"}
  /\ cleared \in BOOLEAN
  /\ frame_mem \in {"NULL", "held", "freed"}
  /\ heap \in {"sound", "corrupt"}
  /\ input \in {"stale", "fresh", "garbled"}
  /\ failures \in 0 .. MaxFailures /\ others \in 0 .. MaxOthers

LEMMA RestTypesStep == RestTypes /\ [Next]_vars => RestTypes'
<1> SUFFICES ASSUME RestTypes, [Next]_vars PROVE RestTypes'
  OBVIOUS
<1> USE FaceAssumption DEF RestTypes
<1>1. CASE Prepare
  <2> USE DEF CameraStep, Passes, Goto, MayFail
  <2>1. CASE OpenVideo
    BY <2>1 DEF OpenVideo
  <2>2. CASE Reqbufs
    <3>1. cleared' \in BOOLEAN
      BY <2>2 DEF Reqbufs
    <3> QED BY <2>2, <3>1 DEF Reqbufs
  <2>3. CASE SFmt
    BY <2>3 DEF SFmt
  <2>4. CASE Memalign
    BY <2>4 DEF Memalign
  <2>5. CASE Streamon
    BY <2>5 DEF Streamon
  <2>6. CASE PrepareFailed
    BY <2>6 DEF PrepareFailed
  <2> QED BY <1>1, <2>1, <2>2, <2>3, <2>4, <2>5, <2>6 DEF Prepare
<1>2. CASE Qbuf
  <2>1. cleared' \in BOOLEAN
    BY <1>2 DEF Qbuf
  <2> QED BY <1>2, <2>1 DEF Qbuf, Goto
<1>3. CASE Dqbuf
  BY <1>3 DEF Dqbuf, Goto, MayFail, Converted
<1>4. CASE Invoke \/ NmsSort \/ NmsTurn \/ NmsEnds \/ FenceOnEnds
  <2>1. /\ UNCHANGED <<camVars, input, failures, others>>
        /\ fpc' \in {"sort", "nms", "decide", "init_video"}
    BY <1>4 DEF Invoke, NmsSort, NmsTurn, NmsEnds, FenceOnEnds, Goto
  <2> QED BY <2>1 DEF camVars
<1>5. CASE FaceLoop
  <2>1. /\ UNCHANGED <<camVars, failures, others>> /\ input' = "stale"
        /\ fpc' \in {"FenceOn", "init_video"}
    BY <1>5 DEF FaceLoop, Miss, FaceFound, Goto
  <2> QED BY <2>1 DEF camVars
<1>6. CASE OtherSteps
  <2> USE DEF OtherSteps, OtherOpens, OtherGoesOn, OtherReqbufs, OtherSFmt, OtherStreamon, OtherQbuf,
              OtherDqbuf, OtherCloses, OtherStep
  <2>1. other' \in {"none", "reqbufs", "s_fmt", "streamon", "qbuf", "dqbuf", "close", "stuck"}
    BY <1>6
  <2>2. others' \in 0 .. MaxOthers
    BY <1>6, SMT
  <2>3. stream' \in {"STREAMOFF", "STREAMON"} /\ fmt' \in {"uyvy", "jpeg"}
    BY <1>6
  <2>4. cleared' \in BOOLEAN
    BY <1>6
  <2> HIDE DEF OtherSteps
  <2> QED BY <1>6, <2>1, <2>2, <2>3, <2>4, OthersLeave
<1>7. CASE UNCHANGED vars
  BY <1>7 DEF vars, camVars
<1> QED BY <1>1, <1>2, <1>3, <1>4, <1>5, <1>6, <1>7 DEF Next, Face, OtherSteps
----------------------------------------------------------------------------
(* The invariants together.  They need nothing of the network's boxes.     *)
THEOREM SearchInvariant == Spec => [](NmsInv /\ RetInv /\ SearchTypes /\ RestTypes)
<1>1. Init => RetInv /\ SearchTypes /\ RestTypes
  <2> SUFFICES ASSUME Init PROVE RetInv /\ SearchTypes /\ RestTypes
    OBVIOUS
  <2>1. RetInv
    BY DEF Init, RetInv
  <2>2. SearchTypes
    BY DEF Init, SearchTypes
  <2>3. cleared \in BOOLEAN
    BY DEF Init
  <2>4. failures \in 0 .. MaxFailures /\ others \in 0 .. MaxOthers
    BY FaceAssumption DEF Init
  <2>5. RestTypes
    BY <2>3, <2>4, Zenon DEF Init, RestTypes
  <2> QED BY <2>1, <2>2, <2>5
<1> QED BY <1>1, NmsInvariant, RetStep, SearchTypesStep, RestTypesStep, PTL DEF Spec

(* FaceTypeOK, for all boxes: the means of the boxes taken have a positive *)
(* denominator, and the region is one of the seventeen.                    *)
THEOREM FaceTyped == Spec => []FaceTypeOK
<1>1. FaceInv /\ NmsInv /\ RetInv /\ SearchTypes /\ RestTypes => FaceTypeOK
  <2> SUFFICES ASSUME FaceInv, NmsInv, RetInv, SearchTypes, RestTypes PROVE FaceTypeOK
    OBVIOUS
  <2>1. detected \in Seq(Boxes)
    <3>1. Counted \subseteq Boxes
      BY DEF Counted, Tensors2Detections
    <3>2. Len(detected) \in Nat /\ detected \in [1 .. Len(detected) -> Counted]
      BY DEF NmsInv
    <3>3. detected \in [1 .. Len(detected) -> Boxes]
      BY <3>1, <3>2
    <3> QED BY <3>2, <3>3
  <2>2. /\ remained \subseteq 1 .. Len(detected) /\ picked \subseteq 1 .. Len(detected)
        /\ ret \in Seq([x: Int, y: Int, w: Int, h: Int, den: Nat \ {0}])
    BY DEF NmsInv, RetInv, Result
  <2>3. /\ video_fd \in {"closed", "open"}
        /\ sck \in {0, 1} /\ miso \in {0, 1}
    BY DEF FaceInv, CameraInv, PinInv
  <2> QED BY <2>1, <2>2, <2>3, Zenon DEF SearchTypes, RestTypes, FaceTypeOK
<1> QED BY <1>1, FaceInvariant, SearchInvariant, PTL

(* The order of the search, when the boxes are near their region.          *)
THEOREM SearchOrder == ASSUME BoxesNear PROVE Spec => []SearchInv
<1>1. Init => SearchInv
  BY DEF Init, SearchInv
<1> QED BY <1>1, SearchInvariant, SearchStep, PTL DEF Spec

(* The region searched next lies inside the frame.                         *)
THEOREM RegionsInFrame == ASSUME BoxesNear PROVE Spec => []RegionInFrame
<1>1. SearchTypes /\ SearchInv => RegionInFrame
  <2> SUFFICES ASSUME nextType \in 0 .. 3 PROVE RegionInFrame
    BY DEF SearchTypes, SearchInv
  <2>1. Clip(nextType) \in [x: {0, 32, 64}, y: {0}, w: {128, 256}, h: {128, 240}]
    BY DEF Clip
  <2>2. \A c \in [x: {0, 32, 64}, y: {0}, w: {128, 256}, h: {128, 240}] : InFrame(c)
    BY DEF InFrame
  <2> QED BY <2>1, <2>2 DEF RegionInFrame
<1> QED BY <1>1, SearchOrder, SearchInvariant, PTL

(* The left and the right region are tried in every third round.           *)
THEOREM SearchIsComplete == ASSUME BoxesNear PROVE Spec => []SearchCovers
<1>1. SearchTypes /\ SearchInv => SearchCovers
  <2> SUFFICES ASSUME SearchTypes, SearchInv PROVE since[1] <= 2 /\ since[2] <= 2
    BY DEF SearchCovers
  <2> QED BY DEF SearchTypes, SearchInv
<1> QED BY <1>1, SearchOrder, SearchInvariant, PTL

(* A face in region 0 or 2 is not taken for a miss.                        *)
THEOREM FacesTaken == ASSUME BoxesNear PROVE Spec => FaceTaken
<1>1. ASSUME NmsInv, RetInv, SearchTypes, [Next]_vars, fpc = "decide", fpc' \in {"FenceOn", "init_video"},
             detected # <<>>, nextType \in {0, 2}
      PROVE  state' = -1
  <2>1. FaceLoop
    BY <1>1, OthersLeave DEF Next, Face, Prepare, OpenVideo, Reqbufs, SFmt, Memalign, Streamon,
                PrepareFailed, Qbuf, Dqbuf, Invoke, NmsSort, NmsTurn, NmsEnds, FenceOnEnds, CameraStep,
                Passes, Goto, OtherSteps, vars
  <2>2. ret # <<>>
    <3>1. detected \in Seq(Counted) /\ remained = {} /\ Len(detected) # 0
      BY <1>1 DEF NmsInv
    <3>2. 1 \in 1 .. Len(detected)
      BY <3>1
    <3> QED BY <1>1, <3>1, <3>2 DEF RetInv
  <2>3. ret[1] \in Result /\ NearResult(ret[1])
    BY <1>1, <2>2 DEF RetInv
  <2>4. DeOffset(nextType, ret[1]).size >= 0 /\ Place(DeOffset(nextType, ret[1]))
    BY <1>1, <2>3, NearFace, FacePlace
  <2>5. FaceFound(DeOffset(nextType, ret[1]))
    BY <2>1, <2>2, <2>4 DEF FaceLoop, Place
  <2> QED BY <2>5 DEF FaceFound
<1>2. NmsInv /\ RetInv /\ SearchTypes /\ [Next]_vars =>
        [fpc = "decide" /\ fpc' \in {"FenceOn", "init_video"} /\ detected # <<>> /\ nextType \in {0, 2} => state' = -1]_vars
  BY <1>1
<1> QED BY <1>2, SearchInvariant, PTL DEF Spec, FaceTaken
=============================================================================
