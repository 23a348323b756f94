-------------------------- MODULE FaceDetectProofs --------------------------
(***************************************************************************)
(* Proofs for FaceDetect: the camera's memory and non-maximum              *)
(* suppression, for every set of boxes and every number of failures and of *)
(* sessions of the other task.                                             *)
(***************************************************************************)
EXTENDS FaceDetect, TLAPS

Preparing == {"reqbufs", "s_fmt", "memalign", "streamon", "failed"}

Capturing == {"capture", "dqbuf", "waiting"}

\* The descriptor and frame_mem, by where the task is: outside of
\* camera_prepare an open device has its memory, as long as the board runs.
CameraInv ==
  /\ video_fd \in {"open", "closed"}
  /\ fpc \in Preparing \cup Capturing => video_fd = "open"
  /\ fpc \in {"streamon"} \cup Capturing => frame_mem = "held"
  /\ video_fd = "open" /\ fpc \notin Preparing \cup {"halted"} => frame_mem = "held"

\* The types of the pins.
PinInv == sck \in {0, 1} /\ miso \in {0, 1}

FaceInv == CameraInv /\ PinInv

LEMMA InitFace == Init => FaceInv
BY DEF Init, FaceInv, CameraInv, PinInv, Preparing, Capturing

\* The steps of the camera code, which leave the pins alone.
LEMMA PrepareKeeps == FaceInv /\ Prepare => FaceInv'
<1> SUFFICES ASSUME FaceInv, Prepare PROVE FaceInv'
  OBVIOUS
<1> USE DEF FaceInv, CameraInv, PinInv, Preparing, Capturing, CameraStep, Passes, Goto, pinVars, MayFail
<1>1. CASE OpenVideo
  BY <1>1 DEF OpenVideo
<1>2. CASE Reqbufs
  BY <1>2 DEF Reqbufs
<1>3. CASE SFmt
  BY <1>3 DEF SFmt
<1>4. CASE Memalign
  BY <1>4 DEF Memalign
<1>5. CASE Streamon
  BY <1>5 DEF Streamon
<1>6. CASE PrepareFailed
  BY <1>6 DEF PrepareFailed
<1> QED BY <1>1, <1>2, <1>3, <1>4, <1>5, <1>6 DEF Prepare

\* A round's picture and its boxes: QBUF on an open device leads to DQBUF.
LEMMA LookKeeps == FaceInv /\ (Qbuf \/ Dqbuf \/ Invoke \/ NmsSort \/ NmsTurn \/ NmsEnds) => FaceInv'
<1> SUFFICES ASSUME FaceInv, Qbuf \/ Dqbuf \/ Invoke \/ NmsSort \/ NmsTurn \/ NmsEnds
             PROVE  /\ UNCHANGED <<video_fd, frame_mem, pinVars>>
                    /\ fpc \in {"capture", "dqbuf", "Invoke", "sort", "nms"}
                    /\ fpc' \in {"dqbuf", "waiting", "halted", "Invoke", "sort", "nms", "decide"}
                    /\ fpc' \in {"dqbuf", "waiting"} => video_fd = "open"
  BY DEF FaceInv, CameraInv, PinInv, Preparing, Capturing, pinVars
<1>1. CASE Qbuf
  BY <1>1 DEF Qbuf, Goto
<1>2. CASE Dqbuf
  BY <1>2 DEF Dqbuf, Goto, FaceInv, CameraInv, Capturing
<1>3. CASE Invoke \/ NmsSort \/ NmsTurn \/ NmsEnds
  BY <1>3 DEF Invoke, NmsSort, NmsTurn, NmsEnds, Goto, camVars
<1> QED BY <1>1, <1>2, <1>3

\* The decision leaves the camera alone.
LEMMA DecisionKeeps == FaceInv /\ FaceLoop => FaceInv'
<1> SUFFICES ASSUME FaceInv, FaceLoop PROVE FaceInv'
  OBVIOUS
<1>1. fpc = "decide" /\ fpc' \in {"FenceOn", "init_video"} /\ UNCHANGED camVars
  BY DEF FaceLoop, Miss, FaceFound, Goto
<1>2. PinInv'
  BY DEF FaceLoop, Miss, FaceFound, FaceInv, PinInv, pinVars
<1> QED BY <1>1, <1>2 DEF FaceInv, CameraInv, Preparing, Capturing, camVars

\* The other task's steps: they leave descriptor and memory alone, and move
\* this task at most to the end of the board.
OtherSteps == OtherOpens \/ OtherGoesOn

LEMMA OthersLeave ==
  OtherSteps => /\ UNCHANGED <<video_fd, frame_mem, heap, input, nmsVars, searchVars, pinVars, failures>>
                /\ fpc' \in {fpc, "halted"}
BY DEF OtherSteps, OtherOpens, OtherGoesOn, OtherReqbufs, OtherSFmt, OtherStreamon, OtherQbuf,
       OtherDqbuf, OtherCloses, OtherStep

LEMMA OthersKeep == FaceInv /\ (FenceOnEnds \/ OtherSteps \/ UNCHANGED vars) => FaceInv'
<1> SUFFICES ASSUME FaceInv, FenceOnEnds \/ OtherSteps \/ UNCHANGED vars PROVE FaceInv'
  OBVIOUS
<1>1. CASE FenceOnEnds
  BY <1>1 DEF FenceOnEnds, Goto, FaceInv, CameraInv, PinInv, Preparing, Capturing, camVars
<1>2. CASE OtherSteps \/ UNCHANGED vars
  <2>1. UNCHANGED <<video_fd, frame_mem, sck, miso>> /\ fpc' \in {fpc, "halted"}
    BY <1>2, OthersLeave DEF pinVars, camVars, vars
  <2> QED BY <2>1 DEF FaceInv, CameraInv, PinInv, Preparing, Capturing
<1> QED BY <1>1, <1>2
----------------------------------------------------------------------------
(* The invariant of the camera code and the pins.                          *)
THEOREM FaceInvariant == Spec => []FaceInv
<1>1. FaceInv /\ [Next]_vars => FaceInv'
  BY PrepareKeeps, LookKeeps, DecisionKeeps, OthersKeep DEF Next, Face, OtherSteps
<1> QED BY InitFace, <1>1, PTL DEF Spec

(* A capture has memory and an open device, whatever failed before.        *)
THEOREM CaptureSafe == Spec => []CaptureHasMemory
<1>1. FaceInv => CaptureHasMemory
  BY DEF FaceInv, CameraInv, CaptureHasMemory, Capturing
<1> QED BY FaceInvariant, <1>1, PTL
----------------------------------------------------------------------------
(* Non-maximum suppression.                                                *)

\* The boxes that count.
Counted == Tensors2Detections(Boxes)

LEMMA CountedBoxes == \A b \in Counted : b \in Box /\ b.w >= 0 /\ b.h >= 0
BY FaceAssumption DEF Counted, Tensors2Detections

LEMMA PositiveProduct == \A a, b \in Int : a > 0 /\ b > 0 => a * b > 0
OBVIOUS

\* A box with an area overlaps itself, and a box that another one overlaps
\* has an area.
LEMMA SelfOverlap == ASSUME NEW b \in Box, b.w > 0, b.h > 0 PROVE Overlap(b, b)
<1> DEFINE a == b.w * b.h
<1>0. b.x \in Int /\ b.y \in Int /\ b.w \in Int /\ b.h \in Int
  BY DEF Box
<1>1. a \in Int /\ a > 0
  BY <1>0, PositiveProduct
<1>2. IntersectRect(b, b).w = 2 * b.w /\ IntersectRect(b, b).h = 2 * b.h
  BY <1>0 DEF IntersectRect, Smaller, Larger
<1>3. (2 * b.w) * (2 * b.h) = 4 * a /\ 4 * b.w * b.h = 4 * a
  BY <1>0
<1> HIDE DEF a
<1> QED BY <1>0, <1>1, <1>2, <1>3 DEF Overlap

LEMMA OverlapNotFlat ==
  ASSUME NEW p \in Box, NEW q \in Box, Overlap(p, q) PROVE q.w > 0 /\ q.h > 0
<1>0. /\ p.x \in Int /\ p.y \in Int /\ p.w \in Int /\ p.h \in Int
      /\ q.x \in Int /\ q.y \in Int /\ q.w \in Int /\ q.h \in Int
  BY DEF Box
<1>1. IntersectRect(p, q).w > 0 /\ IntersectRect(p, q).h > 0
  BY DEF Overlap
<1>2. IntersectRect(p, q).w <= 2 * q.w /\ IntersectRect(p, q).h <= 2 * q.h
  BY <1>0 DEF IntersectRect, Smaller, Larger
<1> QED BY <1>0, <1>1, <1>2 DEF IntersectRect, Smaller, Larger

\* The boxes are in the order of their scores.
Descending == \A a, b \in 1 .. Len(detected) : a < b => detected[a].score >= detected[b].score

\* The picks come before the boxes left and overlap none of them.
PicksApart ==
  /\ \A k \in picked, c \in remained : k < c /\ ~Overlap(detected[c], detected[k])
  /\ \A k, m \in picked : k < m => ~Overlap(detected[m], detected[k])

\* Every box is left, picked or overlaps an earlier pick, unless a box
\* without an area has ended the loop.
AllAnswered ==
  \/ \E k \in picked : Flat(detected[k])
  \/ \A b \in 1 .. Len(detected) :
       \/ b \in remained \cup picked
       \/ \E k \in picked : k < b /\ Overlap(detected[b], detected[k])

\* Where the task is, and what the boxes are there, as long as the board runs.
NmsInv ==
  /\ detected \in Seq(Counted)
  /\ remained \subseteq 1 .. Len(detected) /\ picked \subseteq 1 .. Len(detected)
  /\ fpc \notin {"nms", "halted"} => remained = {}
  /\ fpc \notin {"nms", "decide", "halted"} => picked = {}
  /\ fpc \notin {"sort", "nms", "decide", "halted"} => detected = <<>>
  /\ fpc \in {"nms", "decide"} => Descending /\ PicksApart /\ AllAnswered

LEMMA InitNms == Init => NmsInv
BY DEF Init, NmsInv

\* Sorting puts the boxes in the order of their scores.
LEMMA SortedBoxes ==
  ASSUME NmsInv, NmsSort
  PROVE  detected' \in Seq(Counted) /\ Len(detected') = Len(detected) /\ Descending'
<1> DEFINE N == 1 .. Len(detected)
<1>1. PICK f \in Injection(N, N) :
        /\ detected' = [k \in N |-> detected[f[k]]]
        /\ \A a, b \in N : a < b => detected[f[a]].score >= detected[f[b]].score
  BY DEF NmsSort, SortedOrders
<1>2. f \in [N -> N]
  BY DEF Injection
<1>3. detected \in Seq(Counted) /\ Len(detected) \in Nat /\ \A k \in N : detected[k] \in Counted
  BY DEF NmsInv
<1>4. detected' \in [1 .. Len(detected) -> Counted]
  BY <1>1, <1>2, <1>3
<1>5. detected' \in Seq(Counted) /\ Len(detected') = Len(detected)
  BY <1>3, <1>4
<1>6. Descending'
  BY <1>1, <1>2, <1>5 DEF Descending
<1> QED BY <1>5, <1>6

LEMMA SortKeeps == NmsInv /\ NmsSort => NmsInv'
<1> SUFFICES ASSUME NmsInv, NmsSort PROVE NmsInv'
  OBVIOUS
<1>1. detected' \in Seq(Counted) /\ Len(detected') = Len(detected) /\ Descending'
  BY SortedBoxes
<1>2. fpc = "sort" /\ fpc' = "nms" /\ remained' = 1 .. Len(detected) /\ picked' = {}
  BY DEF NmsSort, Goto, NmsInv
<1>3. PicksApart' /\ AllAnswered'
  BY <1>1, <1>2 DEF PicksApart, AllAnswered
<1> QED BY <1>1, <1>2, <1>3 DEF NmsInv

\* One turn: if the best box takes any, it takes itself.
LEMMA TurnKeeps == NmsInv /\ NmsTurn => NmsInv'
<1> SUFFICES ASSUME NmsInv, NmsTurn PROVE NmsInv'
  OBVIOUS
<1>1. PICK best \in remained :
        /\ \A c \in remained : best <= c
        /\ picked' = picked \cup {best}
        /\ remained' = TurnLeaves(remained, Candidates(detected, remained, best))
  BY DEF NmsTurn, Best
<1> DEFINE C == Candidates(detected, remained, best)
<1>2. fpc = "nms" /\ fpc' = "nms" /\ detected' = detected
  BY DEF NmsTurn
<1>3. /\ detected \in Seq(Counted) /\ Len(detected) \in Nat
      /\ \A k \in 1 .. Len(detected) : detected[k] \in Box /\ detected[k].w >= 0 /\ detected[k].h >= 0
      /\ remained \subseteq 1 .. Len(detected) /\ picked \subseteq 1 .. Len(detected)
      /\ best \in 1 .. Len(detected)
  BY CountedBoxes DEF NmsInv
<1>4. C \subseteq remained /\ remained' = (IF C = {} THEN {} ELSE remained \ C)
  BY <1>1 DEF Candidates, TurnLeaves
<1>5. C = {} => Flat(detected[best])
  <2> SUFFICES ASSUME best \notin C PROVE Flat(detected[best])
    OBVIOUS
  <2>1. ~Overlap(detected[best], detected[best])
    BY DEF Candidates
  <2>2. ~(detected[best].w > 0 /\ detected[best].h > 0)
    BY <1>3, <2>1, SelfOverlap
  <2> QED BY <1>3, <2>2 DEF Flat, Box
<1>6. C # {} => best \in C
  <2> SUFFICES ASSUME NEW c \in C PROVE best \in C
    OBVIOUS
  <2>1. Overlap(detected[c], detected[best]) /\ c \in remained
    BY DEF Candidates
  <2>2. detected[best].w > 0 /\ detected[best].h > 0
    BY <1>3, <2>1, OverlapNotFlat
  <2> QED BY <1>3, <2>2, SelfOverlap DEF Candidates
<1>7. PicksApart'
  <2>1. \A c \in remained' : c \in remained /\ best < c /\ ~Overlap(detected[c], detected[best])
    <3>1. \A c \in remained' : c \in remained /\ c \notin C /\ best \in C
      BY <1>4, <1>6
    <3>2. \A c \in remained' : c # best /\ best <= c
      BY <1>1, <3>1
    <3>3. \A c \in remained : c \in Int /\ best \in Int
      BY <1>3
    <3>4. \A c \in remained : c \notin C => ~Overlap(detected[c], detected[best])
      BY DEF Candidates
    <3> HIDE DEF C
    <3> QED BY <3>1, <3>2, <3>3, <3>4
  <2>2. PicksApart
    BY <1>2 DEF NmsInv
  <2>3. \A k \in picked', c \in remained' : k < c /\ ~Overlap(detected[c], detected[k])
    BY <1>1, <2>1, <2>2 DEF PicksApart
  <2>4. \A k, m \in picked' : k < m => ~Overlap(detected[m], detected[k])
    <3> SUFFICES ASSUME NEW k \in picked', NEW m \in picked', k < m
                 PROVE  ~Overlap(detected[m], detected[k])
      OBVIOUS
    <3>1. CASE m = best
      BY <1>1, <1>3, <2>2, <3>1 DEF PicksApart
    <3>2. CASE k = best /\ m \in picked
      BY <1>3, <2>2, <3>2 DEF PicksApart
    <3> QED BY <1>1, <2>2, <3>1, <3>2 DEF PicksApart
  <2> QED BY <1>2, <2>3, <2>4 DEF PicksApart
<1>8. AllAnswered'
  <2>1. AllAnswered
    BY <1>2 DEF NmsInv
  <2>2. CASE \E k \in picked : Flat(detected[k])
    BY <1>1, <1>2, <2>2 DEF AllAnswered
  <2>3. CASE C = {}
    BY <1>1, <1>2, <1>5, <2>3 DEF AllAnswered
  <2>4. CASE C # {} /\ ~\E k \in picked : Flat(detected[k])
    <3> SUFFICES ASSUME NEW b \in 1 .. Len(detected), b \notin remained', b \notin picked'
                 PROVE  \E k \in picked' : k < b /\ Overlap(detected[b], detected[k])
      BY <1>2 DEF AllAnswered
    <3>1. CASE b \in C
      BY <1>1, <1>3, <3>1 DEF Candidates
    <3>2. CASE b \notin C
      BY <1>1, <1>4, <2>1, <2>4, <3>2 DEF AllAnswered
    <3> QED BY <3>1, <3>2
  <2> QED BY <2>2, <2>3, <2>4
<1>9. remained' \subseteq 1 .. Len(detected) /\ picked' \subseteq 1 .. Len(detected)
  BY <1>1, <1>3, <1>4
<1>10. Descending'
  BY <1>2 DEF NmsInv, Descending
<1> QED BY <1>2, <1>3, <1>7, <1>8, <1>9, <1>10 DEF NmsInv

LEMMA RestKeepsNms ==
  NmsInv /\ (Prepare \/ Qbuf \/ Dqbuf \/ Invoke \/ NmsEnds \/ FaceLoop \/ FenceOnEnds
             \/ OtherSteps \/ UNCHANGED vars) => NmsInv'
<1> SUFFICES ASSUME NmsInv PROVE
      (Prepare \/ Qbuf \/ Dqbuf \/ Invoke \/ NmsEnds \/ FaceLoop \/ FenceOnEnds
             \/ OtherSteps \/ UNCHANGED vars) => NmsInv'
  OBVIOUS
<1>1. CASE Prepare \/ Qbuf \/ Dqbuf \/ FenceOnEnds
  <2>1. /\ fpc \notin {"sort", "nms", "decide", "halted"} /\ fpc' \notin {"sort", "nms", "decide"}
        /\ UNCHANGED nmsVars
    BY <1>1 DEF Prepare, OpenVideo, Reqbufs, SFmt, Memalign, Streamon, PrepareFailed, Qbuf, Dqbuf,
                FenceOnEnds, CameraStep, Passes, Goto
  <2> QED BY <2>1 DEF NmsInv, nmsVars
<1>2. CASE Invoke
  <2>1. PICK n \in 0 .. MaxBoxes : detected' \in [1 .. n -> Counted]
    BY <1>2 DEF Invoke, Counted
  <2>2. detected' \in Seq(Counted)
    BY <2>1, FaceAssumption
  <2>3. fpc = "Invoke" /\ fpc' = "sort" /\ UNCHANGED <<remained, picked>>
    BY <1>2 DEF Invoke, Goto
  <2>4. remained' = {} /\ picked' = {}
    BY <2>3 DEF NmsInv
  <2> QED BY <2>2, <2>3, <2>4 DEF NmsInv
<1>3. CASE NmsEnds
  <2>1. fpc = "nms" /\ fpc' = "decide" /\ remained = {} /\ UNCHANGED nmsVars
    BY <1>3 DEF NmsEnds, Goto
  <2> QED BY <2>1 DEF NmsInv, nmsVars, Descending, PicksApart, AllAnswered
<1>4. CASE FaceLoop
  <2>1. /\ fpc = "decide" /\ fpc' \in {"FenceOn", "init_video"}
        /\ detected' = <<>> /\ picked' = {} /\ UNCHANGED remained
    BY <1>4 DEF FaceLoop, Miss, FaceFound, Goto
  <2> QED BY <2>1 DEF NmsInv
<1>5. CASE OtherSteps \/ UNCHANGED vars
  <2>1. UNCHANGED <<detected, remained, picked>> /\ fpc' \in {fpc, "halted"}
    BY <1>5, OthersLeave DEF nmsVars, vars
  <2> QED BY <2>1 DEF NmsInv, Descending, PicksApart, AllAnswered
<1> QED BY <1>1, <1>2, <1>3, <1>4, <1>5

(* The invariant of the suppression loop.                                  *)
THEOREM NmsInvariant == Spec => []NmsInv
<1>1. NmsInv /\ [Next]_vars => NmsInv'
  BY SortKeeps, TurnKeeps, RestKeepsNms DEF Next, Face, OtherSteps
<1> QED BY InitNms, <1>1, PTL DEF Spec

(* What the suppression puts out is the greedy choice, for all boxes and   *)
(* any number of them.                                                     *)
THEOREM NmsGreedy == Spec => []NmsIsGreedy
<1>1. NmsInv => NmsIsGreedy
  <2> SUFFICES ASSUME NmsInv, fpc = "decide" PROVE NmsIsGreedy
    BY DEF NmsIsGreedy
  <2>1. Descending /\ PicksApart /\ AllAnswered /\ remained = {} /\ picked \subseteq 1 .. Len(detected)
    BY DEF NmsInv
  <2> QED BY <2>1 DEF NmsIsGreedy, Descending, PicksApart, AllAnswered
<1> QED BY NmsInvariant, <1>1, PTL
=============================================================================
