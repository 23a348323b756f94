----------------------------- MODULE FaceDetect -----------------------------
(***************************************************************************)
(* face_detect: the task that looks for a face in one region of the        *)
(* picture after the other and switches the fence.  Its camera code tries  *)
(* again in every round, next to another task that uses the same camera.   *)
(* What the network finds in an image is a choice here.                    *)
(***************************************************************************)
EXTENDS NonMaxSuppression

CONSTANTS
  Boxes,        \* the boxes the network may put out
  MaxBoxes,     \* bound: boxes in one round
  FaceFaults,   \* what may fail
  MaxFailures,  \* bound: failures
  MaxOthers     \* bound: sessions of the other task

\* sensor: open fails     frame, clip: memalign fails
\* capture: QBUF or DQBUF fails, or the image cannot be converted
ASSUME FaceAssumption ==
  /\ Boxes \subseteq Box
  /\ FaceFaults \subseteq {"sensor", "frame", "clip", "capture"}
  /\ MaxBoxes \in Nat /\ MaxFailures \in Nat /\ MaxOthers \in Nat

VARIABLES
  fpc,        \* where face_detect is
  video_fd,   \* "closed" (-1) or "open"
  stream,     \* whether the device streams: "STREAMOFF" or "STREAMON"
  fmt,        \* its format: "uyvy", or "jpeg", which the other task sets
  other,      \* the other task's next call, "none" while its device is closed
  cleared,    \* whether a REQBUFS has cleared the container of the exchange
  frame_mem,  \* "NULL", "held" or "freed"
  heap,       \* "sound", or "corrupt" after a block was freed twice
  input,      \* the image in the input tensor: of this round ("fresh"),
              \* an older one, or read in another format
  detected,   \* Tensors2Detections' result
  remained,   \* NonMaxSuppression: the places of the boxes left
  picked,     \* the places of the boxes that were best
  ret,        \* its result
  nextType,   \* the region to search
  state,      \* -1 after a face was found
  band,       \* beforeX: the region in whose band it lies
  sck, miso,  \* the output pins
  since,      \* history: misses since the left and the right region were tried
  failures, others

camVars    == <<video_fd, stream, fmt, other, cleared, frame_mem, heap>>
searchVars == <<nextType, state, band, since>>
pinVars    == <<sck, miso>>
nmsVars    == <<detected, remained, picked, ret>>
vars       == <<fpc, camVars, input, nmsVars, searchVars, pinVars, failures, others>>

\* The types.
FaceTypeOK ==
  /\ fpc \in {"init_video", "reqbufs", "s_fmt", "memalign", "streamon", "failed",
              "capture", "dqbuf", "waiting", "Invoke", "sort", "nms", "decide",
              "FenceOn", "halted"}
  /\ video_fd \in {"closed", "open"}
  /\ stream \in {"STREAMOFF", "STREAMON"} /\ fmt \in {"uyvy", "jpeg"}
  /\ other \in {"none", "reqbufs", "s_fmt", "streamon", "qbuf", "dqbuf", "close", "stuck"}
  /\ cleared \in BOOLEAN
  /\ frame_mem \in {"NULL", "held", "freed"}
  /\ heap \in {"sound", "corrupt"}
  /\ input \in {"stale", "fresh", "garbled"}
  /\ detected \in Seq(Boxes)
  /\ remained \subseteq 1 .. Len(detected) /\ picked \subseteq 1 .. Len(detected)
  /\ ret \in Seq([x: Int, y: Int, w: Int, h: Int, den: Nat \ {0}])
  /\ nextType \in 0 .. 16 /\ state \in -1 .. 2 /\ band \in 0 .. 2
  /\ since \in [1 .. 2 -> Nat]
  /\ sck \in {0, 1} /\ miso \in {0, 1}
  /\ failures \in 0 .. MaxFailures /\ others \in 0 .. MaxOthers

\* Setup sets both pins to 0; x is -10.0 until a face is found.
Init ==
  /\ fpc = "init_video"
  /\ video_fd = "closed" /\ stream = "STREAMOFF" /\ fmt = "uyvy"
  /\ other = "none" /\ cleared = FALSE
  /\ frame_mem = "NULL" /\ heap = "sound"
  /\ input = "stale" /\ detected = <<>> /\ remained = {} /\ picked = {} /\ ret = <<>>
  /\ nextType = 0 /\ state = -1 /\ band = 1
  /\ since = [r \in 1 .. 2 |-> 0]
  /\ sck = 0 /\ miso = 0
  /\ failures = 0 /\ others = 0

Goto(from, to) == fpc = from /\ fpc' = to

MayFail(fault) ==
  /\ fault \in FaceFaults /\ failures < MaxFailures
  /\ failures' = failures + 1
----------------------------------------------------------------------------
(* spresense_getfaceimage                                                  *)

CameraStep(from, to) ==
  /\ Goto(from, to)
  /\ UNCHANGED <<other, heap, input, nmsVars, searchVars, pinVars, others>>

\* A call that leaves the device and the memory as they are.
Passes(from, to) ==
  /\ CameraStep(from, to)
  /\ UNCHANGED <<video_fd, stream, fmt, cleared, frame_mem, failures>>

\* init_video returns at once when the device is open.
OpenVideo ==
  \/ video_fd # "closed" /\ Passes("init_video", "capture")
  \/ /\ video_fd = "closed" /\ CameraStep("init_video", "reqbufs")
     /\ video_fd' = "open"
     /\ UNCHANGED <<stream, fmt, cleared, frame_mem, failures>>
  \/ /\ video_fd = "closed" /\ MayFail("sensor") /\ other = "none"
     /\ CameraStep("init_video", "Invoke")
     /\ UNCHANGED <<video_fd, stream, fmt, cleared, frame_mem>>

\* EPERM while a capture runs.  In an exchange of the other task it is
\* accepted before the capture has started and after it has ended; the
\* container is then cleared in the middle of the exchange.
Reqbufs ==
  \/ other # "dqbuf" /\ Passes("reqbufs", "s_fmt")
  \/ other = "dqbuf" /\ Passes("reqbufs", "failed")
  \/ /\ other = "dqbuf" /\ CameraStep("reqbufs", "s_fmt")
     /\ cleared' = TRUE
     /\ UNCHANGED <<video_fd, stream, fmt, frame_mem, failures>>

\* EBUSY while the device streams.
SFmt ==
  \/ /\ stream = "STREAMOFF" /\ CameraStep("s_fmt", "memalign")
     /\ fmt' = "uyvy"
     /\ UNCHANGED <<video_fd, stream, cleared, frame_mem, failures>>
  \/ stream # "STREAMOFF" /\ Passes("s_fmt", "failed")

\* frame_mem, then clip_mem; without the second the first is freed.
Memalign ==
  \/ /\ CameraStep("memalign", "streamon")
     /\ frame_mem' = "held"
     /\ UNCHANGED <<video_fd, stream, fmt, cleared, failures>>
  \/ /\ MayFail("frame") /\ CameraStep("memalign", "failed")
     /\ frame_mem' = "NULL"
     /\ UNCHANGED <<video_fd, stream, fmt, cleared>>
  \/ /\ MayFail("clip") /\ CameraStep("memalign", "failed")
     /\ frame_mem' = "freed"
     /\ UNCHANGED <<video_fd, stream, fmt, cleared>>

\* A stream that the other task has started meanwhile is an error, and
\* frame_mem is freed.
Streamon ==
  \/ /\ stream = "STREAMOFF" /\ CameraStep("streamon", "capture")
     /\ stream' = "STREAMON"
     /\ UNCHANGED <<video_fd, fmt, cleared, frame_mem, failures>>
  \/ /\ stream # "STREAMOFF" /\ CameraStep("streamon", "failed")
     /\ frame_mem' = "freed"
     /\ UNCHANGED <<video_fd, stream, fmt, cleared, failures>>

\* Mutant: the descriptor is closed and still kept.
PrepareFailed_keeps_fd ==
  /\ fpc = "failed"
  /\ video_fd' = "stale"
  /\ stream' = IF other # "none" THEN stream ELSE "STREAMOFF"
  /\ IF frame_mem = "freed"
     THEN heap' = "corrupt" /\ fpc' = "halted"
     ELSE fpc' = "Invoke" /\ UNCHANGED heap
  /\ UNCHANGED <<fmt, other, cleared, frame_mem, input, nmsVars, searchVars, pinVars, failures, others>>

\* close, free(frame_mem), video_fd = -1.  A block that was freed before
\* breaks the heap: nothing is said of what comes after.
PrepareFailed ==
  /\ fpc = "failed"
  /\ video_fd' = "closed"
  /\ stream' = IF other # "none" THEN stream ELSE "STREAMOFF"
  /\ IF frame_mem = "freed"
     THEN heap' = "corrupt" /\ fpc' = "halted"
     ELSE fpc' = "Invoke" /\ UNCHANGED heap
  /\ UNCHANGED <<fmt, other, cleared, frame_mem, input, nmsVars, searchVars, pinVars, failures, others>>

\* Where the image of a region is cut from the frame: pixels of its left
\* upper corner and its size.
Clip(type) ==
  CASE type = 0 -> [x |-> 32, y |-> 0, w |-> 256, h |-> 240]
    [] type = 1 -> [x |-> 0,  y |-> 0, w |-> 256, h |-> 240]
    [] type = 2 -> [x |-> 64, y |-> 0, w |-> 256, h |-> 240]
    [] OTHER    -> [x |-> 64 * ((type - 3) % 4), y |-> 56 * ((type - 3) \div 4),
                    w |-> 128, h |-> 128]

InFrame(clip) == clip.x + clip.w <= 320 /\ clip.y + clip.h <= 240

\* set_camimage: EBADF on a closed descriptor.
Qbuf ==
  /\ Goto("capture", IF video_fd = "open" THEN "dqbuf" ELSE "Invoke")
  /\ cleared' = FALSE
  /\ UNCHANGED <<video_fd, stream, fmt, other, frame_mem, heap, input, nmsVars, searchVars, pinVars,
                 failures, others>>

\* What convert_image0 to convert_image3_15 make of the frame.
Converted ==
  IF ~InFrame(Clip(nextType)) THEN input ELSE IF fmt = "uyvy" THEN "fresh" ELSE "garbled"

\* get_camimage and the conversion.  When the container was cleared on the
\* way the frame may still come, or be NULL; or no capture is running and
\* DQBUF waits for ever; or the capture interrupt finds no container and
\* the board stops.
Dqbuf ==
  /\ \/ Goto("dqbuf", "Invoke") /\ input' = Converted /\ UNCHANGED <<other, failures>>
     \/ Goto("dqbuf", "Invoke") /\ MayFail("capture") /\ UNCHANGED <<input, other>>
     \/ cleared /\ Goto("dqbuf", "Invoke") /\ UNCHANGED <<input, other, failures>>
     \/ cleared /\ Goto("dqbuf", "waiting") /\ UNCHANGED <<input, other, failures>>
     \/ cleared /\ Goto("dqbuf", "halted") /\ other' = "stuck" /\ UNCHANGED <<input, failures>>
  /\ UNCHANGED <<video_fd, stream, fmt, cleared, frame_mem, heap, nmsVars, searchVars, pinVars, others>>
----------------------------------------------------------------------------
(* Run and the search                                                      *)

\* The network runs whether or not there is a new image.
Invoke ==
  /\ Goto("Invoke", "sort")
  /\ \E n \in 0 .. MaxBoxes : detected' \in [1 .. n -> Tensors2Detections(Boxes)]
  /\ UNCHANGED <<camVars, input, remained, picked, ret, searchVars, pinVars, failures, others>>

NmsSort ==
  /\ Goto("sort", "nms")
  /\ detected' \in SortedOrders(detected)
  /\ remained' = 1 .. Len(detected)
  /\ UNCHANGED <<camVars, input, picked, ret, searchVars, pinVars, failures, others>>

NmsTurn ==
  /\ fpc = "nms"
  /\ \E best \in {b \in remained : Best(remained, b)} :
       \E C \in {Candidates(detected, remained, best)} :
         /\ picked' = picked \cup {best}
         /\ ret' = Append(ret, TurnResult(detected, C, best))
         /\ remained' = TurnLeaves(remained, C)
  /\ UNCHANGED <<fpc, camVars, input, detected, searchVars, pinVars, failures, others>>

NmsEnds ==
  /\ Goto("nms", "decide") /\ remained = {}
  /\ UNCHANGED <<camVars, input, nmsVars, searchVars, pinVars, failures, others>>

\* Mutant: no offset for the size in region 0.
DeOffset_centre_only(type, d) ==
  LET scale == IF type < 3 THEN 2 ELSE 1
      unit  == 400 * d.den
  IN  [x    |-> scale * d.x + Clip(type).x * unit,
       y    |-> scale * d.y + Clip(type).y * unit,
       size |-> scale * 2 * (d.w + d.h) + (IF type = 0 THEN 0 ELSE (Clip(type).x + Clip(type).y) * unit),
       unit |-> unit]

\* x and size over 320 units, y over 240.  The offsets are pixels, what
\* they are added to are fractions of the region.
DeOffset(type, d) ==
  LET scale == IF type < 3 THEN 2 ELSE 1
      unit  == 400 * d.den
  IN  [x    |-> scale * d.x + Clip(type).x * unit,
       y    |-> scale * d.y + Clip(type).y * unit,
       size |-> scale * 2 * (d.w + d.h) + (Clip(type).x + Clip(type).y) * unit,
       unit |-> unit]

\* The half-scale region for a face last seen at x: 1 left, 0 centre, 2 right.
Band(p) ==
  IF 100 * p.x < 33 * 320 * p.unit THEN 1 ELSE IF 100 * p.x < 67 * 320 * p.unit THEN 0 ELSE 2

\* floor of n / d, at least 0 and at most top.
Index(n, d, top) == Smaller(Larger(n, 0) \div d, top)

\* boxSize < 0.55: the face is small.
CloseUp(p) == Index(3 * p.y, 240 * p.unit, 3) * 4 + Index(4 * p.x, 320 * p.unit, 4)
Small(p)   == 20 * p.size < 11 * 320 * p.unit

\* The limits are the initial ones, 0.25 and 0.75 at top and bottom;
\* LoadSetting is not called.
IsHazard(p) == 4 * p.x < 320 * p.unit \/ 4 * p.x > 3 * 320 * p.unit

\* Mutant: four regions in turn.
Rotate_four == state' = (state + 1) % 4 /\ nextType' = state' + 1

\* Mutant: the state is not reduced.
Rotate_on == state' = (IF state = 15 THEN 15 ELSE state + 1) /\ nextType' = state' + 1

\* state + 1 % 3 is state + 1.
Rotate == state' = (state + 1) % 3 /\ nextType' = state' + 1

Tried(r) == since' = [s \in 1 .. 2 |-> IF s = r THEN 0 ELSE since[s] + 1]

\* A miss; newBand is what x has become.
Miss(newBand) ==
  /\ IF state < 0 /\ nextType > 2
     THEN nextType' = band /\ UNCHANGED state
     ELSE Rotate
  /\ band' = newBand
  /\ Tried(nextType)
  /\ Goto("decide", "init_video")
  /\ UNCHANGED pinVars

\* A face, with FenceOn's first writes or FenceOff.
FaceFound(p) ==
  /\ state' = -1
  /\ nextType' = IF Small(p) THEN CloseUp(p) ELSE band
  /\ band' = Band(p)
  /\ since' = [r \in 1 .. 2 |-> 0]
  /\ sck' = IF IsHazard(p) THEN 1 ELSE 0
  /\ miso' = IF IsHazard(p) THEN 1 ELSE miso
  /\ Goto("decide", IF IsHazard(p) THEN "FenceOn" ELSE "init_video")

\* The rest of FaceLoop, and main's decision.
FaceLoop ==
  /\ \/ ret = <<>> /\ Miss(1)
     \/ /\ ret # <<>>
        /\ \E p \in {DeOffset(nextType, ret[1])} :
             IF p.size < 0 THEN Miss(Band(p)) ELSE FaceFound(p)
  /\ detected' = <<>> /\ picked' = {} /\ ret' = <<>> /\ UNCHANGED remained
  /\ input' = "stale"
  /\ UNCHANGED <<camVars, failures, others>>

\* After FENCE_ON_DURATION.
FenceOnEnds ==
  /\ Goto("FenceOn", "init_video")
  /\ miso' = 0
  /\ UNCHANGED <<camVars, input, nmsVars, searchVars, sck, failures, others>>
----------------------------------------------------------------------------
(* The other task's use of the device: web_source takes one picture.  Any  *)
(* call of it that fails is followed by its close.                         *)

OtherStep(from, to) ==
  /\ other = from /\ other' = to
  /\ UNCHANGED <<video_fd, frame_mem, heap, input, nmsVars, searchVars, pinVars, failures>>

OtherOpens ==
  /\ others < MaxOthers
  /\ OtherStep("none", "reqbufs")
  /\ others' = others + 1
  /\ UNCHANGED <<fpc, stream, fmt, cleared>>

\* As Reqbufs, against an exchange of face_detect.
OtherReqbufs ==
  /\ \/ fpc # "dqbuf" /\ OtherStep("reqbufs", "s_fmt") /\ UNCHANGED cleared
     \/ fpc = "dqbuf" /\ OtherStep("reqbufs", "close") /\ UNCHANGED cleared
     \/ fpc = "dqbuf" /\ OtherStep("reqbufs", "s_fmt") /\ cleared' = TRUE
  /\ UNCHANGED <<fpc, stream, fmt, others>>

OtherSFmt ==
  /\ \/ stream = "STREAMOFF" /\ OtherStep("s_fmt", "streamon") /\ fmt' = "jpeg"
     \/ stream # "STREAMOFF" /\ OtherStep("s_fmt", "close") /\ UNCHANGED fmt
  /\ UNCHANGED <<fpc, stream, cleared, others>>

OtherStreamon ==
  /\ \/ stream = "STREAMOFF" /\ OtherStep("streamon", "qbuf") /\ stream' = "STREAMON"
     \/ stream # "STREAMOFF" /\ OtherStep("streamon", "close") /\ UNCHANGED stream
  /\ UNCHANGED <<fpc, fmt, cleared, others>>

\* Without memory for the picture there is no QBUF.
OtherQbuf ==
  /\ \/ OtherStep("qbuf", "dqbuf") /\ cleared' = FALSE
     \/ OtherStep("qbuf", "close") /\ UNCHANGED cleared
  /\ UNCHANGED <<fpc, stream, fmt, others>>

\* As Dqbuf.
OtherDqbuf ==
  /\ \/ OtherStep("dqbuf", "close") /\ UNCHANGED fpc
     \/ cleared /\ OtherStep("dqbuf", "stuck") /\ UNCHANGED fpc
     \/ cleared /\ OtherStep("dqbuf", "stuck") /\ fpc' = "halted"
  /\ UNCHANGED <<stream, fmt, cleared, others>>

\* The last close ends the stream.
OtherCloses ==
  /\ OtherStep("close", "none")
  /\ stream' = IF video_fd = "open" THEN stream ELSE "STREAMOFF"
  /\ UNCHANGED <<fpc, fmt, cleared, others>>
----------------------------------------------------------------------------
Prepare == OpenVideo \/ Reqbufs \/ SFmt \/ Memalign \/ Streamon \/ PrepareFailed

Face == Prepare \/ Qbuf \/ Dqbuf \/ Invoke \/ NmsSort \/ NmsTurn \/ NmsEnds \/ FaceLoop \/ FenceOnEnds

OtherGoesOn ==
  OtherReqbufs \/ OtherSFmt \/ OtherStreamon \/ OtherQbuf \/ OtherDqbuf \/ OtherCloses

Next == Face \/ OtherOpens \/ OtherGoesOn

Spec == Init /\ [][Next]_vars

\* Both tasks are scheduled, and the other one's transfer of its picture ends.
FairSpec == Spec /\ WF_vars(Face) /\ WF_vars(OtherGoesOn)
----------------------------------------------------------------------------
(***************************************************************************)
(* Whatever was found, and whatever the sequence of misses was, the region *)
(* searched next lies inside the frame (face_detect_main.cxx l.43-84       *)
(* against the clipping in tf_face_image_provider.c).                      *)
(***************************************************************************)
RegionInFrame == InFrame(Clip(nextType))

(***************************************************************************)
(* While no face is found the left and the right region, which together    *)
(* are the whole frame, are each tried in every third round at the latest. *)
(***************************************************************************)
SearchCovers == \A r \in 1 .. 2 : since[r] <= 2

(***************************************************************************)
(* A face found in region 0 or 2 is never taken for a miss, although the   *)
(* height NonMaxSuppression computes may be negative: the offsets outweigh *)
(* it.                                                                     *)
(***************************************************************************)
FaceTaken ==
  [][fpc = "decide" /\ fpc' \in {"FenceOn", "init_video"} /\ detected # <<>> /\ nextType \in {0, 2} => state' = -1]_vars

(***************************************************************************)
(* From QBUF until DQBUF has returned, however long it waits, the capture  *)
(* has memory to write to and an open device, however the rounds before it *)
(* failed: the static variables of tf_face_image_provider.c are in order   *)
(* again after each failure.                                               *)
(***************************************************************************)
CaptureHasMemory ==
  fpc \in {"capture", "dqbuf", "waiting"} => frame_mem = "held" /\ video_fd = "open"

\* A box without an area.
Flat(b) == b.w = 0 \/ b.h = 0

(***************************************************************************)
(* Greedy suppression: no two boxes picked overlap, each pick scores at    *)
(* least as much as the boxes after it, and every box with an area that is *)
(* not picked overlaps a pick that scores as much, unless a box without an *)
(* area has ended the loop.                                                *)
(***************************************************************************)
NmsIsGreedy ==
  fpc = "decide" =>
    /\ \A k, m \in picked : k < m =>
         ~Overlap(detected[m], detected[k]) /\ detected[k].score >= detected[m].score
    /\ \A b \in 1 .. Len(detected) :
         \/ b \in picked
         \/ \E k \in picked : Overlap(detected[b], detected[k])
                             /\ detected[k].score >= detected[b].score
         \/ \E k \in picked : Flat(detected[k])

(***************************************************************************)
(* However often the set-up of the camera fails or meets another task that *)
(* has it, the task gets pictures again: after a failure it starts from a  *)
(* closed descriptor.  It need not when the two tasks meet in one of three *)
(* places: the double free (DoubleFree); a REQBUFS of one task inside an   *)
(* exchange of the other, whose DQBUF may then wait for ever (CaptureLost  *)
(* shows it in the driver); and a JPEG S_FMT between face_detect's S_FMT   *)
(* and its STREAMON, after which the frames are not UYVY.                  *)
(***************************************************************************)
FaceRecovers ==
  []<>(input = "fresh") \/ <>(heap = "corrupt") \/ <>cleared \/ <>(input = "garbled")
----------------------------------------------------------------------------
(***************************************************************************)
(* mm_free asserts that the block it is given is allocated ("Sanity check  *)
(* against double-frees").                                                 *)
(***************************************************************************)
NoDoubleFree == heap = "sound"
=============================================================================
