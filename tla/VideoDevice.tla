---------------------------- MODULE VideoDevice ----------------------------
(***************************************************************************)
(* The V4L2 capture device /dev/video of NuttX as the two applications of  *)
(* the board use it: one stream, USERPTR buffers, RING mode and a single   *)
(* buffer container ("c0").  Any number of opens share the one stream.     *)
(*                                                                         *)
(* REQBUFS runs in a critical section, and so does the capture interrupt.  *)
(* QBUF and DQBUF do not: they are split into the steps between which      *)
(* another task or the interrupt can run.  S_FMT and STREAMON are short    *)
(* and are one step each.                                                  *)
(*                                                                         *)
(* With one container, vbuf_top = vbuf_tail = vbuf_next at all times, so   *)
(* the field "top" stands for all three, and "next" is the container's     *)
(* own link.                                                               *)
(***************************************************************************)
EXTENDS Naturals

CONSTANT Faults  \* the failures of the environment that may happen

(***************************************************************************)
(* sensor: no image sensor answers at open     heap: memalign returns NULL *)
(* sdcard: fopen for writing fails             tty: the USB serial device  *)
(* slow: a capture or a transfer is silent for longer than 1.5 s           *)
(***************************************************************************)
ASSUME FaultsAssumption == Faults \subseteq {"sensor", "heap", "sdcard", "tty", "slow"}

VARIABLES
  open_num,        \* opens of the device not yet closed
  state,           \* video_inf.state
  fmt,             \* video_inf.fmt and nr_fmt: "jpeg" is JPEG_WITH_SUBIMG
                   \* alone, "jpeg_sub" with its UYVY sub-image (nr_fmt = 2)
  vbuf,            \* bufinf: the chains and the container
  done_container,  \* wait_capture.done_container
  dma,             \* where the capture hardware writes, "off" when stopped
  fd,              \* each application's video_fd; "stale" after a close
  io,              \* where each application is inside QBUF or DQBUF
  frame_mem,       \* each application's heap buffer
  frame            \* what the last DQBUF handed to each application

devVars == <<open_num, state, fmt, vbuf, done_container, dma, fd, io,
             frame_mem, frame>>

Apps     == {"web", "ditect"}
Pointers == {"NULL", "c0"}
Formats  == {"none", "uyvy", "jpeg", "jpeg_sub"}
IoSteps  == {"none", "qbuf_get", "qbuf_copy", "qbuf_queue", "qbuf_start",
             "qbuf_state", "dq_start", "dq_sem", "dq_wait", "dq_wake",
             "ret_ok", "ret_err"}

NoContainer == [empty |-> "NULL", top |-> "NULL", curr |-> "NULL",
                next |-> "NULL", userptr |-> "NULL"]

VideoTypeOK ==
  /\ open_num \in Nat
  /\ state \in {"STREAMOFF", "STREAMON", "CAPTURE"}
  /\ fmt \in Formats
  /\ vbuf \in [empty: Pointers, top: Pointers, curr: Pointers,
               next: Pointers, userptr: Apps \cup {"NULL"}]
  /\ done_container \in Pointers
  /\ dma \in Apps \cup {"NULL", "off"}
  /\ fd \in [Apps -> {"unset", "open", "stale"}]
  /\ io \in [Apps -> IoSteps]
  /\ frame_mem \in [Apps -> {"none", "allocated", "freed"}]
  /\ frame \in [Apps -> {"none", "null", "uyvy", "jpeg", "jpeg_sub"}]

\* The device after a boot: registered, not opened.
VideoInit ==
  /\ open_num = 0
  /\ state = "STREAMOFF"
  /\ fmt = "none"
  /\ vbuf = NoContainer
  /\ done_container = "NULL"
  /\ dma = "off"
  /\ fd = [a \in Apps |-> "unset"]
  /\ io = [a \in Apps |-> "none"]
  /\ frame_mem = [a \in Apps |-> "none"]
  /\ frame = [a \in Apps |-> "none"]

\* A power loss brings the device back there.
VideoPowerLoss ==
  /\ open_num' = 0
  /\ state' = "STREAMOFF"
  /\ fmt' = "none"
  /\ vbuf' = NoContainer
  /\ done_container' = "NULL"
  /\ dma' = "off"
  /\ fd' = [a \in Apps |-> "unset"]
  /\ io' = [a \in Apps |-> "none"]
  /\ frame_mem' = [a \in Apps |-> "none"]
  /\ frame' = [a \in Apps |-> "none"]
----------------------------------------------------------------------------
(* open and close.  The stream's resources live from the first open to     *)
(* the last close; the other opens and closes only count.                  *)

initialize_streamresources ==
  /\ state' = "STREAMOFF"
  /\ fmt' = "uyvy"
  /\ vbuf' = NoContainer
  /\ done_container' = "NULL"

\* Only the first open looks for the sensor.
OpenMayFail == open_num = 0 /\ "sensor" \in Faults

\* Mutant: only the first open is counted.
video_open_counts_once(a) ==
  /\ open_num' = 1
  /\ fd' = [fd EXCEPT ![a] = "open"]
  /\ IF open_num = 0
     THEN initialize_streamresources
     ELSE UNCHANGED <<state, fmt, vbuf, done_container>>
  /\ UNCHANGED <<dma, io, frame_mem, frame>>

video_open(a) ==
  /\ open_num' = open_num + 1
  /\ fd' = [fd EXCEPT ![a] = "open"]
  /\ IF open_num = 0
     THEN initialize_streamresources
     ELSE UNCHANGED <<state, fmt, vbuf, done_container>>
  /\ UNCHANGED <<dma, io, frame_mem, frame>>

\* Stops a running capture and frees the containers.
cleanup_resources ==
  /\ dma' = IF state = "CAPTURE" THEN "off" ELSE dma
  /\ state' = "STREAMOFF"
  /\ fmt' = "none"
  /\ vbuf' = NoContainer
  /\ done_container' = "NULL"

\* close() of a stale descriptor is EBADF and changes nothing.
video_close(a) ==
  /\ IF fd[a] = "open"
     THEN /\ open_num' = open_num - 1
          /\ fd' = [fd EXCEPT ![a] = "stale"]
          /\ IF open_num = 1
             THEN cleanup_resources
             ELSE UNCHANGED <<dma, state, fmt, vbuf, done_container>>
     ELSE UNCHANGED <<open_num, fd, dma, state, fmt, vbuf, done_container>>
----------------------------------------------------------------------------
(* REQBUFS, S_FMT and STREAMON                                             *)

\* Mutant: REQBUFS does not look at the state.
ReqbufsPermitted_always == TRUE

ReqbufsPermitted == state # "CAPTURE"

\* Clears the container and puts it on the empty chain; done_container,
\* which a woken DQBUF is about to read, still points at it.
video_reqbufs ==
  /\ vbuf' = [NoContainer EXCEPT !.empty = "c0"]
  /\ UNCHANGED <<open_num, state, fmt, done_container, dma, fd, io,
                 frame_mem, frame>>

\* EBUSY while streaming, EPERM for a sub-image without its JPEG.
SFmtPermitted(f) ==
  /\ state = "STREAMOFF"
  /\ f = "jpeg_sub" => fmt \in {"jpeg", "jpeg_sub"}

video_s_fmt(f) ==
  /\ fmt' = f
  /\ UNCHANGED <<open_num, state, vbuf, done_container, dma, fd, io,
                 frame_mem, frame>>

\* change_video_state(CAPTURE): capture starts if a container is queued.
start_capture ==
  /\ vbuf' = [vbuf EXCEPT !.curr = vbuf.top]
  /\ state' = IF vbuf.top = "NULL" THEN "STREAMON" ELSE "CAPTURE"
  /\ dma' = IF vbuf.top = "NULL" THEN dma ELSE vbuf.userptr

\* Mutant: no test of the state.
StreamonPermitted_always == TRUE

StreamonPermitted == state = "STREAMOFF"

video_streamon ==
  /\ start_capture
  /\ UNCHANGED <<open_num, fmt, done_container, fd, io, frame_mem, frame>>
----------------------------------------------------------------------------
(* QBUF.  The caller sets io to "qbuf_get" and waits for "ret_ok" or       *)
(* "ret_err".                                                              *)

\* EBADF on a closed descriptor, ENOMEM without a container.
qbuf_get_container(a) ==
  /\ io[a] = "qbuf_get"
  /\ IF fd[a] = "open" /\ vbuf.empty # "NULL"
     THEN /\ vbuf' = [vbuf EXCEPT !.empty = vbuf.next, !.next = "NULL"]
          /\ io' = [io EXCEPT ![a] = "qbuf_copy"]
     ELSE /\ io' = [io EXCEPT ![a] = "ret_err"]
          /\ UNCHANGED vbuf
  /\ UNCHANGED <<open_num, state, fmt, done_container, dma, fd, frame_mem, frame>>

\* Mutant: the buffer's address is not copied.
qbuf_copy_skipped(a) ==
  /\ io[a] = "qbuf_copy"
  /\ io' = [io EXCEPT ![a] = "qbuf_queue"]
  /\ UNCHANGED <<open_num, state, fmt, vbuf, done_container, dma, fd, frame_mem, frame>>

qbuf_copy(a) ==
  /\ io[a] = "qbuf_copy"
  /\ vbuf' = [vbuf EXCEPT !.userptr = a]
  /\ io' = [io EXCEPT ![a] = "qbuf_queue"]
  /\ UNCHANGED <<open_num, state, fmt, done_container, dma, fd, frame_mem, frame>>

qbuf_queue_container(a) ==
  /\ io[a] = "qbuf_queue"
  /\ vbuf' = [vbuf EXCEPT !.top = "c0", !.next = "c0"]
  /\ io' = [io EXCEPT ![a] = "qbuf_start"]
  /\ UNCHANGED <<open_num, state, fmt, done_container, dma, fd, frame_mem, frame>>

\* The hardware is started before state says CAPTURE.
qbuf_start_capture(a) ==
  /\ io[a] = "qbuf_start"
  /\ IF state = "STREAMON" /\ vbuf.top # "NULL"
     THEN /\ vbuf' = [vbuf EXCEPT !.curr = vbuf.top]
          /\ dma' = vbuf.userptr
          /\ io' = [io EXCEPT ![a] = "qbuf_state"]
     ELSE /\ io' = [io EXCEPT ![a] = "ret_ok"]
          /\ UNCHANGED <<vbuf, dma>>
  /\ UNCHANGED <<open_num, state, fmt, done_container, fd, frame_mem, frame>>

qbuf_set_state(a) ==
  /\ io[a] = "qbuf_state"
  /\ state' = "CAPTURE"
  /\ io' = [io EXCEPT ![a] = "ret_ok"]
  /\ UNCHANGED <<open_num, fmt, vbuf, done_container, dma, fd, frame_mem, frame>>
----------------------------------------------------------------------------
(* DQBUF.  The caller sets io to "dq_start".  A ring of one container has  *)
(* no completed container to hand out at once (vbuf_top = vbuf_next), so   *)
(* DQBUF always waits for the capture interrupt.                           *)

dqbuf_start(a) ==
  /\ io[a] = "dq_start"
  /\ IF state = "STREAMON" THEN start_capture ELSE UNCHANGED <<vbuf, state, dma>>
  /\ io' = [io EXCEPT ![a] = "dq_sem"]
  /\ UNCHANGED <<open_num, fmt, done_container, fd, frame_mem, frame>>

dqbuf_sem_wait(a) ==
  /\ io[a] = "dq_sem"
  /\ io' = [io EXCEPT ![a] = "dq_wait"]
  /\ UNCHANGED <<open_num, state, fmt, vbuf, done_container, dma, fd, frame_mem, frame>>

\* Mutant: the container is not given back.
dqbuf_woken_keeps_container(a) ==
  /\ io[a] = "dq_wake"
  /\ frame' = [frame EXCEPT ![a] = IF vbuf.userptr = "NULL" THEN "null" ELSE fmt]
  /\ done_container' = "NULL"
  /\ io' = [io EXCEPT ![a] = "ret_ok"]
  /\ UNCHANGED <<open_num, state, fmt, vbuf, dma, fd, frame_mem>>

\* Copies the container out and frees it.  A container that REQBUFS cleared
\* meanwhile yields a NULL user pointer and OK.
dqbuf_woken(a) ==
  /\ io[a] = "dq_wake"
  /\ frame' = [frame EXCEPT ![a] = IF vbuf.userptr = "NULL" THEN "null" ELSE fmt]
  /\ vbuf' = [vbuf EXCEPT !.next = vbuf.empty, !.empty = "c0"]
  /\ done_container' = "NULL"
  /\ io' = [io EXCEPT ![a] = "ret_ok"]
  /\ UNCHANGED <<open_num, state, fmt, dma, fd, frame_mem>>

VideoCall(a) ==
  \/ qbuf_get_container(a)
  \/ qbuf_copy(a)
  \/ qbuf_queue_container(a)
  \/ qbuf_start_capture(a)
  \/ qbuf_set_state(a)
  \/ dqbuf_start(a)
  \/ dqbuf_sem_wait(a)
  \/ dqbuf_woken(a)
----------------------------------------------------------------------------
(* The capture interrupt.                                                  *)

\* Mutant: the hardware is not stopped when no container is left.
complete_capture_waited_runs_on(a) ==
  /\ dma # "off" /\ vbuf.curr # "NULL"
  /\ io[a] = "dq_wait"
  /\ io' = [io EXCEPT ![a] = "dq_wake"]
  /\ done_container' = vbuf.top
  /\ vbuf' = [vbuf EXCEPT !.top = "NULL", !.curr = "NULL"]
  /\ state' = "STREAMON"
  /\ UNCHANGED <<open_num, fmt, dma, fd, frame_mem, frame>>

\* Somebody waits in DQBUF: the container is popped for it, none is left,
\* and the capture stops.
complete_capture_waited(a) ==
  /\ dma # "off" /\ vbuf.curr # "NULL"
  /\ io[a] = "dq_wait"
  /\ io' = [io EXCEPT ![a] = "dq_wake"]
  /\ done_container' = vbuf.top
  /\ vbuf' = [vbuf EXCEPT !.top = "NULL", !.curr = "NULL"]
  /\ dma' = "off"
  /\ state' = "STREAMON"
  /\ UNCHANGED <<open_num, fmt, fd, frame_mem, frame>>

\* Mutant: the capture ends as it would in FIFO mode.
complete_capture_unwaited_stops ==
  /\ dma # "off" /\ vbuf.curr # "NULL"
  /\ \A a \in Apps : io[a] # "dq_wait"
  /\ vbuf' = [vbuf EXCEPT !.curr = "NULL"]
  /\ dma' = "off"
  /\ state' = "STREAMON"
  /\ UNCHANGED <<open_num, fmt, done_container, fd, io, frame_mem, frame>>

\* Nobody waits: the ring's only container is captured into again.
complete_capture_unwaited ==
  /\ dma # "off" /\ vbuf.curr # "NULL"
  /\ \A a \in Apps : io[a] # "dq_wait"
  /\ vbuf' = [vbuf EXCEPT !.curr = vbuf.top]
  /\ dma' = vbuf.userptr
  /\ UNCHANGED <<open_num, state, fmt, done_container, fd, io, frame_mem, frame>>

\* The handler writes through vbuf_curr without a test.
CaptureFaults == dma # "off" /\ vbuf.curr = "NULL"

video_complete_capture ==
  \/ \E a \in Apps : complete_capture_waited(a)
  \/ complete_capture_unwaited
----------------------------------------------------------------------------
\* The descriptors that are open, as a number.
OpenDescriptors ==
  (IF fd["web"] = "open" THEN 1 ELSE 0) + (IF fd["ditect"] = "open" THEN 1 ELSE 0)

(***************************************************************************)
(* The driver's open count is the number of descriptors in use, whichever  *)
(* way each application left its camera code (l.1020-1086 of video.c, and  *)
(* the closes on every error path of the two camera_prepare).              *)
(***************************************************************************)
OpenCountExact == open_num = OpenDescriptors

(***************************************************************************)
(* The capture hardware never writes into a frame buffer its owner does    *)
(* not hold: set_camimage and get_camimage give and take the one buffer    *)
(* in turn, and a free comes only after a capture has ended.               *)
(***************************************************************************)
DmaIntoHeldMemory == \A a \in Apps : dma = a => frame_mem[a] = "allocated" /\ fd[a] = "open"

(***************************************************************************)
(* A QBUF on an open descriptor always finds the container, even when the  *)
(* other application's REQBUFS rebuilt the chains in the middle of an      *)
(* exchange.                                                               *)
(***************************************************************************)
QbufFindsContainer ==
  \A a \in Apps : io[a] = "qbuf_get" /\ fd[a] = "open" => vbuf.empty = "c0"
============================================================================
