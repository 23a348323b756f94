---------------------------- MODULE GuardProofs ----------------------------
(***************************************************************************)
(* Proofs about the guard's round on the board: the buffer that goes back  *)
(* and forth between an application and the driver, the background picture *)
(* diff_ditect compares with, the frame it compares, and the relay pin it  *)
(* drives.  As in BoardProofs, for every value of the constants.           *)
(***************************************************************************)
EXTENDS BoardProofs

----------------------------------------------------------------------------
(* The buffer exchange.  One container circulates; REQBUFS of the other    *)
(* application may rebuild the chains at any moment of the exchange in     *)
(* which the state does not yet say CAPTURE.                               *)

\* Where an application is inside a driver call follows from where it is.
\* QBUF fails for web_source alone, on the descriptor it has closed.
IoPhase ==
  /\ wpc \notin {"qbuf", "dqbuf"} => io["web"] = "none"
  /\ wpc = "qbuf" => io["web"] \in {"qbuf_get", "qbuf_copy", "qbuf_queue", "qbuf_start",
                                    "qbuf_state", "ret_ok", "ret_err"}
  /\ wpc = "qbuf" /\ fd["web"] = "open" => io["web"] # "ret_err"
  /\ wpc = "dqbuf" => io["web"] \in {"dq_start", "dq_sem", "dq_wait", "dq_wake", "ret_ok"}
  /\ dpc \notin {"qbuf", "dqbuf"} => io["ditect"] = "none"
  /\ dpc = "qbuf" => io["ditect"] \in {"qbuf_get", "qbuf_copy", "qbuf_queue",
                                       "qbuf_start", "qbuf_state", "ret_ok"}
  /\ dpc = "dqbuf" => io["ditect"] \in {"dq_start", "dq_sem", "dq_wait", "dq_wake", "ret_ok"}

\* A frame buffer is allocated before it is queued and freed after the close.
FrameBuffers ==
  /\ wpc \in {"qbuf", "dqbuf"} => frame_mem["web"] = "allocated"
  /\ DitectStreams \/ dpc = "streamon" => frame_mem["ditect"] = "allocated"

\* Nobody streams, nothing is captured; and what REQBUFS prepared is there
\* for the one that will start the stream.
Stopped ==
  /\ ~WebStreams /\ ~DitectStreams => dma = "off"
  /\ state = "STREAMOFF" => vbuf.top = "NULL" /\ vbuf.userptr = "NULL"
  /\ /\ state = "STREAMOFF"
     /\ wpc \in {"s_fmt_main", "s_fmt_sub", "streamon"}
        \/ dpc \in {"s_fmt", "memalign", "streamon"}
     => vbuf.empty = "c0"

\* The container and the hardware while application a streams; "back" says
\* that its DQBUF has handed the container back.
Exchange(a, back) ==
  /\ vbuf.userptr \in {a, "NULL"}
  /\ dma \in {a, "NULL", "off"}
  /\ io[a] \in {"none", "qbuf_get", "qbuf_copy", "qbuf_queue", "qbuf_start", "dq_wake"}
     \/ back => state = "STREAMON" /\ dma = "off"
  /\ io[a] = "qbuf_state" => state = "STREAMON"
  /\ io[a] \in {"none", "qbuf_get"} \/ back => vbuf.empty = "c0"
  /\ io[a] \in {"none", "qbuf_get", "qbuf_copy", "dq_wake"} \/ back => vbuf.top = "NULL"

WebBack    == wpc = "dqbuf" /\ io["web"] = "ret_ok"
DitectBack == dpc = "dqbuf" /\ io["ditect"] = "ret_ok"

ExchangeInv ==
  /\ WebStreams => Exchange("web", WebBack)
  /\ DitectStreams => Exchange("ditect", DitectBack)

CaptureInv == IoPhase /\ FrameBuffers /\ Stopped /\ ExchangeInv

\* A step that changes nothing of it.
LEMMA CaptureFrame ==
  ASSUME CaptureInv, UNCHANGED <<state, vbuf, dma, fd, io, frame_mem, wpc, dpc>>
  PROVE  CaptureInv'
BY DEF CaptureInv, IoPhase, FrameBuffers, Stopped, ExchangeInv, Exchange, WebBack,
       DitectBack, WebStreams, DitectStreams

\* web_source's steps.
LEMMA WebKeepsCapture == ASSUME TypeOK, CameraInv, CaptureInv, Web PROVE CaptureInv'
<1> USE DEF CaptureInv, IoPhase, FrameBuffers, Stopped, ExchangeInv, Exchange, WebBack,
            DitectBack, WebStreams, DitectStreams, TypeOK, VideoTypeOK, Apps, CameraInv,
            OpenCountExact, OpenDescriptors, WebFd, DitectFd, StreamStarted,
            StreamExclusive, WebGoto, devVars, ditectVars
<1>1. CASE WebStart BY <1>1 DEF Web, WebStart
<1>2. CASE WebRead BY <1>2 DEF Web, WebRead, Dispatch
<1>3. CASE WebOpen
  BY <1>3 DEF Web, WebOpen, video_open, initialize_streamresources, NoContainer
<1>4. CASE WebReqbufs
  BY <1>4 DEF Web, WebReqbufs, WebRefused, ReqbufsPermitted, video_reqbufs, NoContainer
<1>5. CASE WebSFmtMain BY <1>5 DEF Web, WebSFmtMain, WebRefused, video_s_fmt
<1>6. CASE WebSFmtSub BY <1>6 DEF Web, WebSFmtSub, WebRefused, video_s_fmt
<1>7. CASE WebStreamon
  BY <1>7 DEF Web, WebStreamon, WebRefused, StreamonPermitted, video_streamon, start_capture
<1>8. CASE WebMemalign BY <1>8 DEF Web, WebMemalign
<1>9. CASE WebQbufReturns BY <1>9 DEF Web, WebQbufReturns
<1>10. CASE WebDqbufReturns BY <1>10 DEF Web, WebDqbufReturns
<1>11. CASE WebSend BY <1>11 DEF Web, WebSend
<1>12. CASE WebSent BY <1>12 DEF Web, WebSent
<1>13. CASE WebSaveOpen
  BY <1>13 DEF Web, WebSaveOpen, video_close, cleanup_resources, NoContainer
<1>14. CASE WebSaveClose BY <1>14 DEF Web, WebSaveClose
<1>15. CASE WebCamClose
  BY <1>15 DEF Web, WebCamClose, video_close, cleanup_resources, NoContainer
<1>16. CASE WebSetOpen BY <1>16 DEF Web, WebSetOpen, WebFopenFails
<1>17. CASE WebSetClose BY <1>17 DEF Web, WebSetClose
<1>18. CASE WebOnOpen BY <1>18 DEF Web, WebOnOpen, WebFopenFails
<1>19. CASE WebOnClose BY <1>19 DEF Web, WebOnClose
<1>20. CASE WebFail
  BY <1>20 DEF Web, WebFail, video_close, cleanup_resources, NoContainer
<1> QED
  BY <1>1, <1>2, <1>3, <1>4, <1>5, <1>6, <1>7, <1>8, <1>9, <1>10, <1>11, <1>12, <1>13,
     <1>14, <1>15, <1>16, <1>17, <1>18, <1>19, <1>20 DEF Web, WebNext

\* diff_ditect's steps: most of the streaming ones leave the device alone.
LEMMA DitectKeepsCapture == ASSUME TypeOK, CameraInv, CaptureInv, Ditect PROVE CaptureInv'
<1> DEFINE Outside == {"loop", "sw_read", "sw_cmd", "sw_close", "sw_remove", "load_read",
                       "set_camimage", "find", "pulse_on", "on_wait", "pulse_off", "sleep"}
<1> USE DEF Ditect, webVars, Goto, PrepareStep
<1>1. ASSUME dpc \in Outside, dpc' \in Outside,
             UNCHANGED <<state, vbuf, dma, fd, io, frame_mem, wpc>>
      PROVE  CaptureInv'
  BY <1>1 DEF CaptureInv, IoPhase, FrameBuffers, Stopped, ExchangeInv, Exchange, WebBack,
     DitectBack, WebStreams, DitectStreams
<1>2. CASE \/ SwitchOpen \/ SwitchRead \/ ForceOn \/ ForceOff \/ IgnoreSwitch
           \/ SwitchClose \/ SwitchRemove \/ FencePulseOn \/ FenceExpires \/ FenceReturns
           \/ NoSwitch \/ LoadPic \/ FindNobody \/ FindHazard \/ FindSafe \/ EndRound
  BY <1>1, <1>2 DEF devVars, SwitchOpen, SwitchRead, ForceOn, ForceOff, IgnoreSwitch,
     SwitchClose, SwitchRemove, FencePulseOn, FenceExpires, FenceReturns, FenceStep,
     NoSwitch, LoadPic, FindNobody, FindHazard, FindSafe, EndRound
<1> USE DEF CaptureInv, IoPhase, FrameBuffers, Stopped, ExchangeInv, Exchange, WebBack,
            DitectBack, WebStreams, DitectStreams, TypeOK, VideoTypeOK, Apps, CameraInv,
            OpenCountExact, OpenDescriptors, WebFd, DitectFd, StreamStarted,
            StreamExclusive, devVars
<1>3. CASE DitectSetCamimage BY <1>3 DEF DitectSetCamimage, CallVideo
<1>4. CASE DitectQbufReturns BY <1>4 DEF DitectQbufReturns, CallVideo
<1>5. CASE DitectDqbufReturns BY <1>5 DEF DitectDqbufReturns, CallVideo
<1>6. CASE GPIO_init(Running) BY <1>6 DEF GPIO_init
<1>7. CASE Load_setting BY <1>7 DEF Load_setting
<1>8. CASE DitectOpen
  BY <1>8 DEF DitectOpen, video_open, initialize_streamresources, NoContainer
<1>9. CASE DitectReqbufs
  BY <1>9 DEF DitectReqbufs, ReqbufsPermitted, video_reqbufs, NoContainer
<1>10. CASE DitectSFmt BY <1>10 DEF DitectSFmt, video_s_fmt
<1>11. CASE DitectMemalign
  BY <1>11 DEF DitectMemalign, video_close, cleanup_resources, NoContainer
<1>12. CASE DitectStreamon
  BY <1>12 DEF DitectStreamon, StreamonPermitted, video_streamon, start_capture
<1>13. CASE DitectFail
  BY <1>13 DEF DitectFail, video_close, cleanup_resources, NoContainer
<1> QED
  BY <1>2, <1>3, <1>4, <1>5, <1>6, <1>7, <1>8, <1>9, <1>10, <1>11, <1>12, <1>13
  DEF DitectNext

\* The steps of QBUF and DQBUF.
LEMMA DriverKeepsCapture ==
  ASSUME TypeOK, CameraInv, CaptureInv, NEW a \in Apps, Driver(a)
  PROVE  CaptureInv'
<1> USE DEF CaptureInv, IoPhase, FrameBuffers, Stopped, ExchangeInv, Exchange, WebBack,
            DitectBack, WebStreams, DitectStreams, TypeOK, VideoTypeOK, Apps, CameraInv,
            WebFd, DitectFd, StreamStarted, StreamExclusive, Driver, webVars, ditectVars
<1>1. CASE qbuf_get_container(a)
  <2>1. io[a] = "qbuf_get" /\ UNCHANGED <<state, dma, fd, frame_mem, wpc, dpc>>
    BY <1>1 DEF qbuf_get_container
  <2>2. CASE fd[a] = "open"
    <3>1. vbuf.empty = "c0" BY <2>1, <2>2
    <3>2. vbuf'.top = vbuf.top /\ vbuf'.userptr = vbuf.userptr
      BY <1>1 DEF qbuf_get_container
    <3>3. io' = [io EXCEPT ![a] = "qbuf_copy"]
      BY <1>1, <2>2, <3>1 DEF qbuf_get_container
    <3> QED BY <2>1, <2>2, <3>2, <3>3
  <2>3. CASE fd[a] # "open"
    <3>1. io' = [io EXCEPT ![a] = "ret_err"] /\ UNCHANGED vbuf
      BY <1>1, <2>3 DEF qbuf_get_container
    <3> QED BY <2>1, <2>3, <3>1
  <2> QED BY <2>2, <2>3
<1>2. CASE qbuf_copy(a) BY <1>2 DEF qbuf_copy
<1>3. CASE qbuf_queue_container(a) BY <1>3 DEF qbuf_queue_container
<1>4. CASE qbuf_start_capture(a) BY <1>4 DEF qbuf_start_capture
<1>5. CASE qbuf_set_state(a) BY <1>5 DEF qbuf_set_state
<1>6. CASE dqbuf_start(a) BY <1>6 DEF dqbuf_start, start_capture
<1>7. CASE dqbuf_sem_wait(a) BY <1>7 DEF dqbuf_sem_wait
<1>8. CASE dqbuf_woken(a) BY <1>8 DEF dqbuf_woken
<1> QED BY <1>1, <1>2, <1>3, <1>4, <1>5, <1>6, <1>7, <1>8 DEF VideoCall

\* The capture interrupt.
LEMMA InterruptKeepsCapture ==
  ASSUME TypeOK, CameraInv, CaptureInv, Interrupt
  PROVE  CaptureInv'
<1> USE DEF CaptureInv, IoPhase, FrameBuffers, Stopped, ExchangeInv, Exchange, WebBack,
            DitectBack, WebStreams, DitectStreams, TypeOK, VideoTypeOK, Apps, CameraInv,
            WebFd, DitectFd, StreamStarted, StreamExclusive, Interrupt, webVars, ditectVars
<1>1. ASSUME NEW a \in Apps, complete_capture_waited(a) PROVE CaptureInv'
  BY <1>1 DEF complete_capture_waited
<1>2. CASE complete_capture_unwaited BY <1>2 DEF complete_capture_unwaited
<1> QED BY <1>1, <1>2 DEF video_complete_capture

\* Every step keeps the exchange.
LEMMA NextCapture == TypeOK /\ CameraInv /\ CaptureInv /\ [Next]_vars => CaptureInv'
<1> SUFFICES ASSUME TypeOK, CameraInv, CaptureInv, [Next]_vars PROVE CaptureInv' OBVIOUS
<1>1. CASE Server
  BY <1>1, CaptureFrame DEF Server, ServerSends, ServerGetsPicture, ServerReadsNothing,
     ServerRestarts, devVars, ditectVars
<1>2. CASE Web BY <1>2, WebKeepsCapture
<1>3. CASE Ditect BY <1>3, DitectKeepsCapture
<1>4. CASE \E a \in Apps : Driver(a) BY <1>4, DriverKeepsCapture
<1>5. CASE Interrupt BY <1>5, InterruptKeepsCapture
<1>6. CASE UNCHANGED vars
  BY <1>6, CaptureFrame DEF vars, devVars, webVars, ditectVars
<1> USE DEF CaptureInv, IoPhase, FrameBuffers, Stopped, ExchangeInv, WebStreams,
            DitectStreams, TypeOK, VideoTypeOK, Apps
<1>7. CASE InterruptFaults BY <1>7 DEF InterruptFaults, CameraInv, StreamStarted
<1>8. CASE PowerLoss
  BY <1>8 DEF PowerLoss, VideoPowerLoss, WebPowerLoss, DitectPowerLoss, NoContainer
<1> QED BY <1>1, <1>2, <1>3, <1>4, <1>5, <1>6, <1>7, <1>8 DEF Next

\* At a boot nothing is exchanged.
LEMMA InitCapture == Init => CaptureInv
BY DEF Init, VideoInit, WebInit, DitectInit, NoContainer, CaptureInv, IoPhase,
       FrameBuffers, Stopped, ExchangeInv, WebStreams, DitectStreams, Apps

\* The exchange holds in every reachable state.
LEMMA CaptureInvariant == Spec => []CaptureInv
<1>1. TypeOK /\ CameraInv /\ CaptureInv /\ [Next]_vars => CaptureInv' BY NextCapture
<1> QED BY <1>1, InitCapture, TypesAndCamera, PTL DEF Spec

(***************************************************************************)
(* The capture hardware never writes into a buffer that its owner has      *)
(* freed or has not allocated yet, whatever the other application's        *)
(* REQBUFS, failures and reboots do in between.                            *)
(***************************************************************************)
THEOREM DmaSafe == Spec => []DmaIntoHeldMemory
<1>1. TypeOK /\ CameraInv /\ CaptureInv => DmaIntoHeldMemory
  BY DEF CaptureInv, IoPhase, FrameBuffers, Stopped, ExchangeInv, Exchange, WebStreams,
     DitectStreams, CameraInv, DitectFd, DmaIntoHeldMemory, Apps
<1> QED BY <1>1, CaptureInvariant, TypesAndCamera, PTL

(***************************************************************************)
(* QBUF never runs out of containers, although there is only one and the   *)
(* other application may rebuild the chains at any time before CAPTURE.    *)
(***************************************************************************)
THEOREM QbufNeverStarves == Spec => []QbufFindsContainer
<1>1. CameraInv /\ CaptureInv => QbufFindsContainer
  BY DEF CaptureInv, IoPhase, ExchangeInv, Exchange, WebStreams, DitectStreams, CameraInv,
     QbufFindsContainer, Apps
<1> QED BY <1>1, CaptureInvariant, TypesAndCamera, PTL

----------------------------------------------------------------------------
(* The interrupt and the container it writes through.                      *)

\* Hardware that runs before the state says CAPTURE was started by a QBUF
\* that is about to say so; and what is captured into is queued.
WindowInv ==
  /\ dma # "off" /\ state # "CAPTURE" => \E a \in Apps : io[a] = "qbuf_state"
  /\ vbuf.curr # "NULL" => vbuf.top # "NULL"

\* What FaultNeedsWindow says of a step.
WindowStep ==
  ~CaptureFaults /\ CaptureFaults'
    => \E a \in Apps : io[a] = "qbuf_state" /\ io'[a] = "qbuf_state"

\* A step that leaves the hardware and the chains alone and leaves no QBUF
\* before its end.
LEMMA WindowFrame ==
  ASSUME WindowInv, UNCHANGED <<state, dma, vbuf>>,
         \A a \in Apps : io[a] = "qbuf_state" => io'[a] = "qbuf_state"
  PROVE  WindowInv' /\ WindowStep
BY DEF WindowInv, WindowStep, CaptureFaults

\* An application inside a QBUF that has started the hardware has the
\* device open, so no other close is the last one.
LEMMA WindowOpen ==
  ASSUME CameraInv, CaptureInv, NEW a \in Apps, io[a] = "qbuf_state"
  PROVE  fd[a] = "open"
BY DEF Apps, CameraInv, CaptureInv, IoPhase, WebFd, DitectFd, DitectStreams

\* open and close: the resources change only when nobody has the device.
LEMMA OpenWindow ==
  ASSUME TypeOK, CameraInv, CaptureInv, WindowInv, NEW b \in Apps, video_open(b)
  PROVE  WindowInv' /\ WindowStep
<1>1. CASE open_num = 0
  <2>1. \A a \in Apps : fd[a] # "open"
    BY <1>1 DEF CameraInv, OpenCountExact, OpenDescriptors, Apps
  <2>2. dma = "off"
    BY <2>1 DEF Apps, CaptureInv, Stopped, CameraInv, DitectFd, WebStreams
  <2> QED
    BY <1>1, <2>2 DEF video_open, initialize_streamresources, NoContainer, WindowInv,
       WindowStep, CaptureFaults
<1>2. CASE open_num # 0 BY <1>2, WindowFrame DEF video_open
<1> QED BY <1>1, <1>2

\* close, by an application that is in no driver call.
LEMMA CloseWindow ==
  ASSUME TypeOK, CameraInv, CaptureInv, WindowInv, NEW b \in Apps, video_close(b),
         UNCHANGED io, io[b] = "none"
  PROVE  WindowInv' /\ WindowStep
<1>1. CASE fd[b] = "open" /\ open_num = 1
  <2>1. \A a \in Apps : fd[a] = "open" => a = b
    BY <1>1 DEF CameraInv, OpenCountExact, OpenDescriptors, Apps
  <2>2. \A a \in Apps : io[a] # "qbuf_state"
    BY <2>1, WindowOpen
  <2>3. dma' = "off" /\ vbuf'.curr = "NULL"
    BY <1>1, <2>2 DEF video_close, cleanup_resources, NoContainer, WindowInv
  <2> QED BY <2>3 DEF WindowInv, WindowStep, CaptureFaults
<1>2. CASE ~(fd[b] = "open" /\ open_num = 1)
  BY <1>2, WindowFrame DEF video_close
<1> QED BY <1>1, <1>2

\* REQBUFS, refused while the state says CAPTURE.
LEMMA ReqbufsWindow ==
  ASSUME TypeOK, WindowInv, ReqbufsPermitted, video_reqbufs
  PROVE  WindowInv' /\ WindowStep
BY DEF ReqbufsPermitted, video_reqbufs, NoContainer, WindowInv, WindowStep, CaptureFaults,
       TypeOK, VideoTypeOK, Apps

\* STREAMON, on a stopped stream that holds no buffer.
LEMMA StreamonWindow ==
  ASSUME TypeOK, CaptureInv, WindowInv, StreamonPermitted, video_streamon
  PROVE  WindowInv' /\ WindowStep
BY DEF StreamonPermitted, video_streamon, start_capture, CaptureInv, Stopped, WindowInv,
       WindowStep, CaptureFaults, TypeOK, VideoTypeOK

\* web_source's steps.
LEMMA WebKeepsWindow ==
  ASSUME TypeOK, CameraInv, CaptureInv, WindowInv, Web
  PROVE  WindowInv' /\ WindowStep
<1> USE DEF Web, WebGoto, WebRefused, WebFopenFails
<1>1. io["web"] # "qbuf_state" \/ wpc = "qbuf" BY DEF CaptureInv, IoPhase
<1>2. io \in [Apps -> IoSteps] /\ "web" \in Apps BY DEF TypeOK, VideoTypeOK, Apps
<1>3. CASE \/ WebStart \/ WebRead \/ WebSFmtMain \/ WebSFmtSub \/ WebMemalign
           \/ WebQbufReturns \/ WebDqbufReturns \/ WebSend \/ WebSent \/ WebSaveClose
           \/ WebSetOpen \/ WebSetClose \/ WebOnOpen \/ WebOnClose
  BY <1>1, <1>2, <1>3, WindowFrame DEF devVars, WebStart, WebRead, WebSFmtMain, WebSFmtSub,
     WebMemalign, WebQbufReturns, WebDqbufReturns, WebSend, WebSent, WebSaveClose,
     WebSetOpen, WebSetClose, WebOnOpen, WebOnClose, video_s_fmt
<1>4. CASE WebOpen BY <1>2, <1>4, OpenWindow, WindowFrame DEF devVars, WebOpen
<1>5. CASE WebReqbufs BY <1>2, <1>5, ReqbufsWindow, WindowFrame DEF devVars, WebReqbufs
<1>6. CASE WebStreamon BY <1>2, <1>6, StreamonWindow, WindowFrame DEF devVars, WebStreamon
<1>7. CASE WebSaveOpen \/ WebCamClose \/ WebFail
  <2>1. io["web"] = "none" /\ UNCHANGED io
    BY <1>7 DEF CaptureInv, IoPhase, WebSaveOpen, WebCamClose, WebFail, devVars
  <2> QED
    BY <1>2, <1>7, <2>1, CloseWindow, WindowFrame DEF WebSaveOpen, WebCamClose, WebFail,
       devVars
<1> QED BY <1>3, <1>4, <1>5, <1>6, <1>7 DEF WebNext

\* diff_ditect's steps.
LEMMA DitectKeepsWindow ==
  ASSUME TypeOK, CameraInv, CaptureInv, WindowInv, Ditect
  PROVE  WindowInv' /\ WindowStep
<1> USE DEF Ditect, Goto, PrepareStep
<1>1. io["ditect"] # "qbuf_state" \/ dpc = "qbuf" BY DEF CaptureInv, IoPhase
<1>2. io \in [Apps -> IoSteps] /\ "ditect" \in Apps BY DEF TypeOK, VideoTypeOK, Apps
<1>3. CASE \/ SwitchOpen \/ SwitchRead \/ ForceOn \/ ForceOff \/ IgnoreSwitch
           \/ SwitchClose \/ SwitchRemove \/ FencePulseOn \/ FenceExpires \/ FenceReturns
           \/ NoSwitch \/ LoadPic \/ FindNobody \/ FindHazard \/ FindSafe \/ EndRound
           \/ GPIO_init(Running) \/ Load_setting
  BY <1>3, WindowFrame DEF devVars, SwitchOpen, SwitchRead, ForceOn, ForceOff, IgnoreSwitch,
     SwitchClose, SwitchRemove, FencePulseOn, FenceExpires, FenceReturns, FenceStep,
     NoSwitch, LoadPic, FindNobody, FindHazard, FindSafe, EndRound, GPIO_init, Load_setting
<1>4. CASE DitectSetCamimage \/ DitectQbufReturns \/ DitectDqbufReturns \/ DitectSFmt
  BY <1>1, <1>2, <1>4, WindowFrame DEF devVars, DitectSetCamimage, DitectQbufReturns,
     DitectDqbufReturns, DitectSFmt, CallVideo, video_s_fmt
<1>5. CASE DitectOpen BY <1>2, <1>5, OpenWindow, WindowFrame DEF devVars, DitectOpen
<1>6. CASE DitectReqbufs BY <1>2, <1>6, ReqbufsWindow, WindowFrame DEF devVars, DitectReqbufs
<1>7. CASE DitectStreamon
  BY <1>2, <1>7, StreamonWindow, WindowFrame DEF devVars, DitectStreamon
<1>8. CASE DitectMemalign \/ DitectFail
  <2>1. io["ditect"] = "none" /\ UNCHANGED io
    BY <1>8 DEF CaptureInv, IoPhase, DitectMemalign, DitectFail, devVars
  <2> QED
    BY <1>2, <1>8, <2>1, CloseWindow, WindowFrame DEF DitectMemalign, DitectFail, devVars
<1> QED BY <1>3, <1>4, <1>5, <1>6, <1>7, <1>8 DEF DitectNext

\* QBUF and DQBUF: the hardware is started on a queued container only.
LEMMA DriverKeepsWindow ==
  ASSUME TypeOK, CameraInv, CaptureInv, WindowInv, NEW a \in Apps, Driver(a)
  PROVE  WindowInv' /\ WindowStep
<1> USE DEF Driver, WindowInv, WindowStep, CaptureFaults, TypeOK, VideoTypeOK, Pointers
<1>1. CASE qbuf_get_container(a) \/ qbuf_copy(a) \/ dqbuf_sem_wait(a) \/ dqbuf_woken(a)
  <2>1. vbuf'.curr = vbuf.curr /\ vbuf'.top = vbuf.top /\ UNCHANGED <<state, dma>>
    BY <1>1 DEF qbuf_get_container, qbuf_copy, dqbuf_sem_wait, dqbuf_woken
  <2>2. \A b \in Apps : io[b] = "qbuf_state" => io'[b] = "qbuf_state"
    BY <1>1 DEF qbuf_get_container, qbuf_copy, dqbuf_sem_wait, dqbuf_woken
  <2> QED BY <2>1, <2>2
<1>2. CASE qbuf_queue_container(a) BY <1>2 DEF qbuf_queue_container
<1>3. CASE qbuf_start_capture(a) BY <1>3 DEF qbuf_start_capture
<1>4. CASE qbuf_set_state(a) BY <1>4 DEF qbuf_set_state
<1>5. CASE dqbuf_start(a) BY <1>5 DEF dqbuf_start, start_capture
<1> QED BY <1>1, <1>2, <1>3, <1>4, <1>5 DEF VideoCall

\* The interrupt pops the container and stops, or captures into what is
\* still queued.
LEMMA InterruptKeepsWindow ==
  ASSUME TypeOK, WindowInv, Interrupt
  PROVE  WindowInv' /\ WindowStep
<1> USE DEF Interrupt, WindowInv, WindowStep, CaptureFaults, TypeOK, VideoTypeOK, Pointers
<1>1. ASSUME NEW a \in Apps, complete_capture_waited(a) PROVE WindowInv' /\ WindowStep
  BY <1>1 DEF complete_capture_waited
<1>2. CASE complete_capture_unwaited BY <1>2 DEF complete_capture_unwaited
<1> QED BY <1>1, <1>2 DEF video_complete_capture

\* Every step.
LEMMA NextWindow ==
  TypeOK /\ CameraInv /\ CaptureInv /\ WindowInv /\ [Next]_vars => WindowInv' /\ WindowStep
<1> SUFFICES ASSUME TypeOK, CameraInv, CaptureInv, WindowInv, [Next]_vars
             PROVE  WindowInv' /\ WindowStep
  OBVIOUS
<1>1. CASE Server \/ UNCHANGED vars
  BY <1>1, WindowFrame DEF Server, ServerSends, ServerGetsPicture, ServerReadsNothing,
     ServerRestarts, vars, devVars
<1>2. CASE Web BY <1>2, WebKeepsWindow
<1>3. CASE Ditect BY <1>3, DitectKeepsWindow
<1>4. CASE \E a \in Apps : Driver(a) BY <1>4, DriverKeepsWindow
<1>5. CASE Interrupt BY <1>5, InterruptKeepsWindow
<1>6. CASE InterruptFaults
  BY <1>6 DEF InterruptFaults, WindowInv, WindowStep, CaptureFaults
<1>7. CASE PowerLoss
  BY <1>7 DEF PowerLoss, VideoPowerLoss, NoContainer, WindowInv, WindowStep, CaptureFaults
<1> QED BY <1>1, <1>2, <1>3, <1>4, <1>5, <1>6, <1>7 DEF Next

(***************************************************************************)
(* The capture interrupt finds vbuf_curr NULL only after a REQBUFS of the  *)
(* other task in the window of one QBUF, between the start of the hardware *)
(* and the state CAPTURE: with both tasks, every command of the browser,   *)
(* every failure and any number of power losses.                           *)
(***************************************************************************)
THEOREM FaultOnlyInWindow == Spec => FaultNeedsWindow
<1>1. Init => WindowInv
  BY DEF Init, VideoInit, NoContainer, WindowInv
<1>2. TypeOK /\ CameraInv /\ CaptureInv /\ WindowInv /\ [Next]_vars => WindowInv'
  BY NextWindow
<1>3. TypeOK /\ CameraInv /\ CaptureInv /\ WindowInv /\ [Next]_vars => [WindowStep]_vars
  BY NextWindow
<1>4. [WindowStep]_vars
        => [~CaptureFaults /\ CaptureFaults'
              => \E a \in Apps : io[a] = "qbuf_state" /\ io'[a] = "qbuf_state"]_vars
  BY DEF WindowStep
<1> QED
  BY <1>1, <1>2, <1>3, <1>4, TypesAndCamera, CaptureInvariant, PTL DEF Spec, FaultNeedsWindow

----------------------------------------------------------------------------
(* The relay.                                                              *)

\* Until the loop begins the fence is off and isOn says so; inside Fence_on
\* the pin is driven and isOn may lag.
RelayInv ==
  /\ dpc \in {"start", "load_setting", "open", "reqbufs", "s_fmt", "memalign", "streamon"}
       => ~isOn /\ sck = 1
  /\ InFenceOn => sck = 0
  /\ RelayMatches

\* diff_ditect's steps, the only ones that drive the pin.
LEMMA DitectKeepsRelay == ASSUME TypeOK, RelayInv, Ditect PROVE RelayInv'
<1> USE DEF Ditect, Goto, RelayInv, RelayMatches, InFenceOn, DitectStreams, TypeOK,
            DitectTypeOK
<1>1. CASE ForceOn BY <1>1 DEF ForceOn
<1>2. CASE ForceOff BY <1>2 DEF ForceOff
<1>3. CASE FindHazard BY <1>3 DEF FindHazard
<1>4. CASE FindSafe BY <1>4 DEF FindSafe
<1>5. CASE FencePulseOn \/ FenceExpires \/ FenceReturns
  BY <1>5 DEF FencePulseOn, FenceExpires, FenceReturns, FenceStep
<1>6. CASE GPIO_init(Running) \/ Load_setting
  BY <1>6 DEF GPIO_init, Load_setting
<1>7. CASE \/ DitectOpen \/ DitectReqbufs \/ DitectSFmt \/ DitectMemalign
           \/ DitectStreamon \/ DitectFail \/ DitectSetCamimage \/ DitectQbufReturns
           \/ DitectDqbufReturns \/ FindNobody
  BY <1>7 DEF PrepareStep, DitectOpen, DitectReqbufs, DitectSFmt, DitectMemalign,
     DitectStreamon, DitectFail, DitectSetCamimage, DitectQbufReturns,
     DitectDqbufReturns, FindNobody
<1>8. CASE \/ SwitchOpen \/ SwitchRead \/ IgnoreSwitch \/ SwitchClose \/ SwitchRemove
           \/ NoSwitch \/ LoadPic \/ EndRound
  BY <1>8 DEF SwitchOpen, SwitchRead, IgnoreSwitch, SwitchClose, SwitchRemove, NoSwitch,
     LoadPic, EndRound
<1> QED BY <1>1, <1>2, <1>3, <1>4, <1>5, <1>6, <1>7, <1>8 DEF DitectNext

(***************************************************************************)
(* Whenever diff_ditect decides, isOn says what the relay pin says: after  *)
(* forced and automatic switching in any order, and after a reboot.        *)
(***************************************************************************)
THEOREM RelayInStep == Spec => []RelayMatches
<1>1. Init => RelayInv
  BY DEF Init, DitectInit, RelayInv, RelayMatches, InFenceOn, DitectStreams
<1>2. TypeOK /\ RelayInv /\ [Next]_vars => RelayInv'
  <2> SUFFICES ASSUME TypeOK, RelayInv, [Next]_vars PROVE RelayInv' OBVIOUS
  <2>1. CASE Ditect BY <2>1, DitectKeepsRelay
  <2>2. CASE UNCHANGED ditectVars
    BY <2>2 DEF ditectVars, RelayInv, RelayMatches, InFenceOn, DitectStreams
  <2>3. CASE InterruptFaults \/ PowerLoss
    BY <2>3 DEF InterruptFaults, PowerLoss, DitectPowerLoss, RelayInv, RelayMatches,
       InFenceOn, DitectStreams
  <2> QED
    BY <2>1, <2>2, <2>3 DEF Next, vars, Server, ServerSends, ServerGetsPicture,
       ServerReadsNothing, ServerRestarts, Web, Driver, Interrupt
<1>3. RelayInv => RelayMatches BY DEF RelayInv
<1> QED BY <1>1, <1>2, <1>3, TypeCorrect, PTL DEF Spec

----------------------------------------------------------------------------
(* The background picture.                                                 *)

\* An empty file is one that web_source is saving, or one that a power loss
\* left; and the round goes on only with a loaded picture.
PictureInv ==
  /\ uyvy = "empty" => torn \/ wpc = "save_close"
  /\ dpc = "load_read" => uyvy # "absent"
  /\ isLoaded => torn \/ pic # "uninit"
  /\ dpc \in {"set_camimage", "qbuf", "dqbuf", "find"} => isLoaded

\* web_source truncates the file and fills it.
LEMMA WebKeepsPicture == ASSUME TypeOK, PictureInv, Web PROVE PictureInv'
<1> USE DEF Web, WebGoto, PictureInv, cardVars, ditectVars, boardVars
<1>1. CASE WebSaveOpen BY <1>1 DEF WebSaveOpen
<1>2. CASE WebSaveClose BY <1>2 DEF WebSaveClose
<1>3. CASE WebSetOpen \/ WebSetClose \/ WebOnOpen \/ WebOnClose
  BY <1>3 DEF WebSetOpen, WebSetClose, WebOnOpen, WebOnClose, WebFopenFails,
     fopen_switch_w, fclose_switch_w
<1>4. CASE \/ WebStart \/ WebRead \/ WebOpen \/ WebReqbufs \/ WebSFmtMain \/ WebSFmtSub
           \/ WebStreamon \/ WebMemalign \/ WebQbufReturns \/ WebDqbufReturns
           \/ WebSend \/ WebSent \/ WebCamClose \/ WebFail
  BY <1>4 DEF WebStart, WebRead, WebRefused, WebOpen, WebReqbufs, WebSFmtMain, WebSFmtSub,
     WebStreamon, WebMemalign, WebQbufReturns, WebDqbufReturns, WebSend, WebSent,
     WebCamClose, WebFail
<1> QED BY <1>1, <1>2, <1>3, <1>4 DEF WebNext

\* diff_ditect loads it, which web_source is not saving then.
LEMMA DitectKeepsPicture ==
  ASSUME TypeOK, NoTornPicture, PictureInv, Ditect
  PROVE  PictureInv'
<1> USE DEF Ditect, Goto, PictureInv, cardVars, webVars, boardVars
<1>1. CASE LoadPic
  BY <1>1 DEF LoadPic, NoTornPicture, TypeOK, CardTypeOK
<1>2. CASE NoSwitch BY <1>2 DEF NoSwitch
<1>3. CASE \/ DitectOpen \/ DitectReqbufs \/ DitectSFmt \/ DitectMemalign
           \/ DitectStreamon \/ DitectFail \/ DitectSetCamimage \/ DitectQbufReturns
           \/ DitectDqbufReturns \/ FindNobody
  BY <1>3 DEF PrepareStep, DitectOpen, DitectReqbufs, DitectSFmt, DitectMemalign,
     DitectStreamon, DitectFail, DitectSetCamimage, DitectQbufReturns,
     DitectDqbufReturns, FindNobody
<1>4. CASE SwitchOpen \/ SwitchClose \/ SwitchRemove
  BY <1>4 DEF SwitchOpen, SwitchClose, SwitchRemove, fopen_switch_r, fclose_switch_r,
     remove_switch
<1>5. CASE \/ GPIO_init(Running) \/ Load_setting \/ SwitchRead \/ ForceOn \/ ForceOff
           \/ IgnoreSwitch \/ FencePulseOn \/ FenceExpires \/ FenceReturns
           \/ FindHazard \/ FindSafe \/ EndRound
  BY <1>5 DEF GPIO_init, Load_setting, SwitchRead, ForceOn, ForceOff, IgnoreSwitch,
     FencePulseOn, FenceExpires, FenceReturns, FenceStep, FindHazard, FindSafe, EndRound
<1> QED BY <1>1, <1>2, <1>3, <1>4, <1>5 DEF DitectNext

(***************************************************************************)
(* Unless a power loss hit the saving of the background, diff_ditect never *)
(* compares a frame with memory that no picture was read into.  It rests   *)
(* on the camera's exclusion (no load while web_source saves) and on the   *)
(* buffer exchange (the board does not halt while web_source saves).       *)
(***************************************************************************)
THEOREM BackgroundReal == Spec => []BackgroundLoaded
<1>1. Init => PictureInv
  BY DEF Init, DitectInit, CardInit, PictureInv
<1>2. TypeOK /\ CameraInv /\ CaptureInv /\ NoTornPicture /\ PictureInv /\ [Next]_vars
        => PictureInv'
  <2> SUFFICES ASSUME TypeOK, CameraInv, CaptureInv, NoTornPicture, PictureInv, [Next]_vars
               PROVE  PictureInv'
    OBVIOUS
  <2>1. CASE Web BY <2>1, WebKeepsPicture
  <2>2. CASE Ditect BY <2>2, DitectKeepsPicture
  <2>3. CASE UNCHANGED <<cardVars, ditectVars, wpc, torn>>
    BY <2>3 DEF cardVars, ditectVars, PictureInv
  <2>4. CASE InterruptFaults
    <3>1. wpc # "save_close"
      BY <2>4 DEF InterruptFaults, CaptureFaults, CameraInv, WebFd, CaptureInv, IoPhase,
         ExchangeInv, Exchange, WebStreams
    <3> QED BY <2>4, <3>1 DEF InterruptFaults, PictureInv, cardVars, boardVars
  <2>5. CASE PowerLoss
    BY <2>5 DEF PowerLoss, DitectPowerLoss, CardPowerLoss, WebPowerLoss, PictureInv
  <2> QED
    BY <2>1, <2>2, <2>3, <2>4, <2>5 DEF Next, vars, Server, ServerSends,
       ServerGetsPicture, ServerReadsNothing, ServerRestarts, Driver, Interrupt, webVars,
       boardVars
<1>3. PictureInv => BackgroundLoaded BY DEF PictureInv, BackgroundLoaded
<1> QED
  BY <1>1, <1>2, <1>3, TypesAndCamera, CaptureInvariant, PictureNeverTorn, PTL DEF Spec

----------------------------------------------------------------------------
(* The frame, while the browser asks for no picture.                       *)

\* diff_ditect's buffer is with the driver.
Queued ==
  \/ io["ditect"] \in {"qbuf_queue", "qbuf_start", "qbuf_state", "dq_start", "dq_sem",
                       "dq_wait", "dq_wake"}
  \/ io["ditect"] = "ret_ok" /\ dpc = "qbuf"

\* web_source stays out of the camera, so nobody rebuilds the chains.
QuietInv ==
  /\ wpc \in {"start", "read", "set_open", "set_close", "on_open", "on_close", "exited"}
  /\ \A k \in 1 .. Len(rx) : rx[k].cmd # "camera"
  /\ dpc \in {"memalign", "streamon"} \/ DitectStreams => fmt = "uyvy"
  /\ Queued => vbuf.userptr = "ditect"
  /\ io["ditect"] = "qbuf_start" => vbuf.top = "c0"
  /\ dma # "off" => vbuf.top = "c0" /\ vbuf.curr = "c0"
  /\ DitectBack \/ dpc = "find" => frame["ditect"] = "uyvy"

\* A step of another part, which leaves the device, diff_ditect and the
\* receive buffer alone.
LEMMA QuietFrame ==
  ASSUME QuietInv, UNCHANGED <<fmt, vbuf, dma, io, frame, dpc>>,
         wpc' \in {"start", "read", "set_open", "set_close", "on_open", "on_close", "exited"},
         rx' \in {rx, <<>>}
  PROVE  QuietInv'
<1>1. \A k \in 1 .. Len(rx') : rx'[k].cmd # "camera"
  BY DEF QuietInv
<1> QED BY <1>1 DEF QuietInv, Queued, DitectBack, DitectStreams

\* web_source, which never reads "camera".
LEMMA WebStaysQuiet == ASSUME TypeOK, QuietInv, Web PROVE QuietInv'
<1> USE DEF Web, WebGoto, devVars, ditectVars
<1>1. CASE WebRead
  <2> DEFINE Entry == [cmd: Commands, id: Nat]
  <2>1. rx \in Seq(Entry) /\ rx # <<>> BY <1>1 DEF WebRead, TypeOK, WebTypeOK
  <2> HIDE DEF Entry
  <2>2. rx[1] \in Entry /\ Head(rx) = rx[1] /\ 1 \in 1 .. Len(rx) BY <2>1
  <2>3. Head(rx).cmd \in {"set", "on", "off"}
    BY <2>2 DEF Entry, Commands, QuietInv
  <2>4. wpc' \in {"set_open", "on_open", "read"}
    BY <1>1, <2>3 DEF WebRead, Dispatch
  <2> QED BY <1>1, <2>4, QuietFrame DEF WebRead
<1>2. CASE WebStart \/ WebSetOpen \/ WebSetClose \/ WebOnOpen \/ WebOnClose
  BY <1>2, QuietFrame DEF WebStart, WebSetOpen, WebSetClose, WebOnOpen, WebOnClose,
     WebFopenFails
<1>3. CASE \/ WebOpen \/ WebReqbufs \/ WebSFmtMain \/ WebSFmtSub \/ WebStreamon
           \/ WebMemalign \/ WebQbufReturns \/ WebDqbufReturns \/ WebSend \/ WebSent
           \/ WebSaveOpen \/ WebSaveClose \/ WebCamClose \/ WebFail
  BY <1>3 DEF QuietInv, WebRefused, WebOpen, WebReqbufs, WebSFmtMain, WebSFmtSub,
     WebStreamon, WebMemalign, WebQbufReturns, WebDqbufReturns, WebSend, WebSent,
     WebSaveOpen, WebSaveClose, WebCamClose, WebFail
<1> QED BY <1>1, <1>2, <1>3 DEF WebNext

\* diff_ditect.
LEMMA DitectStaysQuiet ==
  ASSUME TypeOK, CameraInv, CaptureInv, QuietInv, Ditect
  PROVE  QuietInv'
<1> DEFINE Outside == {"loop", "sw_read", "sw_cmd", "sw_close", "sw_remove", "load_read",
                       "set_camimage", "find", "pulse_on", "on_wait", "pulse_off", "sleep"}
<1> USE DEF Ditect, webVars, Goto, PrepareStep
<1>1. ASSUME dpc \in Outside, dpc' \in Outside \ {"find"},
             UNCHANGED <<fmt, vbuf, dma, io, frame, wpc, rx>>
      PROVE  QuietInv'
  BY <1>1 DEF QuietInv, Queued, DitectBack, DitectStreams
<1>2. CASE \/ SwitchOpen \/ SwitchRead \/ ForceOn \/ ForceOff \/ IgnoreSwitch
           \/ SwitchClose \/ SwitchRemove \/ FencePulseOn \/ FenceExpires \/ FenceReturns
           \/ NoSwitch \/ LoadPic \/ FindNobody \/ FindHazard \/ FindSafe \/ EndRound
  BY <1>1, <1>2 DEF devVars, SwitchOpen, SwitchRead, ForceOn, ForceOff, IgnoreSwitch,
     SwitchClose, SwitchRemove, FencePulseOn, FenceExpires, FenceReturns, FenceStep,
     NoSwitch, LoadPic, FindNobody, FindHazard, FindSafe, EndRound
<1> USE DEF QuietInv, Queued, DitectBack, DitectStreams, WebStreams, devVars, TypeOK,
            VideoTypeOK, Apps, CaptureInv, IoPhase
<1>3. CASE DitectSetCamimage BY <1>3 DEF DitectSetCamimage, CallVideo
<1>4. CASE DitectQbufReturns BY <1>4 DEF DitectQbufReturns, CallVideo
<1>5. CASE DitectDqbufReturns BY <1>5 DEF DitectDqbufReturns, CallVideo
<1>6. CASE GPIO_init(Running) \/ Load_setting BY <1>6 DEF GPIO_init, Load_setting
<1>7. CASE DitectOpen \/ DitectReqbufs \/ DitectSFmt \/ DitectMemalign \/ DitectFail
  <2>1. dma = "off" /\ io["ditect"] = "none" /\ UNCHANGED <<io, frame, wpc, rx>>
    BY <1>7 DEF Stopped, DitectOpen, DitectReqbufs, DitectSFmt, DitectMemalign, DitectFail,
       video_open, video_reqbufs, video_s_fmt
  <2>2. dma' = "off"
    BY <1>7, <2>1 DEF DitectOpen, DitectReqbufs, DitectSFmt, DitectMemalign, DitectFail,
       video_open, video_reqbufs, video_s_fmt, video_close, cleanup_resources
  <2>3. dpc' \in {"reqbufs", "s_fmt", "memalign", "streamon", "fail", "exited"}
    BY <1>7 DEF DitectOpen, DitectReqbufs, DitectSFmt, DitectMemalign, DitectFail
  <2>4. dpc' \in {"memalign", "streamon"} => fmt' = "uyvy"
    BY <1>7 DEF DitectOpen, DitectReqbufs, DitectSFmt, DitectMemalign, DitectFail,
       video_s_fmt
  <2> QED BY <2>1, <2>2, <2>3, <2>4
<1>8. CASE DitectStreamon
  <2>1. dma = "off" /\ io["ditect"] = "none" /\ dpc = "streamon"
    BY <1>8 DEF Stopped, DitectStreamon
  <2>2. dma' = "off" /\ UNCHANGED <<fmt, io, frame, wpc, rx>>
    BY <1>8, <2>1 DEF Stopped, DitectStreamon, StreamonPermitted, video_streamon, start_capture
  <2>3. dpc' \in {"loop", "fail"} BY <1>8 DEF DitectStreamon
  <2> QED BY <2>1, <2>2, <2>3
<1> QED BY <1>2, <1>3, <1>4, <1>5, <1>6, <1>7, <1>8 DEF DitectNext

\* The driver works for diff_ditect alone.
LEMMA DriverStaysQuiet ==
  ASSUME TypeOK, CameraInv, CaptureInv, QuietInv, NEW a \in Apps, Driver(a)
  PROVE  QuietInv'
<1>1. io["web"] = "none" /\ WebStreams = FALSE
  BY DEF QuietInv, CaptureInv, IoPhase, WebStreams
<1>2. a = "ditect"
  BY <1>1 DEF Apps, Driver, VideoCall, qbuf_get_container, qbuf_copy, qbuf_queue_container,
     qbuf_start_capture, qbuf_set_state, dqbuf_start, dqbuf_sem_wait, dqbuf_woken
<1>3. UNCHANGED <<wpc, rx, dpc>> BY DEF Driver, webVars, ditectVars
<1>4. dpc \in {"qbuf", "dqbuf"} /\ DitectStreams /\ fmt = "uyvy"
  BY <1>2 DEF Driver, VideoCall, qbuf_get_container, qbuf_copy, qbuf_queue_container,
     qbuf_start_capture, qbuf_set_state, dqbuf_start, dqbuf_sem_wait, dqbuf_woken,
     CaptureInv, IoPhase, QuietInv, DitectStreams
<1> USE <1>2, <1>3, <1>4
    DEF QuietInv, Queued, DitectBack, TypeOK, VideoTypeOK, Apps, Pointers, CaptureInv,
        IoPhase, ExchangeInv, Exchange, CameraInv, StreamStarted
<1>5. CASE qbuf_get_container(a)
  BY <1>5 DEF qbuf_get_container
<1>6. CASE qbuf_copy(a) BY <1>6 DEF qbuf_copy
<1>7. CASE qbuf_queue_container(a) BY <1>7 DEF qbuf_queue_container
<1>8. CASE qbuf_start_capture(a) BY <1>8 DEF qbuf_start_capture
<1>9. CASE qbuf_set_state(a) BY <1>9 DEF qbuf_set_state
<1>10. CASE dqbuf_start(a) BY <1>10 DEF dqbuf_start, start_capture
<1>11. CASE dqbuf_sem_wait(a) BY <1>11 DEF dqbuf_sem_wait
<1>12. CASE dqbuf_woken(a) BY <1>12 DEF dqbuf_woken
<1> QED BY <1>5, <1>6, <1>7, <1>8, <1>9, <1>10, <1>11, <1>12 DEF Driver, VideoCall

\* The interrupt pops the one container or captures into it again.
LEMMA InterruptStaysQuiet ==
  ASSUME TypeOK, CameraInv, CaptureInv, QuietInv, Interrupt
  PROVE  QuietInv'
<1> USE DEF QuietInv, Queued, DitectBack, DitectStreams, TypeOK, VideoTypeOK, Apps,
            CaptureInv, IoPhase, Interrupt, webVars, ditectVars
<1>1. ASSUME NEW a \in Apps, complete_capture_waited(a) PROVE QuietInv'
  BY <1>1 DEF complete_capture_waited
<1>2. CASE complete_capture_unwaited BY <1>2 DEF complete_capture_unwaited
<1> QED BY <1>1, <1>2 DEF video_complete_capture

\* The server sends what it is asked for.
LEMMA ServerStaysQuiet ==
  ASSUME "camera" \notin Requests, TypeOK, QuietInv, Server
  PROVE  QuietInv'
<1>1. ASSUME NEW cmd \in Requests, ServerSends(cmd) PROVE QuietInv'
  <2> DEFINE Entry == [cmd: Commands, id: Nat]
  <2>1. rx \in Seq(Entry) /\ [cmd |-> cmd, id |-> nsent + 1] \in Entry
    BY BoardAssumption DEF TypeOK, WebTypeOK, ServerTypeOK
  <2> HIDE DEF Entry
  <2>2. /\ Len(rx') = Len(rx) + 1 /\ Len(rx) \in Nat
        /\ rx'[Len(rx) + 1].cmd = cmd
        /\ \A k \in 1 .. Len(rx) : rx'[k] = rx[k]
    BY <1>1, <2>1 DEF ServerSends
  <2>3. ASSUME NEW k \in 1 .. Len(rx') PROVE rx'[k].cmd # "camera"
    <3>1. CASE k \in 1 .. Len(rx) BY <2>2, <3>1 DEF QuietInv
    <3>2. CASE k = Len(rx) + 1 BY <2>2, <3>2
    <3> QED BY <2>2, <3>1, <3>2
  <2>4. UNCHANGED <<wpc, fmt, vbuf, dma, io, frame, dpc>>
    BY <1>1 DEF ServerSends, devVars, ditectVars
  <2> QED BY <2>3, <2>4 DEF QuietInv, Queued, DitectBack, DitectStreams
<1>2. CASE ServerGetsPicture \/ ServerReadsNothing \/ ServerRestarts
  BY <1>2, QuietFrame DEF ServerGetsPicture, ServerReadsNothing, ServerRestarts, devVars,
     ditectVars, QuietInv
<1> QED BY <1>1, <1>2 DEF Server

\* Without picture requests the board stays quiet.
LEMMA QuietInvariant == ASSUME "camera" \notin Requests PROVE Spec => []QuietInv
<1>1. Init => QuietInv
  BY DEF Init, VideoInit, WebInit, DitectInit, QuietInv, Queued, DitectBack, DitectStreams,
     Apps
<1>2. TypeOK /\ CameraInv /\ CaptureInv /\ QuietInv /\ [Next]_vars => QuietInv'
  <2> SUFFICES ASSUME TypeOK, CameraInv, CaptureInv, QuietInv, [Next]_vars PROVE QuietInv'
    OBVIOUS
  <2>1. CASE Server BY <2>1, ServerStaysQuiet
  <2>2. CASE Web BY <2>2, WebStaysQuiet
  <2>3. CASE Ditect BY <2>3, DitectStaysQuiet
  <2>4. CASE \E a \in Apps : Driver(a) BY <2>4, DriverStaysQuiet
  <2>5. CASE Interrupt BY <2>5, InterruptStaysQuiet
  <2>6. CASE InterruptFaults BY <2>6 DEF InterruptFaults, CaptureFaults, QuietInv
  <2>7. CASE PowerLoss
    BY <2>7 DEF PowerLoss, VideoPowerLoss, WebPowerLoss, DitectPowerLoss, QuietInv, Queued,
       DitectBack, DitectStreams, Apps
  <2>8. CASE UNCHANGED vars
    BY <2>8, QuietFrame DEF vars, devVars, webVars, ditectVars, QuietInv
  <2> QED BY <2>1, <2>2, <2>3, <2>4, <2>5, <2>6, <2>7, <2>8 DEF Next
<1> QED BY <1>1, <1>2, TypesAndCamera, CaptureInvariant, PTL DEF Spec

(***************************************************************************)
(* While the browser asks for no picture, every frame that diff_ditect     *)
(* compares is one that was captured into its buffer in its format, over   *)
(* any number of rounds, switch commands, zone settings and power losses.  *)
(***************************************************************************)
THEOREM FrameCaptured ==
  ASSUME "camera" \notin Requests
  PROVE  Spec => []FrameIsCaptured
<1>1. QuietInv => FrameIsCaptured BY DEF QuietInv, FrameIsCaptured
<1> QED BY <1>1, QuietInvariant, PTL
=============================================================================
