---------------------------- MODULE BoardProofs ----------------------------
(***************************************************************************)
(* Proofs about the board, for every number of requests and reboots, every *)
(* reload period, every set of faults and every choice of applications:    *)
(* its types, the exclusion that keeps the background picture whole, and   *)
(* the order of the switch commands.                                       *)
(***************************************************************************)
EXTENDS Board, TLAPS

----------------------------------------------------------------------------
(* Types.  A part whose variables a step leaves alone keeps its types.     *)

\* The device is left alone.
LEMMA VideoFrame == ASSUME VideoTypeOK, UNCHANGED devVars PROVE VideoTypeOK'
BY DEF VideoTypeOK, devVars

\* The card is left alone.
LEMMA CardFrame == ASSUME CardTypeOK, UNCHANGED cardVars PROVE CardTypeOK'
BY DEF CardTypeOK, cardVars

\* web_source is left alone.
LEMMA WebFrame == ASSUME WebTypeOK, UNCHANGED webVars PROVE WebTypeOK'
BY DEF WebTypeOK, webVars

\* diff_ditect is left alone.
LEMMA DitectFrame == ASSUME DitectTypeOK, UNCHANGED ditectVars PROVE DitectTypeOK'
BY DEF DitectTypeOK, ditectVars

\* The server is left alone.
LEMMA ServerFrame == ASSUME ServerTypeOK, UNCHANGED boardVars PROVE ServerTypeOK'
BY DEF ServerTypeOK, boardVars

----------------------------------------------------------------------------
(* The driver's operations keep the device's types.                        *)

\* An open counts one more.
LEMMA OpenTypes == ASSUME VideoTypeOK, NEW a \in Apps, video_open(a) PROVE VideoTypeOK'
BY DEF VideoTypeOK, video_open, initialize_streamresources, NoContainer, Pointers, Formats

\* The count stays a natural number because the descriptor was counted.
LEMMA CloseTypes ==
  ASSUME VideoTypeOK, OpenCountExact, NEW a \in Apps, video_close(a),
         frame_mem' \in [Apps -> {"none", "allocated", "freed"}], UNCHANGED <<io, frame>>
  PROVE  VideoTypeOK'
<1>1. CASE fd[a] = "open"
  <2>1. open_num \in {1, 2}
    BY <1>1 DEF OpenCountExact, OpenDescriptors, Apps
  <2>2. open_num' \in Nat /\ fd' \in [Apps -> {"unset", "open", "stale"}]
    BY <1>1, <2>1 DEF VideoTypeOK, video_close
  <2>3. CASE open_num = 1
    BY <1>1, <2>2, <2>3 DEF VideoTypeOK, video_close, cleanup_resources, NoContainer, Pointers, Formats
  <2>4. CASE open_num # 1
    BY <1>1, <2>2, <2>4 DEF VideoTypeOK, video_close
  <2> QED BY <2>3, <2>4
<1>2. CASE fd[a] # "open"
  BY <1>2 DEF VideoTypeOK, video_close
<1> QED BY <1>1, <1>2

\* REQBUFS rebuilds the chains.
LEMMA ReqbufsTypes == ASSUME VideoTypeOK, video_reqbufs PROVE VideoTypeOK'
BY DEF VideoTypeOK, video_reqbufs, NoContainer, Pointers

\* S_FMT sets one of the formats.
LEMMA SFmtTypes == ASSUME VideoTypeOK, NEW f \in Formats, video_s_fmt(f) PROVE VideoTypeOK'
BY DEF VideoTypeOK, video_s_fmt

\* STREAMON moves pointers between the chains.
LEMMA StreamonTypes == ASSUME VideoTypeOK, video_streamon PROVE VideoTypeOK'
BY DEF VideoTypeOK, video_streamon, start_capture, Pointers

\* Every step of QBUF and of DQBUF.
LEMMA CallTypes == ASSUME VideoTypeOK, NEW a \in Apps, VideoCall(a) PROVE VideoTypeOK'
<1> USE DEF VideoTypeOK, Pointers, Formats, IoSteps
<1>1. CASE qbuf_get_container(a)
  <2>1. [vbuf EXCEPT !.empty = vbuf.next, !.next = "NULL"]
          \in [empty: Pointers, top: Pointers, curr: Pointers,
               next: Pointers, userptr: Apps \cup {"NULL"}]
    OBVIOUS
  <2>2. vbuf' \in [empty: Pointers, top: Pointers, curr: Pointers,
                   next: Pointers, userptr: Apps \cup {"NULL"}]
    BY <1>1, <2>1 DEF qbuf_get_container
  <2> QED BY <1>1, <2>2 DEF qbuf_get_container
<1>2. CASE qbuf_copy(a) BY <1>2 DEF qbuf_copy
<1>3. CASE qbuf_queue_container(a) BY <1>3 DEF qbuf_queue_container
<1>4. CASE qbuf_start_capture(a) BY <1>4 DEF qbuf_start_capture
<1>5. CASE qbuf_set_state(a) BY <1>5 DEF qbuf_set_state
<1>6. CASE dqbuf_start(a) BY <1>6 DEF dqbuf_start, start_capture
<1>7. CASE dqbuf_sem_wait(a) BY <1>7 DEF dqbuf_sem_wait
<1>8. CASE dqbuf_woken(a) BY <1>8 DEF dqbuf_woken
<1> QED BY <1>1, <1>2, <1>3, <1>4, <1>5, <1>6, <1>7, <1>8 DEF VideoCall

\* The capture interrupt, with and without a waiting task.
LEMMA InterruptTypes == ASSUME VideoTypeOK, video_complete_capture PROVE VideoTypeOK'
<1> USE DEF VideoTypeOK, Pointers, IoSteps
<1>1. CASE \E a \in Apps : complete_capture_waited(a)
  <2> PICK a \in Apps : complete_capture_waited(a) BY <1>1
  <2>1. io' \in [Apps -> IoSteps] BY DEF complete_capture_waited
  <2>2. [vbuf EXCEPT !.top = "NULL", !.curr = "NULL"]
          \in [empty: Pointers, top: Pointers, curr: Pointers,
               next: Pointers, userptr: Apps \cup {"NULL"}]
    OBVIOUS
  <2> QED BY <2>1, <2>2 DEF complete_capture_waited
<1>2. CASE complete_capture_unwaited
  BY <1>2 DEF complete_capture_unwaited
<1> QED BY <1>1, <1>2 DEF video_complete_capture

----------------------------------------------------------------------------
(* The tasks keep the types.                                               *)

\* A step of web_source that only goes on.
LEMMA GotoTypes ==
  ASSUME WebTypeOK, NEW from, NEW to \in WebSteps, WebGoto(from, to)
  PROVE  WebTypeOK'
BY DEF WebTypeOK, WebGoto

\* Every action of web_source.
LEMMA WebTypes ==
  ASSUME TypeOK, OpenCountExact, WebNext
  PROVE  VideoTypeOK' /\ CardTypeOK' /\ WebTypeOK'
<1> USE DEF TypeOK
<1> USE VideoFrame, CardFrame, GotoTypes
<1>1. CASE WebStart
  <2>1. rx' \in Seq([cmd: Commands, id: Nat])
    <3>1. <<>> \in Seq([cmd: Commands, id: Nat]) OBVIOUS
    <3>2. rx' = <<>> \/ rx' = rx BY <1>1 DEF WebStart
    <3> QED BY <3>1, <3>2 DEF WebTypeOK
  <2>2. WebTypeOK' BY <1>1, <2>1 DEF WebStart, WebTypeOK, WebSteps
  <2> QED BY <1>1, <2>2 DEF WebStart
<1>2. CASE WebRead
  <2> DEFINE Entry == [cmd: Commands, id: Nat]
  <2>1. rx \in Seq(Entry) /\ rx # <<>> BY <1>2 DEF WebRead, WebTypeOK
  <2> HIDE DEF Entry
  <2>2. Head(rx) \in Entry /\ <<>> \in Seq(Entry) BY <2>1
  <2>3. Head(rx).cmd \in Commands /\ Head(rx).id \in Nat BY <2>2 DEF Entry
  <2>4. pend' \in [cmd: Commands, id: Nat, more: BOOLEAN]
    BY <1>2, <2>3 DEF WebRead
  <2>5. wpc' \in WebSteps BY <1>2, <2>3 DEF WebRead, Dispatch, Commands, WebSteps
  <2>6. rx' \in Seq(Entry) BY <1>2, <2>2 DEF WebRead
  <2>7. WebTypeOK' BY <1>2, <2>4, <2>5, <2>6 DEF WebRead, WebTypeOK, Entry
  <2> QED BY <1>2, <2>7 DEF WebRead
<1>3. CASE WebOpen
  BY <1>3, OpenTypes DEF WebOpen, Apps, WebSteps
<1>4. CASE WebReqbufs
  BY <1>4, ReqbufsTypes DEF WebReqbufs, WebRefused, WebSteps
<1>5. CASE WebSFmtMain
  BY <1>5, SFmtTypes DEF WebSFmtMain, WebRefused, WebSteps, Formats
<1>6. CASE WebSFmtSub
  BY <1>6, SFmtTypes DEF WebSFmtSub, WebRefused, WebSteps, Formats
<1>7. CASE WebStreamon
  BY <1>7, StreamonTypes DEF WebStreamon, WebRefused, WebSteps
<1>8. CASE WebMemalign
  <2>1. VideoTypeOK' BY <1>8 DEF WebMemalign, VideoTypeOK, devVars, IoSteps, Apps
  <2> QED BY <1>8, <2>1 DEF WebMemalign, WebSteps
<1>9. CASE WebQbufReturns
  <2>1. VideoTypeOK' BY <1>9 DEF WebQbufReturns, VideoTypeOK, IoSteps, Apps
  <2> QED BY <1>9, <2>1 DEF WebQbufReturns, WebSteps
<1>10. CASE WebDqbufReturns
  <2>1. VideoTypeOK' BY <1>10 DEF WebDqbufReturns, VideoTypeOK, IoSteps, Apps
  <2> QED BY <1>10, <2>1 DEF WebDqbufReturns, WebSteps
<1>11. CASE WebSend
  BY <1>11 DEF WebSend, WebTypeOK, WebSteps
<1>12. CASE WebSent
  BY <1>12 DEF WebSent, WebTypeOK, WebSteps
<1>13. CASE WebSaveOpen
  <2>1. CASE WebGoto("save_open", "save_close") /\ UNCHANGED devVars
    BY <1>13, <2>1 DEF WebSaveOpen, WebGoto, CardTypeOK, cardVars, WebSteps
  <2>2. CASE video_close("web") /\ UNCHANGED <<io, frame_mem, frame, cardVars>>
    BY <1>13, <2>2, CloseTypes DEF WebSaveOpen, VideoTypeOK, Apps, WebSteps
  <2> QED BY <1>13, <2>1, <2>2 DEF WebSaveOpen
<1>14. CASE WebSaveClose
  BY <1>14 DEF WebSaveClose, CardTypeOK, WebSteps
<1>15. CASE WebCamClose
  <2>1. frame_mem' \in [Apps -> {"none", "allocated", "freed"}]
    BY <1>15 DEF WebCamClose, VideoTypeOK
  <2> QED BY <1>15, <2>1, CloseTypes DEF WebCamClose, Apps, WebSteps
<1>16. CASE WebSetOpen
  BY <1>16 DEF WebSetOpen, WebFopenFails, CardTypeOK, cardVars, WebSteps
<1>17. CASE WebSetClose
  BY <1>17 DEF WebSetClose, CardTypeOK, WebSteps
<1>18. CASE WebOnOpen
  BY <1>18 DEF WebOnOpen, WebFopenFails, fopen_switch_w, CardTypeOK, cardVars, WebSteps
<1>19. CASE WebOnClose
  <2>1. SwitchText \in Content BY DEF SwitchText, Content, WebTypeOK
  <2>2. CardTypeOK' BY <1>19, <2>1 DEF WebOnClose, fclose_switch_w, CardTypeOK
  <2> QED BY <1>19, <2>2 DEF WebOnClose, WebSteps
<1>20. CASE WebFail
  <2>1. frame_mem' \in [Apps -> {"none", "allocated", "freed"}]
    BY <1>20 DEF WebFail, VideoTypeOK
  <2> QED BY <1>20, <2>1, CloseTypes DEF WebFail, Apps, WebSteps
<1> QED
  BY <1>1, <1>2, <1>3, <1>4, <1>5, <1>6, <1>7, <1>8, <1>9, <1>10, <1>11, <1>12, <1>13,
     <1>14, <1>15, <1>16, <1>17, <1>18, <1>19, <1>20 DEF WebNext

\* Every action of diff_ditect.
LEMMA DitectTypes ==
  ASSUME TypeOK, OpenCountExact, DitectNext(Running)
  PROVE  VideoTypeOK' /\ CardTypeOK' /\ DitectTypeOK'
<1> USE DEF TypeOK, Goto
<1> USE VideoFrame, CardFrame
<1>1. ASSUME NEW from, NEW to \in DitectSteps, PrepareStep(from, to)
      PROVE  CardTypeOK' /\ DitectTypeOK'
  BY <1>1 DEF PrepareStep, DitectTypeOK
<1>2. CASE GPIO_init(Running)
  BY <1>2 DEF GPIO_init, DitectTypeOK, DitectSteps
<1>3. CASE Load_setting
  BY <1>3 DEF Load_setting, DitectTypeOK, DitectSteps
<1>4. CASE DitectOpen
  BY <1>1, <1>4, OpenTypes DEF DitectOpen, Apps, DitectSteps
<1>5. CASE DitectReqbufs
  BY <1>1, <1>5, ReqbufsTypes DEF DitectReqbufs, DitectSteps
<1>6. CASE DitectSFmt
  BY <1>1, <1>6, SFmtTypes DEF DitectSFmt, DitectSteps, Formats
<1>7. CASE DitectMemalign
  <2>1. frame_mem' \in [Apps -> {"none", "allocated", "freed"}]
    BY <1>7 DEF DitectMemalign, VideoTypeOK
  <2>2. CASE video_close("ditect") /\ UNCHANGED <<io, frame>>
    BY <1>1, <1>7, <2>1, <2>2, CloseTypes DEF DitectMemalign, Apps, DitectSteps
  <2>3. CASE UNCHANGED <<open_num, state, fmt, vbuf, done_container, dma, fd, io, frame>>
    <3>1. VideoTypeOK' BY <2>1, <2>3 DEF VideoTypeOK
    <3> QED BY <1>1, <1>7, <3>1 DEF DitectMemalign, DitectSteps
  <2> QED BY <1>7, <2>2, <2>3 DEF DitectMemalign
<1>8. CASE DitectStreamon
  BY <1>1, <1>8, StreamonTypes DEF DitectStreamon, DitectSteps
<1>9. CASE DitectFail
  <2>1. frame_mem' \in [Apps -> {"none", "allocated", "freed"}]
    BY <1>9 DEF DitectFail, VideoTypeOK
  <2> QED BY <1>1, <1>9, <2>1, CloseTypes DEF DitectFail, Apps, DitectSteps
<1>10. CASE SwitchOpen
  <2>1. CardTypeOK' BY <1>10 DEF SwitchOpen, fopen_switch_r, CardTypeOK
  <2> QED BY <1>10, <2>1 DEF SwitchOpen, DitectTypeOK, DitectSteps
<1>11. CASE SwitchRead
  <2>1. cbuff' \in Content
    <3>1. ReadableSwitch \subseteq Content BY DEF ReadableSwitch, CardTypeOK
    <3>2. UninitialisedCbuff \subseteq Content
      BY DEF UninitialisedCbuff, DitectTypeOK, Content
    <3> QED BY <1>11, <3>1, <3>2 DEF SwitchRead
  <2> QED BY <1>11, <2>1 DEF SwitchRead, DitectTypeOK, DitectSteps
<1>12. CASE ForceOn
  BY <1>12 DEF ForceOn, DitectTypeOK, DitectSteps, Content
<1>13. CASE ForceOff
  BY <1>13 DEF ForceOff, DitectTypeOK, DitectSteps, Content
<1>14. CASE IgnoreSwitch
  BY <1>14 DEF IgnoreSwitch, DitectTypeOK, DitectSteps
<1>15. CASE SwitchClose
  <2>1. CardTypeOK' BY <1>15 DEF SwitchClose, fclose_switch_r, CardTypeOK
  <2> QED BY <1>15, <2>1 DEF SwitchClose, DitectTypeOK, DitectSteps
<1>16. CASE SwitchRemove
  <2>1. CardTypeOK' BY <1>16 DEF SwitchRemove, remove_switch, CardTypeOK
  <2> QED BY <1>16, <2>1 DEF SwitchRemove, DitectTypeOK, DitectSteps
<1>17. ASSUME NEW from, NEW to \in DitectSteps, NEW level \in {0, 1},
              FenceStep(from, to, level), isOn' \in BOOLEAN
       PROVE  VideoTypeOK' /\ CardTypeOK' /\ DitectTypeOK'
  BY <1>17 DEF FenceStep, DitectTypeOK
<1>18. CASE FencePulseOn
  BY <1>17, <1>18 DEF FencePulseOn, DitectSteps, DitectTypeOK
<1>19. CASE FenceExpires
  BY <1>17, <1>19 DEF FenceExpires, DitectSteps, DitectTypeOK
<1>20. CASE FenceReturns
  BY <1>17, <1>20 DEF FenceReturns, DitectSteps
<1>21. CASE NoSwitch
  BY <1>21 DEF NoSwitch, DitectTypeOK, DitectSteps
<1>22. CASE LoadPic
  BY <1>22 DEF LoadPic, DitectTypeOK, DitectSteps
<1>23. ASSUME NEW step \in IoSteps, CallVideo(step)
       PROVE  VideoTypeOK'
  BY <1>23 DEF CallVideo, VideoTypeOK, Apps
<1>24. CASE DitectSetCamimage
  BY <1>1, <1>23, <1>24 DEF DitectSetCamimage, DitectSteps, IoSteps
<1>25. CASE DitectQbufReturns
  BY <1>1, <1>23, <1>25 DEF DitectQbufReturns, DitectSteps, IoSteps
<1>26. CASE DitectDqbufReturns
  BY <1>1, <1>23, <1>26 DEF DitectDqbufReturns, DitectSteps, IoSteps
<1>27. CASE FindNobody
  BY <1>1, <1>27 DEF FindNobody, DitectSteps
<1>28. CASE FindHazard
  BY <1>28 DEF FindHazard, DitectTypeOK, DitectSteps
<1>29. CASE FindSafe
  BY <1>29 DEF FindSafe, DitectTypeOK, DitectSteps
<1>30. CASE EndRound
  <2>1. i' \in 0 .. ReloadPeriod - 1
    BY <1>30, ReloadPeriodAssumption DEF EndRound, DitectTypeOK
  <2> QED BY <1>30, <2>1 DEF EndRound, DitectTypeOK, DitectSteps
<1> QED
  BY <1>2, <1>3, <1>4, <1>5, <1>6, <1>7, <1>8, <1>9, <1>10, <1>11, <1>12, <1>13, <1>14,
     <1>15, <1>16, <1>18, <1>19, <1>20, <1>21, <1>22, <1>24, <1>25, <1>26, <1>27, <1>28,
     <1>29, <1>30 DEF DitectNext

\* Every action of the server.
LEMMA ServerTypes ==
  ASSUME TypeOK, Server
  PROVE  WebTypeOK' /\ ServerTypeOK'
<1> USE DEF TypeOK
<1>1. ASSUME NEW cmd \in Requests, ServerSends(cmd)
      PROVE  WebTypeOK' /\ ServerTypeOK'
  <2> DEFINE Entry == [cmd: Commands, id: Nat]
  <2>1. [cmd |-> cmd, id |-> nsent + 1] \in Entry
    BY BoardAssumption DEF ServerTypeOK
  <2>2. rx \in Seq(Entry) BY DEF WebTypeOK
  <2> HIDE DEF Entry
  <2>3. rx' \in Seq(Entry) BY <1>1, <2>1, <2>2 DEF ServerSends
  <2>4. WebTypeOK' BY <1>1, <2>3 DEF ServerSends, WebTypeOK, Entry
  <2> QED BY <1>1, <2>4 DEF ServerSends, ServerTypeOK
<1>2. CASE ServerGetsPicture
  BY <1>2 DEF ServerGetsPicture, WebTypeOK, ServerTypeOK
<1>3. CASE ServerReadsNothing
  BY <1>3 DEF ServerReadsNothing, WebTypeOK, ServerTypeOK
<1>4. CASE ServerRestarts
  BY <1>4 DEF ServerRestarts, WebTypeOK, ServerTypeOK
<1> QED BY <1>1, <1>2, <1>3, <1>4 DEF Server

\* A power loss brings everything but the card to its start.
LEMMA PowerLossTypes == ASSUME TypeOK, PowerLoss PROVE TypeOK'
<1> USE DEF TypeOK
<1>1. VideoTypeOK'
  BY DEF PowerLoss, VideoPowerLoss, VideoTypeOK, NoContainer, Pointers, Formats, IoSteps
<1>2. CardTypeOK' BY DEF PowerLoss, CardPowerLoss, CardTypeOK
<1>3. WebTypeOK'
  <2>1. <<>> \in Seq([cmd: Commands, id: Nat]) OBVIOUS
  <2> QED BY <2>1 DEF PowerLoss, WebPowerLoss, WebTypeOK, WebSteps
<1>4. DitectTypeOK'
  <2>1. cbuff' \in Content BY DEF PowerLoss, DitectPowerLoss, DitectTypeOK, Content
  <2>2. i' \in 0 .. ReloadPeriod - 1
    BY ReloadPeriodAssumption DEF PowerLoss, DitectPowerLoss
  <2> QED BY <2>1, <2>2 DEF PowerLoss, DitectPowerLoss, DitectTypeOK, DitectSteps
<1>5. ServerTypeOK' BY DEF PowerLoss, ServerTypeOK
<1> QED BY <1>1, <1>2, <1>3, <1>4, <1>5

\* The initial states have the types.
LEMMA InitTypes == Init => TypeOK
<1> SUFFICES ASSUME Init PROVE TypeOK OBVIOUS
<1> USE DEF Init
<1>1. VideoTypeOK
  BY DEF VideoInit, VideoTypeOK, NoContainer, Pointers, Formats, IoSteps
<1>2. CardTypeOK BY DEF CardInit, CardTypeOK, NoContent, Content
<1>3. WebTypeOK
  <2>1. <<>> \in Seq([cmd: Commands, id: Nat]) OBVIOUS
  <2> QED BY <2>1 DEF WebInit, WebTypeOK, WebSteps, Commands
<1>4. DitectTypeOK
  <2>1. i \in 0 .. ReloadPeriod - 1
    BY ReloadPeriodAssumption DEF DitectInit
  <2> QED BY <2>1 DEF DitectInit, DitectTypeOK, DitectSteps, NoContent, Content
<1>5. ServerTypeOK BY DEF ServerTypeOK
<1> QED BY <1>1, <1>2, <1>3, <1>4, <1>5 DEF TypeOK

\* Every step keeps the types; a close needs the exact count.
LEMMA NextTypes == TypeOK /\ OpenCountExact /\ [Next]_vars => TypeOK'
<1> SUFFICES ASSUME TypeOK, OpenCountExact, [Next]_vars PROVE TypeOK' OBVIOUS
<1> USE DEF TypeOK
<1> USE VideoFrame, CardFrame, WebFrame, DitectFrame, ServerFrame
<1>1. CASE Server
  <2>1. UNCHANGED <<devVars, cardVars, ditectVars>>
    BY <1>1 DEF Server, ServerSends, ServerGetsPicture, ServerReadsNothing, ServerRestarts
  <2> QED BY <1>1, <2>1, ServerTypes
<1>2. CASE Web BY <1>2, WebTypes DEF Web
<1>3. CASE Ditect BY <1>3, DitectTypes DEF Ditect
<1>4. ASSUME NEW a \in Apps, Driver(a) PROVE TypeOK' BY <1>4, CallTypes DEF Driver
<1>5. CASE Interrupt BY <1>5, InterruptTypes DEF Interrupt
<1>6. CASE InterruptFaults
  <2>1. VideoTypeOK' BY <1>6 DEF InterruptFaults, VideoTypeOK, IoSteps
  <2>2. WebTypeOK' BY <1>6 DEF InterruptFaults, WebTypeOK, WebSteps
  <2>3. DitectTypeOK' BY <1>6 DEF InterruptFaults, DitectTypeOK, DitectSteps
  <2> QED BY <1>6, <2>1, <2>2, <2>3 DEF InterruptFaults
<1>7. CASE PowerLoss BY <1>7, PowerLossTypes
<1>8. CASE UNCHANGED vars BY <1>8 DEF vars
<1> QED BY <1>1, <1>2, <1>3, <1>4, <1>5, <1>6, <1>7, <1>8 DEF Next

----------------------------------------------------------------------------
(* The camera.  CameraInv speaks of open_num, state, fd, web_source's io   *)
(* and the two program counters.                                           *)

\* A step that changes none of them.
LEMMA CameraFrame ==
  ASSUME CameraInv, UNCHANGED <<open_num, state, fd, io, wpc, dpc>>
  PROVE  CameraInv'
BY DEF CameraInv, OpenCountExact, OpenDescriptors, WebFd, DitectFd, StreamStarted,
       StreamExclusive, WebStreams, DitectStreams

\* web_source's steps: only its open, STREAMON and closes matter.
LEMMA WebKeepsCameraInv ==
  ASSUME TypeOK, CameraInv, Web
  PROVE  CameraInv'
<1> USE DEF TypeOK, CameraInv, OpenCountExact, OpenDescriptors, WebFd, DitectFd,
            StreamStarted, StreamExclusive, WebStreams, DitectStreams,
            VideoTypeOK, Apps, WebGoto, devVars, ditectVars
<1>1. CASE WebStart BY <1>1 DEF Web, WebStart
<1>2. CASE WebRead BY <1>2 DEF Web, WebRead, Dispatch
<1>3. CASE WebOpen BY <1>3 DEF Web, WebOpen, video_open, initialize_streamresources
<1>4. CASE WebReqbufs BY <1>4 DEF Web, WebReqbufs, WebRefused, video_reqbufs
<1>5. CASE WebSFmtMain BY <1>5 DEF Web, WebSFmtMain, WebRefused, video_s_fmt
<1>6. CASE WebSFmtSub BY <1>6 DEF Web, WebSFmtSub, WebRefused, video_s_fmt
<1>7. CASE WebStreamon
  BY <1>7 DEF Web, WebStreamon, WebRefused, StreamonPermitted, video_streamon, start_capture
<1>8. CASE WebMemalign BY <1>8 DEF Web, WebMemalign
<1>9. CASE WebQbufReturns BY <1>9 DEF Web, WebQbufReturns
<1>10. CASE WebDqbufReturns BY <1>10 DEF Web, WebDqbufReturns
<1>11. CASE WebSend BY <1>11 DEF Web, WebSend
<1>12. CASE WebSent BY <1>12 DEF Web, WebSent
<1>13. CASE WebSaveOpen BY <1>13 DEF Web, WebSaveOpen, video_close, cleanup_resources
<1>14. CASE WebSaveClose BY <1>14 DEF Web, WebSaveClose
<1>15. CASE WebCamClose BY <1>15 DEF Web, WebCamClose, video_close, cleanup_resources
<1>16. CASE WebSetOpen BY <1>16 DEF Web, WebSetOpen, WebFopenFails
<1>17. CASE WebSetClose BY <1>17 DEF Web, WebSetClose
<1>18. CASE WebOnOpen BY <1>18 DEF Web, WebOnOpen, WebFopenFails
<1>19. CASE WebOnClose BY <1>19 DEF Web, WebOnClose
<1>20. CASE WebFail BY <1>20 DEF Web, WebFail, video_close, cleanup_resources
<1> QED
  BY <1>1, <1>2, <1>3, <1>4, <1>5, <1>6, <1>7, <1>8, <1>9, <1>10, <1>11, <1>12, <1>13,
     <1>14, <1>15, <1>16, <1>17, <1>18, <1>19, <1>20 DEF Web, WebNext

\* diff_ditect's own steps after STREAMON leave the device alone or only
\* say where it is inside a call.
LEMMA DitectKeepsCameraInv ==
  ASSUME TypeOK, CameraInv, Ditect
  PROVE  CameraInv'
<1> DEFINE Inside == {"loop", "sw_read", "sw_cmd", "sw_close", "sw_remove",
                      "load_read", "set_camimage", "qbuf", "dqbuf", "find",
                      "pulse_on", "on_wait", "pulse_off", "sleep"}
<1>1. ASSUME dpc \in Inside, dpc' \in Inside, UNCHANGED <<open_num, state, fd, wpc>>,
             io'["web"] = io["web"]
      PROVE  CameraInv'
  BY <1>1 DEF CameraInv, OpenCountExact, OpenDescriptors, WebFd, DitectFd,
              StreamStarted, StreamExclusive, WebStreams, DitectStreams
<1> USE DEF Ditect, webVars, Goto, PrepareStep
<1>2. CASE \/ SwitchOpen \/ SwitchRead \/ ForceOn \/ ForceOff \/ IgnoreSwitch
           \/ SwitchClose \/ SwitchRemove \/ FencePulseOn \/ FenceExpires \/ FenceReturns
           \/ NoSwitch \/ LoadPic \/ FindNobody \/ FindHazard \/ FindSafe \/ EndRound
  BY <1>1, <1>2 DEF devVars, SwitchOpen, SwitchRead, ForceOn, ForceOff, IgnoreSwitch,
     SwitchClose, SwitchRemove, FencePulseOn, FenceExpires, FenceReturns, FenceStep,
     NoSwitch, LoadPic, FindNobody, FindHazard, FindSafe, EndRound
<1>3. CASE DitectSetCamimage \/ DitectDqbufReturns
  BY <1>1, <1>3 DEF DitectSetCamimage, DitectDqbufReturns, CallVideo, TypeOK, VideoTypeOK, Apps
<1> USE DEF TypeOK, CameraInv, OpenCountExact, OpenDescriptors, WebFd, DitectFd,
            StreamStarted, StreamExclusive, WebStreams, DitectStreams,
            VideoTypeOK, Apps, devVars
<1>4. CASE DitectQbufReturns BY <1>4 DEF DitectQbufReturns, CallVideo
<1>5. CASE GPIO_init(Running) BY <1>5 DEF GPIO_init
<1>6. CASE Load_setting BY <1>6 DEF Load_setting
<1>7. CASE DitectOpen BY <1>7 DEF DitectOpen, video_open, initialize_streamresources
<1>8. CASE DitectReqbufs BY <1>8 DEF DitectReqbufs, video_reqbufs
<1>9. CASE DitectSFmt BY <1>9 DEF DitectSFmt, video_s_fmt
<1>10. CASE DitectMemalign BY <1>10 DEF DitectMemalign, video_close, cleanup_resources
<1>11. CASE DitectStreamon
  BY <1>11 DEF DitectStreamon, StreamonPermitted, video_streamon, start_capture
<1>12. CASE DitectFail BY <1>12 DEF DitectFail, video_close, cleanup_resources
<1> QED
  BY <1>2, <1>3, <1>4, <1>5, <1>6, <1>7, <1>8, <1>9, <1>10, <1>11, <1>12 DEF DitectNext

\* Every step keeps the camera invariant.
LEMMA NextCameraInv == TypeOK /\ CameraInv /\ [Next]_vars => CameraInv'
<1> SUFFICES ASSUME TypeOK, CameraInv, [Next]_vars PROVE CameraInv' OBVIOUS
<1>1. CASE Server
  BY <1>1, CameraFrame DEF Server, ServerSends, ServerGetsPicture, ServerReadsNothing,
     ServerRestarts, devVars, ditectVars
<1>2. CASE Web BY <1>2, WebKeepsCameraInv
<1>3. CASE Ditect BY <1>3, DitectKeepsCameraInv
<1>4. CASE UNCHANGED vars
  BY <1>4, CameraFrame DEF vars, devVars, webVars, ditectVars
<1> USE DEF TypeOK, CameraInv, OpenCountExact, OpenDescriptors, WebFd, DitectFd,
            StreamStarted, StreamExclusive, WebStreams, DitectStreams,
            VideoTypeOK, Apps, webVars, ditectVars
<1>5. ASSUME NEW a \in Apps, Driver(a) PROVE CameraInv'
  <2> USE <1>5 DEF Driver
  <2>1. CASE qbuf_get_container(a) BY <2>1 DEF qbuf_get_container
  <2>2. CASE qbuf_copy(a) BY <2>2 DEF qbuf_copy
  <2>3. CASE qbuf_queue_container(a) BY <2>3 DEF qbuf_queue_container
  <2>4. CASE qbuf_start_capture(a) BY <2>4 DEF qbuf_start_capture
  <2>5. CASE qbuf_set_state(a) BY <2>5 DEF qbuf_set_state
  <2>6. CASE dqbuf_start(a) BY <2>6 DEF dqbuf_start, start_capture
  <2>7. CASE dqbuf_sem_wait(a) BY <2>7 DEF dqbuf_sem_wait
  <2>8. CASE dqbuf_woken(a) BY <2>8 DEF dqbuf_woken
  <2> QED BY <2>1, <2>2, <2>3, <2>4, <2>5, <2>6, <2>7, <2>8 DEF VideoCall
<1>6. CASE Interrupt
  BY <1>6 DEF Interrupt, video_complete_capture, complete_capture_waited,
     complete_capture_unwaited
<1>7. CASE InterruptFaults BY <1>7 DEF InterruptFaults
<1>8. CASE PowerLoss
  BY <1>8 DEF PowerLoss, VideoPowerLoss, WebPowerLoss, DitectPowerLoss
<1> QED BY <1>1, <1>2, <1>3, <1>4, <1>5, <1>6, <1>7, <1>8 DEF Next

\* At a boot nobody has the camera.
LEMMA InitCameraInv == Init => CameraInv
BY DEF Init, VideoInit, WebInit, DitectInit, CameraInv, OpenCountExact, OpenDescriptors,
       WebFd, DitectFd, StreamStarted, StreamExclusive, WebStreams, DitectStreams, Apps

(***************************************************************************)
(* Every variable of the board keeps its type, and the camera's invariant  *)
(* holds; neither is inductive alone, since the open count is a natural    *)
(* number only because every close has its open.                           *)
(***************************************************************************)
THEOREM TypesAndCamera == Spec => [](TypeOK /\ CameraInv)
<1>1. Init => TypeOK /\ CameraInv BY InitTypes, InitCameraInv
<1>2. TypeOK /\ CameraInv /\ [Next]_vars => (TypeOK /\ CameraInv)'
  BY NextTypes, NextCameraInv DEF CameraInv
<1> QED BY <1>1, <1>2, PTL DEF Spec

(***************************************************************************)
(* Type correctness of the two tasks, the driver, the card and the server. *)
(***************************************************************************)
THEOREM TypeCorrect == Spec => []TypeOK
BY TypesAndCamera, PTL

(***************************************************************************)
(* The driver's open count is exact (video_open and video_close).          *)
(***************************************************************************)
THEOREM OpenCountCorrect == Spec => []OpenCountExact
<1>1. CameraInv => OpenCountExact BY DEF CameraInv
<1> QED BY <1>1, TypesAndCamera, PTL

(***************************************************************************)
(* web_source and diff_ditect never stream at the same time.               *)
(***************************************************************************)
THEOREM CameraExclusion == Spec => []StreamExclusive
<1>1. CameraInv => StreamExclusive BY DEF CameraInv
<1> QED BY <1>1, TypesAndCamera, PTL

(***************************************************************************)
(* The background picture is never read while it is being rewritten: both  *)
(* happen only while the camera streams for the one that does it.          *)
(***************************************************************************)
THEOREM PictureNeverTorn == Spec => []NoTornPicture
<1>1. CameraInv => NoTornPicture
  BY DEF CameraInv, StreamExclusive, WebStreams, DitectStreams, WebFd, NoTornPicture
<1> QED BY <1>1, TypesAndCamera, PTL

----------------------------------------------------------------------------
(* The order of the switch commands.                                       *)

\* At the start every number is 0.
LEMMA InitOrder == Init => OrderInv
BY DEF Init, CardInit, WebInit, DitectInit, OrderInv, NoContent

\* A step that changes none of the places a command passes through.
LEMMA OrderFrame ==
  ASSUME OrderInv, UNCHANGED <<lastForced, cbuff, switch_rd, switch_ini, pend, nsent, rx>>,
         dpc' = "sw_read" => dpc = "sw_read"
  PROVE  OrderInv'
BY DEF OrderInv

\* web_source takes the oldest command and writes it to the file.
LEMMA WebKeepsOrder == ASSUME TypeOK, OrderInv, Web PROVE OrderInv'
<1> USE DEF TypeOK, WebTypeOK, CardTypeOK, DitectTypeOK, Content
<1>1. CASE WebStart
  BY <1>1 DEF OrderInv, Web, WebStart, cardVars, ditectVars, boardVars
<1>2. CASE WebRead
  <2>1. 1 \in 1 .. Len(rx) /\ Head(rx) = rx[1]
    BY <1>2 DEF WebRead
  <2>2. pend'.id = rx[1].id /\ rx' = <<>>
    BY <1>2, <2>1 DEF WebRead
  <2>3. rx[1].id \in Nat
    <3> DEFINE Entry == [cmd: Commands, id: Nat]
    <3>1. rx \in Seq(Entry) OBVIOUS
    <3> HIDE DEF Entry
    <3>2. rx[1] \in Entry BY <2>1, <3>1
    <3> QED BY <3>2 DEF Entry
  <2> QED
    BY <1>2, <2>1, <2>2, <2>3 DEF OrderInv, Web, WebRead, cardVars, ditectVars, boardVars
<1>3. CASE WebOnOpen
  BY <1>3 DEF OrderInv, Web, WebOnOpen, WebFopenFails, fopen_switch_w, WebGoto, cardVars,
     ditectVars, boardVars
<1>4. CASE WebOnClose
  BY <1>4 DEF OrderInv, Web, WebOnClose, fclose_switch_w, SwitchText, WebGoto, ditectVars,
     boardVars
<1>5. CASE \/ WebOpen \/ WebReqbufs \/ WebSFmtMain \/ WebSFmtSub \/ WebStreamon
           \/ WebMemalign \/ WebQbufReturns \/ WebDqbufReturns \/ WebSend \/ WebSent
           \/ WebSaveOpen \/ WebSaveClose \/ WebCamClose \/ WebSetOpen \/ WebSetClose
           \/ WebFail
  BY <1>5, OrderFrame DEF Web, WebGoto, WebRefused, WebFopenFails, WebOpen, WebReqbufs,
     WebSFmtMain, WebSFmtSub, WebStreamon, WebMemalign, WebQbufReturns, WebDqbufReturns,
     WebSend, WebSent, WebSaveOpen, WebSaveClose, WebCamClose, WebSetOpen, WebSetClose,
     WebFail, cardVars, ditectVars, boardVars
<1> QED BY <1>1, <1>2, <1>3, <1>4, <1>5 DEF Web, WebNext

\* diff_ditect reads what is no older than what it read before.
LEMMA DitectKeepsOrder == ASSUME TypeOK, OrderInv, Ditect PROVE OrderInv'
<1> USE DEF Ditect, Goto, webVars, boardVars
<1>1. CASE SwitchOpen
  <2>1. /\ switch_rd'.data = switch_ini.data
        /\ UNCHANGED <<switch_ini, cbuff, lastForced, pend, rx, nsent>>
    BY <1>1 DEF SwitchOpen, fopen_switch_r
  <2>2. switch_rd'.data.id <= switch_ini'.data.id
    BY <2>1 DEF TypeOK, CardTypeOK, Content
  <2> QED BY <2>1, <2>2 DEF OrderInv
<1>2. CASE SwitchRead
  <2>1. cbuff' \in {switch_rd.data, switch_ini.data} \/ cbuff'.id = cbuff.id
    BY <1>2 DEF SwitchRead, ReadableSwitch, UninitialisedCbuff, TypeOK, DitectTypeOK, Content
  <2> QED
    BY <1>2, <2>1 DEF SwitchRead, OrderInv, cardVars, TypeOK, DitectTypeOK, CardTypeOK, Content
<1>3. CASE ForceOn \/ ForceOff
  <2>1. /\ lastForced' = cbuff.id
        /\ dpc' # "sw_read"
        /\ UNCHANGED <<cbuff, switch_rd, switch_ini>>
    BY <1>3 DEF ForceOn, ForceOff, cardVars
  <2>2. UNCHANGED <<pend, rx, nsent>>
    OBVIOUS
  <2>3. cbuff.id \in Nat
    BY DEF TypeOK, DitectTypeOK, Content
  <2>4. lastForced' <= cbuff'.id
    BY <2>1, <2>3
  <2> QED BY <2>1, <2>2, <2>4 DEF OrderInv
<1>4. CASE SwitchClose
  BY <1>4 DEF SwitchClose, fclose_switch_r, OrderInv, TypeOK, CardTypeOK
<1>5. CASE SwitchRemove
  BY <1>5 DEF SwitchRemove, remove_switch, OrderInv, TypeOK, CardTypeOK
<1>6. CASE \/ GPIO_init(Running) \/ Load_setting \/ IgnoreSwitch \/ FencePulseOn
           \/ FenceExpires \/ FenceReturns \/ NoSwitch \/ LoadPic \/ FindHazard
           \/ FindSafe \/ EndRound
  BY <1>6, OrderFrame DEF GPIO_init, Load_setting, IgnoreSwitch, FencePulseOn,
     FenceExpires, FenceReturns, FenceStep, NoSwitch, LoadPic, FindHazard, FindSafe,
     EndRound, cardVars
<1>7. CASE \/ DitectOpen \/ DitectReqbufs \/ DitectSFmt \/ DitectMemalign
           \/ DitectStreamon \/ DitectFail \/ DitectSetCamimage \/ DitectQbufReturns
           \/ DitectDqbufReturns \/ FindNobody
  BY <1>7, OrderFrame DEF DitectOpen, DitectReqbufs, DitectSFmt, DitectMemalign,
     DitectStreamon, DitectFail, DitectSetCamimage, DitectQbufReturns,
     DitectDqbufReturns, FindNobody, PrepareStep, cardVars
<1> QED BY <1>1, <1>2, <1>3, <1>4, <1>5, <1>6, <1>7 DEF DitectNext

\* The server sends the largest number.
LEMMA ServerKeepsOrder == ASSUME TypeOK, OrderInv, Server PROVE OrderInv'
<1>1. ASSUME NEW cmd \in Requests, ServerSends(cmd) PROVE OrderInv'
  <2> DEFINE Entry == [cmd: Commands, id: Nat]
  <2>1. nsent \in Nat /\ rx \in Seq(Entry) /\ pend.id \in Nat /\ pend.id <= nsent
    BY DEF TypeOK, ServerTypeOK, WebTypeOK, OrderInv
  <2>2. [cmd |-> cmd, id |-> nsent + 1] \in Entry
    BY <2>1, BoardAssumption
  <2>3. \A k \in 1 .. Len(rx) : rx[k].id \in Nat
    <3> TAKE k \in 1 .. Len(rx)
    <3> HIDE DEF Entry
    <3>1. rx[k] \in Entry BY <2>1
    <3> QED BY <3>1 DEF Entry
  <2> HIDE DEF Entry
  <2>4. /\ Len(rx') = Len(rx) + 1
        /\ rx'[Len(rx) + 1].id = nsent + 1
        /\ \A k \in 1 .. Len(rx) : rx'[k] = rx[k]
    BY <1>1, <2>1, <2>2 DEF ServerSends
  <2>5. UNCHANGED pend /\ nsent' = nsent + 1
    BY <1>1 DEF ServerSends
  <2>6. \A k \in 1 .. Len(rx) : pend.id <= rx[k].id /\ rx[k].id <= nsent
    BY DEF OrderInv
  <2>7. Len(rx) \in Nat BY <2>1
  <2>8. ASSUME NEW k \in 1 .. Len(rx')
        PROVE  pend'.id <= rx'[k].id /\ rx'[k].id <= nsent'
    <3>1. CASE k \in 1 .. Len(rx)
      BY <2>1, <2>3, <2>4, <2>5, <2>6, <3>1
    <3>2. CASE k = Len(rx) + 1
      BY <2>1, <2>4, <2>5, <3>2
    <3> QED BY <2>4, <2>7, <3>1, <3>2
  <2>9. UNCHANGED <<lastForced, cbuff, switch_rd, switch_ini, dpc>>
    BY <1>1 DEF ServerSends, cardVars, ditectVars
  <2> QED BY <2>1, <2>5, <2>8, <2>9 DEF OrderInv
<1>2. CASE ServerGetsPicture \/ ServerReadsNothing \/ ServerRestarts
  BY <1>2, OrderFrame DEF ServerGetsPicture, ServerReadsNothing, ServerRestarts, cardVars,
     ditectVars
<1> QED BY <1>1, <1>2 DEF Server

\* Every step keeps the order.
LEMMA NextOrder == TypeOK /\ OrderInv /\ [Next]_vars => OrderInv'
<1> SUFFICES ASSUME TypeOK, OrderInv, [Next]_vars PROVE OrderInv' OBVIOUS
<1>1. CASE Server BY <1>1, ServerKeepsOrder
<1>2. CASE Web BY <1>2, WebKeepsOrder
<1>3. CASE Ditect BY <1>3, DitectKeepsOrder
<1>4. CASE (\E a \in Apps : Driver(a)) \/ Interrupt \/ InterruptFaults
  BY <1>4, OrderFrame DEF Driver, Interrupt, InterruptFaults, cardVars, webVars, ditectVars,
     boardVars
<1>5. CASE PowerLoss
  <2>1. cbuff'.id = cbuff.id /\ switch_rd'.data = switch_rd.data /\ rx' = <<>>
    BY <1>5 DEF PowerLoss, DitectPowerLoss, CardPowerLoss, WebPowerLoss, TypeOK,
       DitectTypeOK, CardTypeOK, Content
  <2> QED
    BY <1>5, <2>1 DEF PowerLoss, DitectPowerLoss, CardPowerLoss, WebPowerLoss, OrderInv
<1>6. CASE UNCHANGED vars
  BY <1>6, OrderFrame DEF vars, cardVars, webVars, ditectVars, boardVars
<1> QED BY <1>1, <1>2, <1>3, <1>4, <1>5, <1>6 DEF Next

\* Only the two forcing steps change lastForced, and they set it to cbuff's.
LEMMA ForcedStep == TypeOK /\ OrderInv /\ [Next]_vars => lastForced' >= lastForced
<1> SUFFICES ASSUME TypeOK, OrderInv, [Next]_vars PROVE lastForced' >= lastForced OBVIOUS
<1> USE DEF TypeOK, DitectTypeOK
<1>1. CASE ForceOn \/ ForceOff
  BY <1>1 DEF ForceOn, ForceOff, OrderInv, Content
<1>2. CASE ~(ForceOn \/ ForceOff) /\ Ditect
  <2>1. UNCHANGED lastForced
    BY <1>2 DEF Ditect, DitectNext, PrepareStep, FenceStep, GPIO_init, Load_setting,
       DitectOpen, DitectReqbufs, DitectSFmt, DitectMemalign, DitectStreamon, DitectFail,
       SwitchOpen, SwitchRead, IgnoreSwitch, SwitchClose, SwitchRemove, FencePulseOn,
       FenceExpires, FenceReturns, NoSwitch, LoadPic, DitectSetCamimage,
       DitectQbufReturns, DitectDqbufReturns, FindNobody, FindHazard, FindSafe, EndRound
  <2> QED BY <2>1
<1>3. CASE ~Ditect
  <2>1. UNCHANGED lastForced
    BY <1>3 DEF Next, vars, Server, ServerSends, ServerGetsPicture, ServerReadsNothing,
       ServerRestarts, Web, Driver, Interrupt, InterruptFaults, PowerLoss, DitectPowerLoss,
       ditectVars
  <2> QED BY <2>1
<1> QED BY <1>1, <1>2, <1>3

(***************************************************************************)
(* No number of requests, rewritings of switch.ini, empty reads or reboots *)
(* makes diff_ditect obey an older switch command after a newer one.       *)
(***************************************************************************)
THEOREM SwitchOrder == Spec => ForcedInOrder
<1>1. Init => OrderInv BY InitOrder
<1>2. TypeOK /\ OrderInv /\ [Next]_vars => OrderInv' BY NextOrder
<1>3. TypeOK /\ OrderInv /\ [Next]_vars => [lastForced' >= lastForced]_vars BY ForcedStep
<1> QED BY <1>1, <1>2, <1>3, TypeCorrect, PTL DEF Spec, ForcedInOrder

----------------------------------------------------------------------------
(* The two abstract specifications.                                        *)

\* web_source moves its command into the box, which is no older.
LEMMA WebPuts ==
  ASSUME TypeOK, OrderInv, Web
  PROVE  Mailbox!Put \/ UNCHANGED <<nsent, switch_ini.data.id, lastForced>>
<1> USE DEF Web, WebGoto, ditectVars, boardVars
<1>1. CASE WebOnOpen
  BY <1>1 DEF WebOnOpen, WebFopenFails, fopen_switch_w, cardVars, TypeOK, CardTypeOK
<1>2. CASE WebOnClose
  <2>1. switch_ini'.data.id \in {switch_ini.data.id, pend.id}
    BY <1>2 DEF WebOnClose, fclose_switch_w, SwitchText
  <2>2. /\ switch_ini.data.id \in Nat /\ pend.id \in Nat /\ nsent \in Nat
        /\ switch_ini.data.id <= pend.id /\ pend.id <= nsent
    BY DEF TypeOK, CardTypeOK, Content, WebTypeOK, ServerTypeOK, OrderInv
  <2>3. switch_ini'.data.id \in switch_ini.data.id .. nsent
    BY <2>1, <2>2
  <2> QED BY <2>3 DEF Mailbox!Put
<1>3. CASE \/ WebStart \/ WebRead \/ WebOpen \/ WebReqbufs \/ WebSFmtMain \/ WebSFmtSub
           \/ WebStreamon \/ WebMemalign \/ WebQbufReturns \/ WebDqbufReturns
           \/ WebSend \/ WebSent \/ WebSaveOpen \/ WebSaveClose \/ WebCamClose
           \/ WebSetOpen \/ WebSetClose \/ WebFail
  BY <1>3 DEF WebStart, WebRead, WebRefused, WebFopenFails, WebOpen, WebReqbufs,
     WebSFmtMain, WebSFmtSub, WebStreamon, WebMemalign, WebQbufReturns, WebDqbufReturns,
     WebSend, WebSent, WebSaveOpen, WebSaveClose, WebCamClose, WebSetOpen, WebSetClose,
     WebFail, cardVars
<1> QED BY <1>1, <1>2, <1>3 DEF WebNext

\* diff_ditect obeys what is no older than its last and no newer than the box.
LEMMA DitectObeys ==
  ASSUME TypeOK, OrderInv, Ditect
  PROVE  Mailbox!Obey \/ UNCHANGED <<nsent, switch_ini.data.id, lastForced>>
<1> USE DEF Ditect, Goto, webVars, boardVars
<1>1. CASE ForceOn \/ ForceOff
  <2>1. lastForced' = cbuff.id /\ UNCHANGED switch_ini
    BY <1>1 DEF ForceOn, ForceOff, cardVars
  <2>2. /\ lastForced \in Nat /\ cbuff.id \in Nat /\ switch_ini.data.id \in Nat
        /\ lastForced <= cbuff.id /\ cbuff.id <= switch_ini.data.id
    BY DEF TypeOK, CardTypeOK, DitectTypeOK, Content, OrderInv
  <2>3. lastForced' \in lastForced .. switch_ini.data.id
    BY <2>1, <2>2
  <2> QED BY <2>1, <2>3 DEF Mailbox!Obey
<1>2. CASE SwitchOpen \/ SwitchClose
  BY <1>2 DEF SwitchOpen, SwitchClose, fopen_switch_r, fclose_switch_r
<1>3. CASE SwitchRemove
  BY <1>3 DEF SwitchRemove, remove_switch, TypeOK, CardTypeOK
<1>4. CASE \/ GPIO_init(Running) \/ Load_setting \/ SwitchRead \/ IgnoreSwitch
           \/ FencePulseOn \/ FenceExpires \/ FenceReturns \/ NoSwitch \/ LoadPic
           \/ FindHazard \/ FindSafe \/ EndRound
  BY <1>4 DEF GPIO_init, Load_setting, SwitchRead, IgnoreSwitch, FencePulseOn,
     FenceExpires, FenceReturns, FenceStep, NoSwitch, LoadPic, FindHazard, FindSafe,
     EndRound, cardVars
<1>5. CASE \/ DitectOpen \/ DitectReqbufs \/ DitectSFmt \/ DitectMemalign
           \/ DitectStreamon \/ DitectFail \/ DitectSetCamimage \/ DitectQbufReturns
           \/ DitectDqbufReturns \/ FindNobody
  BY <1>5 DEF DitectOpen, DitectReqbufs, DitectSFmt, DitectMemalign,
     DitectStreamon, DitectFail, DitectSetCamimage, DitectQbufReturns,
     DitectDqbufReturns, FindNobody, PrepareStep, cardVars
<1> QED BY <1>1, <1>2, <1>3, <1>4, <1>5 DEF DitectNext

(***************************************************************************)
(* The serial buffer, switch.ini with its two streams, cbuff and reboots   *)
(* implement a mailbox in which a command is never overtaken by an older   *)
(* one, for any number of commands and power losses.                       *)
(***************************************************************************)
THEOREM SwitchImplementsMailbox == Spec => MailboxSpec
<1>1. Init => Mailbox!Init
  BY DEF Init, CardInit, DitectInit, Mailbox!Init
<1>2. TypeOK /\ OrderInv /\ [Next]_vars
        => [Mailbox!Next]_<<nsent, switch_ini.data.id, lastForced>>
  <2> SUFFICES ASSUME TypeOK, OrderInv, [Next]_vars
               PROVE  Mailbox!Next \/ UNCHANGED <<nsent, switch_ini.data.id, lastForced>>
    OBVIOUS
  <2>1. CASE Server
    BY <2>1 DEF Server, ServerSends, ServerGetsPicture, ServerReadsNothing,
       ServerRestarts, cardVars, ditectVars, Mailbox!Next, Mailbox!Send
  <2>2. CASE Web BY <2>2, WebPuts DEF Mailbox!Next
  <2>3. CASE Ditect BY <2>3, DitectObeys DEF Mailbox!Next
  <2>4. CASE (\E a \in Apps : Driver(a)) \/ Interrupt \/ InterruptFaults
    BY <2>4 DEF Driver, Interrupt, InterruptFaults, cardVars, ditectVars, boardVars
  <2>5. CASE PowerLoss
    BY <2>5 DEF PowerLoss, CardPowerLoss, DitectPowerLoss
  <2>6. CASE UNCHANGED vars
    BY <2>6 DEF vars, cardVars, ditectVars, boardVars
  <2> QED BY <2>1, <2>2, <2>3, <2>4, <2>5, <2>6 DEF Next
<1>3. TypeOK /\ OrderInv /\ [Next]_vars => OrderInv' BY NextOrder
<1> QED BY <1>1, <1>2, <1>3, InitOrder, TypeCorrect, PTL DEF Spec, MailboxSpec, Mailbox!Spec
=============================================================================
