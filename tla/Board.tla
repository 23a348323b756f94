------------------------------- MODULE Board -------------------------------
(***************************************************************************)
(* The Spresense board: web_source and diff_ditect as two tasks that share *)
(* the camera and the SD card, the capture interrupt, power losses, and    *)
(* the PC's server at the other end of the serial line, which sends one    *)
(* command at a time and waits only for pictures.                          *)
(***************************************************************************)
EXTENDS WebSource, DiffDitect

CONSTANTS
  Requests,     \* the commands the browser asks for
  MaxRequests,  \* bound: commands the server sends
  MaxReboots    \* bound: power losses

ASSUME BoardAssumption ==
  /\ Requests \subseteq Commands
  /\ MaxRequests \in Nat
  /\ MaxReboots \in Nat

VARIABLES
  server,    \* WebServer.Run: "idle", in the "camera" branch, or "dead"
  nsent,     \* commands sent so far; the last one's number
  reboots,   \* power losses so far
  torn       \* history: a power loss hit the background while it was saved

boardVars == <<server, nsent, reboots, torn>>

vars == <<devVars, cardVars, webVars, ditectVars, boardVars>>

ServerTypeOK ==
  /\ server \in {"idle", "camera", "dead"}
  /\ nsent \in Nat
  /\ reboots \in Nat
  /\ torn \in BOOLEAN

\* The types of all parts: the driver's chains hold its one container or
\* NULL, and diff_ditect's round counter stays below its period.
TypeOK == VideoTypeOK /\ CardTypeOK /\ WebTypeOK /\ DitectTypeOK /\ ServerTypeOK

Init ==
  /\ VideoInit /\ CardInit /\ WebInit /\ DitectInit
  /\ server = "idle" /\ nsent = 0
  /\ reboots = 0 /\ torn = FALSE
----------------------------------------------------------------------------
(* The server                                                              *)

ServerSends(cmd) ==
  /\ server = "idle"
  /\ nsent < MaxRequests
  /\ nsent' = nsent + 1
  /\ rx' = Append(rx, [cmd |-> cmd, id |-> nsent + 1])
  /\ server' = IF cmd = "camera" THEN "camera" ELSE "idle"
  /\ UNCHANGED <<wpc, pend, tx, reboots, torn, devVars, cardVars, ditectVars>>

ServerGetsPicture ==
  /\ server = "camera"
  /\ tx = "all"
  /\ server' = "idle"
  /\ tx' = "none"
  /\ UNCHANGED <<wpc, rx, pend, nsent, reboots, torn, devVars, cardVars, ditectVars>>

\* Nothing will come: web_source has ended, waits for the next command, or
\* waits for a capture that nobody started.
WebIsSilent ==
  \/ wpc \in {"exited", "halted"}
  \/ wpc = "read" /\ rx = <<>>
  \/ io["web"] = "dq_wait" /\ dma = "off"

\* After 1.5 s without a byte the server reads an empty buffer, looks for
\* the terminator in front of it, and the exception ends Run.  Where the
\* board may be slow, all may have been written when it looks.
ServerReadsNothing ==
  /\ server = "camera"
  /\ "slow" \in Faults \/ (tx # "all" /\ WebIsSilent)
  /\ server' = "dead"
  /\ UNCHANGED <<wpc, rx, pend, tx, nsent, reboots, torn, devVars, cardVars, ditectVars>>

\* The operator starts the server program again (ServerHost shows why no
\* Connect of the same program helps); Connect empties the port.
ServerRestarts ==
  /\ server = "dead"
  /\ server' = "idle"
  /\ tx' = "none"
  /\ UNCHANGED <<wpc, rx, pend, nsent, reboots, torn, devVars, cardVars, ditectVars>>

Server ==
  \/ \E cmd \in Requests : ServerSends(cmd)
  \/ ServerGetsPicture \/ ServerReadsNothing \/ ServerRestarts
----------------------------------------------------------------------------
(* The board                                                               *)

Web    == WebNext /\ UNCHANGED <<ditectVars, boardVars>>

Ditect == DitectNext(Running) /\ UNCHANGED <<webVars, boardVars>>

\* A task inside a driver call.
Driver(a) == VideoCall(a) /\ UNCHANGED <<cardVars, webVars, ditectVars, boardVars>>

Interrupt == video_complete_capture /\ UNCHANGED <<cardVars, webVars, ditectVars, boardVars>>

\* The interrupt dereferences NULL; what the board does then is not
\* described here, it takes no further step until it is switched off.
InterruptFaults ==
  /\ CaptureFaults
  /\ wpc' = "halted" /\ dpc' = "halted"
  /\ io' = [a \in Apps |-> "none"]
  /\ dma' = "off"
  /\ UNCHANGED <<open_num, state, fmt, vbuf, done_container, fd, frame_mem, frame,
                 cardVars, rx, pend, tx, cbuff, isOn, isLoaded, i, pic, zone,
                 sck, miso, lastForced, boardVars>>

\* Only the card survives.  The server loses its port.
PowerLoss ==
  /\ reboots < MaxReboots
  /\ reboots' = reboots + 1
  /\ torn' = (torn \/ wpc = "save_close")
  /\ server' = "dead"
  /\ VideoPowerLoss /\ CardPowerLoss /\ WebPowerLoss /\ DitectPowerLoss
  /\ UNCHANGED nsent

Next ==
  \/ Server
  \/ Web
  \/ Ditect
  \/ \E a \in Apps : Driver(a)
  \/ Interrupt
  \/ InterruptFaults
  \/ PowerLoss

Spec == Init /\ [][Next]_vars

(***************************************************************************)
(* Both tasks have the same priority and round-robin scheduling, all waits *)
(* of Fence_on and of the main loop are timed, and a started capture ends  *)
(* with an interrupt: each runs on when it can.  The server's loop goes on *)
(* by itself; a browser's request and a power loss need not come.          *)
(***************************************************************************)
FairSpec ==
  /\ Spec
  /\ WF_vars(Web)
  /\ WF_vars(Ditect)
  /\ \A a \in Apps : WF_vars(Driver(a))
  /\ WF_vars(Interrupt)
  /\ WF_vars(ServerGetsPicture) /\ WF_vars(ServerReadsNothing)
----------------------------------------------------------------------------
(* Safety                                                                  *)

\* web_source between its STREAMON and its close.
WebStreams == wpc \in {"memalign", "qbuf", "dqbuf", "send", "sent", "save_open",
                       "save_close", "cam_close"} /\ fd["web"] = "open"

\* diff_ditect between its STREAMON and its end.
DitectStreams == dpc \in {"loop", "sw_read", "sw_cmd", "sw_close", "sw_remove",
                          "load_read", "set_camimage", "qbuf", "dqbuf", "find",
                          "pulse_on", "on_wait", "pulse_off", "sleep"}

(***************************************************************************)
(* The two applications never both have the camera streaming: STREAMON     *)
(* succeeds only on a stopped stream, and the stream stops only at the     *)
(* last close.                                                             *)
(***************************************************************************)
StreamExclusive == ~(WebStreams /\ DitectStreams)

(* Why it holds: where each task is fixes whether its descriptor is open,  *)
(* and a task that streams keeps the stream from being stopped.            *)

WebFd ==
  /\ wpc \in {"start", "open"} => fd["web"] = "unset"
  /\ wpc \in {"read", "set_open", "set_close", "on_open", "on_close"} => fd["web"] # "open"
  /\ wpc \in {"reqbufs", "s_fmt_main", "s_fmt_sub", "streamon", "dqbuf", "send",
              "sent", "save_open", "save_close", "cam_close"} => fd["web"] = "open"
  /\ wpc = "qbuf" /\ fd["web"] # "open" => io["web"] \in {"qbuf_get", "ret_err"}

DitectFd ==
  /\ dpc \in {"start", "load_setting", "open"} => fd["ditect"] = "unset"
  /\ dpc \in {"reqbufs", "s_fmt", "memalign", "streamon"} \/ DitectStreams
       => fd["ditect"] = "open"

StreamStarted == WebStreams \/ DitectStreams => state # "STREAMOFF"

CameraInv == OpenCountExact /\ WebFd /\ DitectFd /\ StreamStarted /\ StreamExclusive

(***************************************************************************)
(* diff_ditect never reads uyvy.yuv while web_source is rewriting it.      *)
(* Nothing locks the file; the camera does, because web_source rewrites    *)
(* the picture before it closes the camera.                                *)
(***************************************************************************)
NoTornPicture == ~(dpc = "load_read" /\ wpc = "save_close")

(***************************************************************************)
(* A frame is compared with a background that was read from the card,      *)
(* never with uninitialised memory, unless a power loss interrupted the    *)
(* saving of the background: load_pic does not check what it read.         *)
(***************************************************************************)
BackgroundLoaded == dpc = "find" /\ ~torn => pic # "uninit"

(***************************************************************************)
(* Outside Fence_on, isOn says what the fence's relay pin says: every path *)
(* that drives the pin, forced or not, leaves isOn in step.                *)
(***************************************************************************)
RelayMatches == DitectStreams /\ ~InFenceOn => (isOn <=> sck = 0)

(***************************************************************************)
(* Switch commands take effect in the order in which they were sent:       *)
(* through the serial buffer, the file, its rewriting and removal, stale   *)
(* bytes of an empty file and reboots, an older command never overrides a  *)
(* newer one.                                                              *)
(***************************************************************************)
ForcedInOrder == [][lastForced' >= lastForced]_vars

(* Why it holds: a command never has a smaller number than what is further *)
(* down the line, from the serial buffer to the last one obeyed.           *)

OrderInv ==
  /\ lastForced <= cbuff.id
  /\ dpc = "sw_read" => cbuff.id <= switch_rd.data.id
  /\ cbuff.id <= switch_ini.data.id
  /\ switch_rd.data.id <= switch_ini.data.id
  /\ switch_ini.data.id <= pend.id
  /\ pend.id <= nsent
  /\ \A k \in 1 .. Len(rx) : pend.id <= rx[k].id /\ rx[k].id <= nsent

(***************************************************************************)
(* The forced switch implements the mailbox that its user may think of:    *)
(* serial buffer, file, stale reads, removal and reboots together behave   *)
(* as one box that only newer commands enter.                              *)
(***************************************************************************)
Mailbox == INSTANCE SwitchMailbox
             WITH sent <- nsent, box <- switch_ini.data.id, done <- lastForced

MailboxSpec == Mailbox!Spec

(***************************************************************************)
(* The capture interrupt writes through vbuf_curr without a test.  It can  *)
(* come to find NULL there in one way only: a REQBUFS of the other task    *)
(* between the start of the hardware and the state CAPTURE, inside one     *)
(* QBUF (l.1185-1187 of video.c).  Once the state says CAPTURE no request, *)
(* no ring capture, no close and no power loss takes the container away    *)
(* from under running hardware.                                            *)
(***************************************************************************)
FaultNeedsWindow ==
  [][~CaptureFaults /\ CaptureFaults'
       => \E a \in Apps : io[a] = "qbuf_state" /\ io'[a] = "qbuf_state"]_vars

(***************************************************************************)
(* Liveness.  A switch.ini on the card is eventually consumed, as long as  *)
(* diff_ditect runs.                                                       *)
(***************************************************************************)
SwitchConsumed ==
  (switch_ini.entry = "full" /\ DitectStreams)
    ~> (switch_ini.entry # "full" \/ ~DitectStreams)

(***************************************************************************)
(* The guard goes on: while diff_ditect runs with a background on the card *)
(* it comes to compare a frame again and again, once the switch commands   *)
(* stop.  No exchange with the driver may lose the capture's wake-up.      *)
(***************************************************************************)
GuardGoesOn ==
  (DitectStreams /\ uyvy # "absent") ~> (dpc = "find" \/ ~DitectStreams)

(***************************************************************************)
(* While web_source takes no picture, the frame that diff_ditect compares  *)
(* is a captured one in its own format (get_camimage: "VIDIOC_DQBUF        *)
(* acquires captured data."), over power losses and forced switching.      *)
(***************************************************************************)
FrameIsCaptured == dpc = "find" => frame["ditect"] = "uyvy"
----------------------------------------------------------------------------
(* What the repository says of the program and the code does not do        *)

(***************************************************************************)
(* The comment in get_camimage ("VIDIOC_DQBUF acquires captured data."): a *)
(* diff_ditect that waits in DQBUF gets its frame.                         *)
(***************************************************************************)
DqbufReturns == io["ditect"] = "dq_wait" ~> io["ditect"] # "dq_wait"

(***************************************************************************)
(* The calibration page asks for a picture each time it is opened.  When   *)
(* web_source is listening and the request is the next thing it reads, the *)
(* whole picture eventually reaches the server.                            *)
(***************************************************************************)
CameraHeard == server = "camera" /\ wpc = "read" /\ rx # <<>> /\ Head(rx).cmd = "camera"

CameraAnswered == CameraHeard ~> tx = "all"

(***************************************************************************)
(* The buttons "force ON" and "force OFF": a command that web_source is    *)
(* about to read while diff_ditect runs takes effect, or a later one does. *)
(***************************************************************************)
SwitchHeard(n) == wpc = "read" /\ rx # <<>> /\ Head(rx).id = n /\ DitectStreams

ForceHonoured == \A n \in 1 .. MaxRequests : SwitchHeard(n) ~> lastForced >= n
=============================================================================
