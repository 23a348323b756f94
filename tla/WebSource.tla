----------------------------- MODULE WebSource -----------------------------
(***************************************************************************)
(* web_source, the task that reads commands from the USB serial port: it   *)
(* sends a picture ("camera"), stores the hazard zone ("set") and leaves   *)
(* the forced switch command for diff_ditect ("on").                       *)
(*                                                                         *)
(* The serial line carries bare text.  One read() returns everything that  *)
(* has arrived, so commands that arrive together are one buffer, which is  *)
(* recognised by its first command alone and then cleared.                 *)
(***************************************************************************)
EXTENDS VideoDevice, SdCard, Sequences

CONSTANT Running  \* the applications that are launched after a boot

ASSUME RunningAssumption == Running \subseteq Apps

VARIABLES
  wpc,    \* where web_source is
  rx,     \* commands in the receive buffer of /dev/ttyACM0
  pend,   \* the command in buff, and whether more text follows it
  tx      \* the picture on its way to the server: "none", "some", "all"

webVars == <<wpc, rx, pend, tx>>

Commands == {"camera", "set", "on", "off"}

WebSteps == {"start", "read", "open", "reqbufs", "s_fmt_main", "s_fmt_sub",
             "streamon", "memalign", "qbuf", "dqbuf", "send", "sent",
             "save_open", "save_close", "cam_close", "set_open", "set_close",
             "on_open", "on_close", "fail", "exited", "halted"}

WebTypeOK ==
  /\ wpc \in WebSteps
  /\ rx \in Seq([cmd: Commands, id: Nat])
  /\ pend \in [cmd: Commands, id: Nat, more: BOOLEAN]
  /\ tx \in {"none", "some", "all"}

WebInit ==
  /\ wpc = "start"
  /\ rx = <<>>
  /\ pend = [cmd |-> "off", id |-> 0, more |-> FALSE]
  /\ tx = "none"

WebPowerLoss ==
  /\ wpc' = "start"
  /\ rx' = <<>>
  /\ tx' = "none"
  /\ UNCHANGED pend

\* main: open the port and flush what came before.
WebStart ==
  /\ wpc = "start"
  /\ "web" \in Running
  /\ \/ wpc' = "read" /\ rx' = <<>>
     \/ "tty" \in Faults /\ wpc' = "exited" /\ UNCHANGED rx
  /\ UNCHANGED <<pend, tx, devVars, cardVars>>

\* The branch strncmp chooses.  Nothing in the chain matches "off".
Dispatch(cmd) ==
  CASE cmd = "camera" -> IF fd["web"] = "unset" THEN "open" ELSE "memalign"
    [] cmd = "set"    -> "set_open"
    [] cmd = "on"     -> "on_open"
    [] OTHER          -> "read"

\* Mutant: the newest command is served first, the others stay.
WebRead_newest_first ==
  /\ wpc = "read"
  /\ rx # <<>>
  /\ LET newest == rx[Len(rx)]
     IN  /\ pend' = [cmd |-> newest.cmd, id |-> newest.id, more |-> FALSE]
         /\ wpc' = Dispatch(newest.cmd)
  /\ rx' = SubSeq(rx, 1, Len(rx) - 1)
  /\ UNCHANGED <<tx, devVars, cardVars>>

WebRead ==
  /\ wpc = "read"
  /\ rx # <<>>
  /\ pend' = [cmd |-> Head(rx).cmd, id |-> Head(rx).id, more |-> Len(rx) > 1]
  /\ rx' = <<>>
  /\ wpc' = Dispatch(Head(rx).cmd)
  /\ UNCHANGED <<tx, devVars, cardVars>>
----------------------------------------------------------------------------
(* camera_prepare: every failure closes the descriptor and ends main.      *)

WebGoto(from, to) ==
  /\ wpc = from
  /\ wpc' = to
  /\ UNCHANGED <<rx, pend, tx>>

WebOpen ==
  \/ /\ WebGoto("open", "reqbufs")
     /\ video_open("web")
     /\ UNCHANGED cardVars
  \/ /\ OpenMayFail
     /\ WebGoto("open", "exited")
     /\ UNCHANGED <<devVars, cardVars>>

\* An ioctl the driver refuses.
WebRefused(at, permitted) ==
  /\ ~permitted
  /\ WebGoto(at, "fail")
  /\ UNCHANGED <<devVars, cardVars>>

WebReqbufs ==
  \/ /\ ReqbufsPermitted
     /\ WebGoto("reqbufs", "s_fmt_main")
     /\ video_reqbufs
     /\ UNCHANGED cardVars
  \/ WebRefused("reqbufs", ReqbufsPermitted)

WebSFmtMain ==
  \/ /\ SFmtPermitted("jpeg")
     /\ WebGoto("s_fmt_main", "s_fmt_sub")
     /\ video_s_fmt("jpeg")
     /\ UNCHANGED cardVars
  \/ WebRefused("s_fmt_main", SFmtPermitted("jpeg"))

WebSFmtSub ==
  \/ /\ SFmtPermitted("jpeg_sub")
     /\ WebGoto("s_fmt_sub", "streamon")
     /\ video_s_fmt("jpeg_sub")
     /\ UNCHANGED cardVars
  \/ WebRefused("s_fmt_sub", SFmtPermitted("jpeg_sub"))

WebStreamon ==
  \/ /\ StreamonPermitted
     /\ WebGoto("streamon", "memalign")
     /\ video_streamon
     /\ UNCHANGED cardVars
  \/ WebRefused("streamon", StreamonPermitted)
----------------------------------------------------------------------------
(* set_camimage, get_camimage and the transfer                             *)

\* A new frame buffer for every picture.
WebMemalign ==
  \/ /\ WebGoto("memalign", "qbuf")
     /\ frame_mem' = [frame_mem EXCEPT !["web"] = "allocated"]
     /\ io' = [io EXCEPT !["web"] = "qbuf_get"]
     /\ UNCHANGED <<open_num, state, fmt, vbuf, done_container, dma, fd, frame>>
     /\ UNCHANGED cardVars
  \/ /\ "heap" \in Faults
     /\ WebGoto("memalign", "fail")
     /\ UNCHANGED <<devVars, cardVars>>

\* QBUF has returned; if it failed set_camimage closes and frees.
WebQbufReturns ==
  /\ io["web"] \in {"ret_ok", "ret_err"}
  /\ WebGoto("qbuf", IF io["web"] = "ret_ok" THEN "dqbuf" ELSE "fail")
  /\ io' = [io EXCEPT !["web"] = IF @ = "ret_ok" THEN "dq_start" ELSE "none"]
  /\ UNCHANGED <<open_num, state, fmt, vbuf, done_container, dma, fd, frame_mem, frame>>
  /\ UNCHANGED cardVars

WebDqbufReturns ==
  /\ io["web"] = "ret_ok"
  /\ WebGoto("dqbuf", "send")
  /\ io' = [io EXCEPT !["web"] = "none"]
  /\ UNCHANGED <<open_num, state, fmt, vbuf, done_container, dma, fd, frame_mem, frame>>
  /\ UNCHANGED cardVars

\* The picture, then its terminator; the transfer itself is SerialTransfer.
WebSend ==
  /\ wpc = "send"
  /\ wpc' = "sent"
  /\ tx' = "some"
  /\ UNCHANGED <<rx, pend, devVars, cardVars>>

\* Mutant: the terminator is not written.
WebSent_unterminated ==
  /\ wpc = "sent"
  /\ wpc' = "save_open"
  /\ UNCHANGED <<rx, pend, tx, devVars, cardVars>>

WebSent ==
  /\ wpc = "sent"
  /\ wpc' = "save_open"
  /\ tx' = "all"
  /\ UNCHANGED <<rx, pend, devVars, cardVars>>
----------------------------------------------------------------------------
(* The sub-image becomes diff_ditect's background picture.  If the file    *)
(* cannot be opened main returns; the end of the task closes the camera.   *)

\* Mutant: the camera is given up before the picture is saved.
WebSaveOpen_after_close ==
  /\ WebGoto("save_open", "save_close")
  /\ video_close("web")
  /\ uyvy' = "empty"
  /\ UNCHANGED <<switch_ini, switch_wr, switch_rd, hazard_ini, io, frame_mem, frame>>

WebSaveOpen ==
  \/ /\ WebGoto("save_open", "save_close")
     /\ uyvy' = "empty"
     /\ UNCHANGED <<switch_ini, switch_wr, switch_rd, hazard_ini, devVars>>
  \/ /\ "sdcard" \in Faults
     /\ WebGoto("save_open", "exited")
     /\ video_close("web")
     /\ UNCHANGED <<io, frame_mem, frame, cardVars>>

\* From a NULL frame the 153600 bytes at address 0 are saved; from a plain
\* UYVY frame or a JPEG with sub-image, the UYVY picture at its start.
WebSaveClose ==
  /\ WebGoto("save_close", "cam_close")
  /\ uyvy' = IF frame["web"] \in {"uyvy", "jpeg_sub"} THEN "frame" ELSE "junk"
  /\ UNCHANGED <<switch_ini, switch_wr, switch_rd, hazard_ini, devVars>>

\* close and free; video_fd keeps its number.
WebCamClose ==
  /\ WebGoto("cam_close", "read")
  /\ video_close("web")
  /\ frame_mem' = [frame_mem EXCEPT !["web"] = "freed"]
  /\ UNCHANGED <<io, frame, cardVars>>
----------------------------------------------------------------------------
(* "set" and "on"                                                          *)

\* fopen(path, "w") on a card that refuses it ends main.
WebFopenFails(at) ==
  /\ "sdcard" \in Faults
  /\ WebGoto(at, "exited")
  /\ UNCHANGED <<devVars, cardVars>>

WebSetOpen ==
  \/ /\ WebGoto("set_open", "set_close")
     /\ hazard_ini' = "empty"
     /\ UNCHANGED <<switch_ini, switch_wr, switch_rd, uyvy, devVars>>
  \/ WebFopenFails("set_open")

WebSetClose ==
  /\ WebGoto("set_close", "read")
  /\ hazard_ini' = "full"
  /\ UNCHANGED <<switch_ini, switch_wr, switch_rd, uyvy, devVars>>

WebOnOpen ==
  \/ /\ WebGoto("on_open", "on_close")
     /\ fopen_switch_w
     /\ UNCHANGED devVars
  \/ WebFopenFails("on_open")

\* Three bytes of buff: "on" and its NUL, or "on" and the first letter of
\* the command that was read with it.
SwitchText == [cmd |-> IF pend.more THEN "junk" ELSE "on", id |-> pend.id]

WebOnClose ==
  /\ WebGoto("on_close", "read")
  /\ fclose_switch_w(SwitchText)
  /\ UNCHANGED devVars

\* The common end of the error paths: close, free, return from main.
WebFail ==
  /\ WebGoto("fail", "exited")
  /\ video_close("web")
  /\ frame_mem' = [frame_mem EXCEPT !["web"] = IF @ = "allocated" THEN "freed" ELSE @]
  /\ UNCHANGED <<io, frame, cardVars>>

WebNext ==
  \/ WebStart \/ WebRead
  \/ WebOpen \/ WebReqbufs \/ WebSFmtMain \/ WebSFmtSub \/ WebStreamon
  \/ WebMemalign \/ WebQbufReturns \/ WebDqbufReturns \/ WebSend \/ WebSent
  \/ WebSaveOpen \/ WebSaveClose \/ WebCamClose
  \/ WebSetOpen \/ WebSetClose \/ WebOnOpen \/ WebOnClose
  \/ WebFail
=============================================================================
