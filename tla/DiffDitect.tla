----------------------------- MODULE DiffDitect -----------------------------
(***************************************************************************)
(* diff_ditect, the task that guards the zone: it obeys switch.ini, loads  *)
(* the background picture, compares it with a camera frame and switches    *)
(* the fence.  What the comparison finds in the pixels is a choice here.   *)
(***************************************************************************)
EXTENDS VideoDevice, SdCard, Integers

CONSTANT ReloadPeriod  \* rounds between two loads of the background: 60

ASSUME ReloadPeriodAssumption == ReloadPeriod \in Nat \ {0}

VARIABLES
  dpc,         \* where diff_ditect is
  cbuff,       \* the bytes of switch.ini; not initialised by the code
  isOn, isLoaded, i,
  pic,         \* what pic_mem holds
  zone,        \* the hazard limits: the initialisers or hazard.ini's
  sck, miso,   \* the two output pins
  lastForced   \* history: request of the last switch command obeyed

ditectVars == <<dpc, cbuff, isOn, isLoaded, i, pic, zone, sck, miso, lastForced>>

DitectSteps == {"start", "load_setting", "open", "reqbufs", "s_fmt",
                "memalign", "streamon", "loop", "sw_read", "sw_cmd",
                "sw_close", "sw_remove", "load_read", "set_camimage", "qbuf",
                "dqbuf", "find", "pulse_on", "on_wait", "pulse_off", "sleep",
                "fail", "exited", "halted"}

\* The steps of Fence_on after its first writes.
InFenceOn == dpc \in {"pulse_on", "on_wait", "pulse_off"}

DitectTypeOK ==
  /\ dpc \in DitectSteps
  /\ cbuff \in Content
  /\ isOn \in BOOLEAN /\ isLoaded \in BOOLEAN
  /\ i \in 0 .. ReloadPeriod - 1
  /\ pic \in {"uninit", "frame", "junk"}
  /\ zone \in {"default", "loaded"}
  /\ sck \in {-1, 0, 1} /\ miso \in {0, 1}
  /\ lastForced \in Nat

\* main's locals at their declarations.
DitectInit ==
  /\ dpc = "start"
  /\ cbuff = NoContent
  /\ isOn = FALSE /\ isLoaded = FALSE /\ i = 0
  /\ pic = "uninit"
  /\ zone = "default"
  /\ sck = 1 /\ miso = 1
  /\ lastForced = 0

\* A power loss forgets them; the history variables stay.
DitectPowerLoss ==
  /\ dpc' = "start"
  /\ cbuff' = [cbuff EXCEPT !.cmd = "junk"]
  /\ isOn' = FALSE /\ isLoaded' = FALSE /\ i' = 0
  /\ pic' = "uninit"
  /\ zone' = "default"
  /\ sck' = 1 /\ miso' = 1
  /\ UNCHANGED lastForced

Goto(from, to) == dpc = from /\ dpc' = to
----------------------------------------------------------------------------
(* Start: pins, hazard.ini, camera_prepare                                 *)

GPIO_init(running) ==
  /\ "ditect" \in running
  /\ Goto("start", "load_setting")
  /\ sck' = 1 /\ miso' = 1
  /\ UNCHANGED <<cbuff, isOn, isLoaded, i, pic, zone, lastForced, devVars, cardVars>>

\* The limits are read here and never again; an empty file sets none.
Load_setting ==
  /\ Goto("load_setting", "open")
  /\ zone' = IF hazard_ini = "full" THEN "loaded" ELSE zone
  /\ UNCHANGED <<cbuff, isOn, isLoaded, i, pic, sck, miso, lastForced, devVars, cardVars>>

PrepareStep(from, to) ==
  /\ Goto(from, to)
  /\ UNCHANGED <<cbuff, isOn, isLoaded, i, pic, zone, sck, miso, lastForced, cardVars>>

DitectOpen ==
  \/ PrepareStep("open", "reqbufs") /\ video_open("ditect")
  \/ OpenMayFail /\ PrepareStep("open", "exited") /\ UNCHANGED devVars

DitectReqbufs ==
  \/ ReqbufsPermitted /\ PrepareStep("reqbufs", "s_fmt") /\ video_reqbufs
  \/ ~ReqbufsPermitted /\ PrepareStep("reqbufs", "fail") /\ UNCHANGED devVars

DitectSFmt ==
  \/ SFmtPermitted("uyvy") /\ PrepareStep("s_fmt", "memalign") /\ video_s_fmt("uyvy")
  \/ ~SFmtPermitted("uyvy") /\ PrepareStep("s_fmt", "fail") /\ UNCHANGED devVars

\* frame_mem and pic_mem, once for the whole run.  Without memory for the
\* second one the first is not given back.
DitectMemalign ==
  \/ /\ PrepareStep("memalign", "streamon")
     /\ frame_mem' = [frame_mem EXCEPT !["ditect"] = "allocated"]
     /\ UNCHANGED <<open_num, state, fmt, vbuf, done_container, dma, fd, io, frame>>
  \/ /\ "heap" \in Faults
     /\ PrepareStep("memalign", "exited")
     /\ video_close("ditect")
     /\ \E m \in {"none", "allocated"} : frame_mem' = [frame_mem EXCEPT !["ditect"] = m]
     /\ UNCHANGED <<io, frame>>

DitectStreamon ==
  \/ StreamonPermitted /\ PrepareStep("streamon", "loop") /\ video_streamon
  \/ ~StreamonPermitted /\ PrepareStep("streamon", "fail") /\ UNCHANGED devVars

\* close, free, return from main.
DitectFail ==
  /\ PrepareStep("fail", "exited")
  /\ video_close("ditect")
  /\ frame_mem' = [frame_mem EXCEPT !["ditect"] = IF @ = "allocated" THEN "freed" ELSE @]
  /\ UNCHANGED <<io, frame>>
----------------------------------------------------------------------------
(* The forced switch                                                       *)

SwitchOpen ==
  /\ Goto("loop", "sw_read")
  /\ fopen_switch_r
  /\ UNCHANGED <<cbuff, isOn, isLoaded, i, pic, zone, sck, miso, lastForced, devVars>>

\* An empty file leaves cbuff as the stack left it: the command of an
\* earlier round or anything else.
UninitialisedCbuff == {cbuff, [cbuff EXCEPT !.cmd = "junk"]}

SwitchRead ==
  /\ Goto("sw_read", "sw_cmd")
  /\ cbuff' \in IF ReadableSwitch = {} THEN UninitialisedCbuff ELSE ReadableSwitch
  /\ UNCHANGED <<isOn, isLoaded, i, pic, zone, sck, miso, lastForced, devVars, cardVars>>

\* Fence_on's first writes; the rest of it are the Fence steps below.
ForceOn ==
  /\ cbuff.cmd = "on"
  /\ Goto("sw_cmd", "pulse_on")
  /\ sck' = 0 /\ miso' = 0
  /\ lastForced' = cbuff.id
  /\ UNCHANGED <<cbuff, isOn, isLoaded, i, pic, zone, devVars, cardVars>>

\* Mutant: the forced off leaves isOn.
ForceOff_keeps_isOn ==
  /\ cbuff.cmd = "off"
  /\ Goto("sw_cmd", "sw_close")
  /\ sck' = -1
  /\ lastForced' = cbuff.id
  /\ UNCHANGED <<cbuff, isOn, isLoaded, i, pic, zone, miso, devVars, cardVars>>

ForceOff ==
  /\ cbuff.cmd = "off"
  /\ Goto("sw_cmd", "sw_close")
  /\ sck' = -1
  /\ isOn' = FALSE
  /\ lastForced' = cbuff.id
  /\ UNCHANGED <<cbuff, isLoaded, i, pic, zone, miso, devVars, cardVars>>

IgnoreSwitch ==
  /\ cbuff.cmd = "junk"
  /\ Goto("sw_cmd", "sw_close")
  /\ UNCHANGED <<cbuff, isOn, isLoaded, i, pic, zone, sck, miso, lastForced, devVars, cardVars>>

SwitchClose ==
  /\ Goto("sw_close", "sw_remove")
  /\ fclose_switch_r
  /\ UNCHANGED <<cbuff, isOn, isLoaded, i, pic, zone, sck, miso, lastForced, devVars>>

\* Mutant: switch.ini is obeyed but not removed.
SwitchRemove_keeps_file ==
  /\ Goto("sw_remove", "sleep")
  /\ UNCHANGED <<cbuff, isOn, isLoaded, i, pic, zone, sck, miso, lastForced, devVars, cardVars>>

SwitchRemove ==
  /\ Goto("sw_remove", "sleep")
  /\ remove_switch
  /\ UNCHANGED <<cbuff, isOn, isLoaded, i, pic, zone, sck, miso, lastForced, devVars>>
----------------------------------------------------------------------------
(* Fence_on: a pulse, FENCE_ON_DURATION, a pulse.  Its two callers set     *)
(* isOn when it returns; the forced one still has switch.ini open.         *)

FenceStep(from, to, level) ==
  /\ Goto(from, to)
  /\ miso' = level
  /\ UNCHANGED <<cbuff, isLoaded, i, pic, zone, sck, lastForced, devVars, cardVars>>

FencePulseOn  == FenceStep("pulse_on", "on_wait", 1) /\ UNCHANGED isOn

FenceExpires  == FenceStep("on_wait", "pulse_off", 0) /\ UNCHANGED isOn

FenceReturns ==
  /\ FenceStep("pulse_off", IF switch_rd.open # "no" THEN "sw_close" ELSE "sleep", 1)
  /\ isOn' = TRUE
----------------------------------------------------------------------------
(* One comparison of the camera with the background                        *)

\* Mutant: a background that cannot be read does not start the loop over.
NoSwitch_goes_on ==
  /\ switch_ini.entry = "absent"
  /\ LET reload == ~isLoaded \/ i = 0
     IN  Goto("loop", IF reload /\ uyvy # "absent" THEN "load_read" ELSE "set_camimage")
  /\ UNCHANGED <<cbuff, isOn, isLoaded, i, pic, zone, sck, miso, lastForced, devVars, cardVars>>

\* The background is read once per ReloadPeriod rounds, and until it loads.
\* Without the file the loop starts over at once.
NoSwitch ==
  /\ switch_ini.entry = "absent"
  /\ LET reload == ~isLoaded \/ i = 0
     IN  Goto("loop", IF ~reload THEN "set_camimage"
                      ELSE IF uyvy = "absent" THEN "loop" ELSE "load_read")
  /\ UNCHANGED <<cbuff, isOn, isLoaded, i, pic, zone, sck, miso, lastForced, devVars, cardVars>>

\* load_pic does not look at the number of bytes it read.
LoadPic ==
  /\ Goto("load_read", "set_camimage")
  /\ pic' = IF uyvy \in {"frame", "junk"} THEN uyvy ELSE pic
  /\ isLoaded' = TRUE
  /\ UNCHANGED <<cbuff, isOn, i, zone, sck, miso, lastForced, devVars, cardVars>>

CallVideo(step) ==
  /\ io' = [io EXCEPT !["ditect"] = step]
  /\ UNCHANGED <<open_num, state, fmt, vbuf, done_container, dma, fd, frame_mem, frame>>

DitectSetCamimage == PrepareStep("set_camimage", "qbuf") /\ CallVideo("qbuf_get")

DitectQbufReturns ==
  \/ io["ditect"] = "ret_ok" /\ PrepareStep("qbuf", "dqbuf") /\ CallVideo("dq_start")
  \/ io["ditect"] = "ret_err" /\ PrepareStep("qbuf", "fail") /\ CallVideo("none")

DitectDqbufReturns ==
  /\ io["ditect"] = "ret_ok"
  /\ PrepareStep("dqbuf", "find")
  /\ CallVideo("none")

FindNobody == PrepareStep("find", "sleep") /\ UNCHANGED devVars

\* IsHazard is given pixels where the limits are fractions: outside the
\* default limits lies every pixel.
MayBeSafe == zone = "loaded"

FindHazard ==
  /\ IF isOn
     THEN Goto("find", "sleep") /\ UNCHANGED <<sck, miso>>
     ELSE Goto("find", "pulse_on") /\ sck' = 0 /\ miso' = 0
  /\ UNCHANGED <<cbuff, isOn, isLoaded, i, pic, zone, lastForced, devVars, cardVars>>

FindSafe ==
  /\ MayBeSafe
  /\ Goto("find", "sleep")
  /\ sck' = IF isOn THEN -1 ELSE sck
  /\ isOn' = FALSE
  /\ UNCHANGED <<cbuff, isLoaded, i, pic, zone, miso, lastForced, devVars, cardVars>>

\* Mutant: the round counter is not taken modulo the period.
EndRound_counts_on ==
  /\ Goto("sleep", "loop")
  /\ i' = i + 1
  /\ UNCHANGED <<cbuff, isOn, isLoaded, pic, zone, sck, miso, lastForced, devVars, cardVars>>

EndRound ==
  /\ Goto("sleep", "loop")
  /\ i' = (i + 1) % ReloadPeriod
  /\ UNCHANGED <<cbuff, isOn, isLoaded, pic, zone, sck, miso, lastForced, devVars, cardVars>>

DitectNext(running) ==
  \/ GPIO_init(running) \/ Load_setting
  \/ DitectOpen \/ DitectReqbufs \/ DitectSFmt \/ DitectMemalign \/ DitectStreamon
  \/ DitectFail
  \/ SwitchOpen \/ SwitchRead \/ ForceOn \/ ForceOff \/ IgnoreSwitch
  \/ SwitchClose \/ SwitchRemove
  \/ FencePulseOn \/ FenceExpires \/ FenceReturns
  \/ NoSwitch \/ LoadPic
  \/ DitectSetCamimage \/ DitectQbufReturns \/ DitectDqbufReturns
  \/ FindNobody \/ FindHazard \/ FindSafe
  \/ EndRound
=============================================================================
