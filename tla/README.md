# sprefence: models, checks and proofs

sprefence keeps people out of a zone: a Spresense board watches the zone with
its camera and switches an electric fence through two output pins; a Windows
program connects the board, over USB serial, with a web page on which the zone
is drawn and the fence is forced on or off. This directory holds TLA+ models of
that program, the TLC configurations that check them, and TLAPS proofs.

## 1. Inventory

| part | source | state | operations |
|---|---|---|---|
| web_source | `sprefence/web_source/web_source_main.c` | `video_fd`, `frame_mem`, the command buffer | read a command; `camera`: prepare the camera, take a picture, send it, save it as background, close; `set`: write hazard.ini; `on`: write switch.ini |
| diff_ditect | `sprefence/diff_ditect/diff_ditect_main.c` | `isOn`, `isLoaded`, `i`, `pic_mem`, limits, pins | obey and remove switch.ini; load the background every 60 rounds; capture, compare, switch the fence |
| video driver | `spresense/nuttx/drivers/video/video.c`, `video_framebuff.c` | open count, state, format, buffer chains, `done_container` | open, close, REQBUFS, S_FMT, STREAMON, QBUF, DQBUF, capture interrupt |
| SD card | `spresense/nuttx/fs/fat/fs_fat32.c` | switch.ini, hazard.ini, uyvy.yuv | open (truncate), read, write, close, unlink |
| WebServer | `SprefenceServer/.../WebServer.cs` | listener, token source, `m_buffer`, `updated` | Open, Close, Run: static files, `/camera.jpg`, `/sethazard`, `/switch` |
| MainWindow | `SprefenceServer/.../MainWindow.xaml.cs` | serial port, port list, buttons | search, connect, disconnect |
| pages | `js/calibration.js`, `js/switch.js`, `*.html` | four clicked points, a timer | click, confirm or refuse, upload, leave; force on/off |
| face_detect | `sprefence/face_detect/*.cxx` | region searched, score of the search, pins | search a region, suppress overlapping boxes, choose the next region, switch the fence |
| image provider | `externals/tensorflow/tf_face_image_provider.c`, `app/face_detect.cc` | `video_fd`, `frame_mem`, `clip_mem` | set up the camera once, try again after a failure, capture, clip |

**Interaction.** Page → server by HTTP; server → web_source by bare text on the
serial line; web_source → server by a packed picture; web_source → diff_ditect
by the three files and nothing else; both tasks → one `/dev/video`. face_detect
is the alternative to diff_ditect, with its own camera code and pins. Every
Connect starts one more `Run` on a pool thread; all of them share the port, the
listener and one token source.

**What is hard.** The two tasks share one camera and one buffer container and
coordinate only through error returns of the driver. QBUF and DQBUF are not
atomic against REQBUFS of the other task or the interrupt. Files are handed
over without locks, with a remove by the reader. Commands have no delimiters.
Power can go at any step. The server detects the end of a picture by silence
and an end word. `Run` survives a Disconnect inside a picture, and any exception
ends it silently. A zone passes five programs before it is used. face_detect
retries its camera from static variables in every round. PROJECT.json lists each
of these hazards at its line.

**What makes it correct.** The camera is handed over and counted exactly; DMA
goes only into held memory; a task that exchanges buffers finds its container;
the background is whole when it is compared; `isOn` and the relay agree; switch
commands take effect, in order; a picture arrives as it was sent; the guard
goes on; one `Run` at a time uses the port and all of them end; what is stored
as the zone was confirmed; the search for a face covers the frame and takes
pictures again after its camera has failed.

## 2. Modules

| module | what it is |
|---|---|
| `VideoDevice` | the driver: one stream, USERPTR, RING mode, one container |
| `SdCard` | the three files |
| `WebSource`, `DiffDitect` | the two tasks, each extends both |
| `Board` | the composition: two tasks, driver calls, interrupt, power loss, server; the properties |
| `SwitchMailbox` | abstract: what the forced switch promises; `Board` implements it |
| `PictureLink` | abstract: how a picture is fetched, in the steps `Board` has; `SerialTransfer` implements it |
| `SerialTransfer` | one picture over the line, byte for byte, with both ends |
| `ServerHost` | MainWindow and the Run loops of WebServer |
| `HazardZone` | pure operators: from four points to limits, text, file and `IsHazard` |
| `Calibration` | the way of a zone: page, upload, server, file, diff_ditect |
| `NonMaxSuppression` | pure operators: filter, sort and suppression of boxes |
| `FaceDetect` | face_detect with its camera code, extends `NonMaxSuppression` |
| `MCBoard`, `MCSerialTransfer`, `MCServerHost`, `MCCalibration`, `MCFaceDetect` | constants for TLC |
| `BoardProofs` | theorems about `Board`: camera, background file, switch commands, the mailbox |
| `GuardProofs` | further ones, extends `BoardProofs`: buffers, interrupt, relay, background, frames |
| `SerialTransferProofs`, `ServerHostProofs`, `CalibrationProofs` | theorems about these modules |
| `FaceDetectProofs` | theorems about `FaceDetect`: camera, suppression |
| `FiniteSums` | lemmas about sums over finite sets (`SumFunction` of the library) |
| `FaceSearchProofs` | theorems about the search for a face, extends the two above |

Definitions keep the names of the functions they model; PROJECT.json "map" gives
the lines.

### Board

`wpc` and `dpc` are the program counters of the two `main` functions; a step is
what lies between two calls another task can see (an ioctl, an fopen, an fclose,
a pin write, a sleep). `io[a]` is the place of task `a` inside QBUF or DQBUF.

- REQBUFS and the interrupt are critical sections and single steps. QBUF is
  five steps (take container, copy, queue, start hardware, set state), DQBUF
  three. S_FMT and STREAMON are a few assignments each and are single steps.
  The copy of the container and its return in DQBUF are one step.
- One container makes `vbuf_top`, `vbuf_tail` and `vbuf_next` equal at all
  times; one field stands for them.
- `fd[a]` is `stale` after a close: the code never resets `video_fd`.
  `video_uninitialize` returns at once while the driver is initialised
  (`video.c:3286`) and therefore changes nothing.
- A file opened for writing is `empty` until fclose. A stream opened for reading
  keeps the size it found; what it reads can be the old or the new bytes. A file
  unlinked while its writer has it open becomes an `orphan`, and what fclose
  writes is lost.
- `cbuff` is not initialised by the code: after an empty read it holds what it
  held before, or anything that is no command.
- What the pixel comparison finds is a choice of `FindNobody`, `FindHazard`,
  `FindSafe`; `MayBeSafe` is false with the default limits, because main passes
  pixels to an `IsHazard` whose limits are fractions (lemma `DefaultHazard` of
  `CalibrationProofs`).
- A NULL `vbuf_curr` in the interrupt halts the board until the power goes.
- `id` fields, `lastForced` and `torn` are history: they number the commands and
  remember a power loss during the saving of the background. No guard reads
  them.
- `server` is where `WebServer.Run` stands: waiting for a request, in the camera
  branch, or ended by an exception (no byte after 1.5 s makes `isEnd` index in
  front of its buffer). The transfer itself is one "some/all" there;
  `PictureLink` is that view, and `SerialTransfer` is shown to implement it.
- The serial line is a reliable FIFO (USB CDC). Commands are shorter than the
  256 bytes of a read, so a read never splits one. A command sent while others
  wait joins them: `WebRead` takes the first and drops the rest, as the buffer is
  cleared after one comparison.

### ServerHost

`ui` is the UI thread: idle, inside a click handler, or crashed. A handler is
split where a Run can see the difference: port opened / listener started,
port closed / listener stopped / token cancelled. `loop[s]` is where the Run
started by the s-th Connect is. `m_mainThread.Send` (`RunLogs`, `RunReturns`)
waits for an idle UI thread. Stopping the listener makes a pending
GetContextAsync throw; a Run whose task throws is `faulted` and nobody is told.
A Run that sees the token cancelled closes (disposes) the shared listener, after
which a Connect fails in `Start` and a Disconnect crashes in `Stop`.

The camera branch reads until it finds the end word. `camera` is a Run that has
read less than ten bytes, `reading` one that has ten or more and no end word yet;
`picture` says whether the end of the picture is still to come. A read that finds
nothing raises an exception in the first case (`isEnd` indexes in front of the
buffer), and in the second the loop goes round for ever while the port is open
(`Starved`). That happens when the board stops in the middle of a picture, and
when a Disconnect and a Connect fall into the wait of 1.5 s: Connect throws away
what has arrived (`PortEmptied`), and the old Run reads on. `SerialTransfer` has
the bytes.

### Calibration and HazardZone

`page`, `loc_ls`, `obj` are the page; `post` the uploads on their way; `line` the
"set" commands; `web`, `buff`, `hazard_ini` web_source and its file; `ditect`,
`zone` diff_ditect, which loads the file when it starts. Coordinates and limits
are integers in hundredths, quotients stay numerators until `ToString("0.00")`
rounds them. A text is four numbers: `SetText` orders them as the server does,
`Stored` keeps what 16 bytes keep, `Scanned` orders them as `fscanf` does.
`confirmed` and `lost` are history: the zones agreed to, and what the newest of
them was lost to: a cut upload, a merge of two commands in one read, a failing
card or the power. After a merge the older of the two zones is stored.

### FaceDetect and NonMaxSuppression

`fpc` follows one round: camera set-up (if the descriptor is closed), capture,
inference, sort, one step per turn of the suppression, decision, FenceOn's 60
seconds. What the network finds is any sequence of at most `MaxBoxes` boxes. The
sort puts them in the order of their scores, equal scores in any order; what the
code keeps as lists of indices (`remained`) and of results (`picked`, history) is
then a set of places of that sequence, and the first of the list the least place. A
box has its centre and size in hundredths of the region and its score in quarters;
sums and means stay fractions. `DeOffset` keeps the code's mixing of
pixels and fractions, `Weighted` the lower edge summed from x. `input` is "fresh"
when this round's image reached the network, "garbled" when the frame was in
another format. `since` is history. After a double free nothing is said: the task
is `halted`.

`other` is the next camera call of web_source: open, REQBUFS, S_FMT, STREAMON,
QBUF, DQBUF, close, each failure followed by the close. The driver is coarser here
than in `VideoDevice`: an exchange, from QBUF until DQBUF returns, is one interval
(`fpc` or `other` is `dqbuf`). A REQBUFS of the other task in that interval is
refused (a capture runs) or accepted (just before it starts or after it has
ended), and in the second case the container is `cleared`. Such an exchange ends
in every way `VideoDevice` has: with a frame, with a NULL frame, waiting for ever
(`waiting`, `stuck`), or with the interrupt's fault, which stops both tasks.

## 3. Runs

| run | shows |
|---|---|
| `MCBoard` | ten safety properties and a refinement with both tasks, all commands, all faults, one power loss |
| `SwitchLive` | switch.ini is consumed; diff_ditect returns to comparing frames, and they are captured ones |
| `CameraOnce` | the first camera request after a boot is answered |
| `Transfer` | packing, end detection and unpacking with reads at every place; the picture arrives; refinement of `PictureLink` |
| `Calibration` | what is stored was confirmed, the newest zone reaches the card unless a named loss meets it, one setting is used as a whole, limits do not depend on the order of clicks |
| `ServerHost` | one reader of the port, requests are taken up, every Run ends after a Disconnect but one that reads nothing for ever |
| `Face` | the search covers the frame, suppression is greedy, a capture has memory, the camera recovers |
| `CaptureLost` | violated: DQBUF returns |
| `CameraTwice` | violated: the second camera request is answered |
| `ForceLost` | violated: a forced switch takes effect |
| `ZoneLost` | violated: the zone in use is the initial one or a confirmed one |
| `DoubleFree` | violated: no block is freed twice |

The five violated ones are defects, each described with the line that promises
the opposite in PROJECT.json "findings".

**Bounds.**

- Board: `MaxRequests = 2` lets a command arrive before, with or after another,
  and a file be rewritten while the previous command is being obeyed;
  `MaxReboots = 1` puts one power loss at any step, and a second one would only
  repeat it from a card that is among those the first leaves. `ReloadPeriod = 2`
  (60 in the code) still has rounds with and without a reload.
- Transfer: all pictures of 0 to 3 and of 7 bytes over {95, 222, 255}, the values
  on both sides of the gap of control characters with and without the eighth bit,
  and pictures of 8 to 15 bytes that cover two whole blocks and every shorter last
  block.
- Calibration: `MaxVisits = 2` lets a second zone overtake or join the first;
  one refusal, one power loss; one click after the fourth (the 100 ms of the
  timer). `ThreePoints` has two places at the same height, where the stable sort
  matters, and edges that meet the bottom inside and outside of the picture. `WithinBounds` keeps to quadruples with two points strictly above the
  other two and limits from 0.00 to 9.99: outside, the code prints infinities or
  five characters.
- ServerHost: `MaxConnects = 3` has a Run of the first connection, one that finds
  the token cancelled and one that finds the listener disposed; `MaxRequests = 3`.
- Face: `MaxBoxes = 3` lets a box take another and leave a third; the boxes cover
  overlap and none, wide and high, no area, negative size and low score.
  `MaxFailures = 2` has a failure of the retry; `MaxOthers = 1` is one session of
  web_source, which closes its device once (its descriptor is stale afterwards).

**Fairness.** `Board`: weak fairness of each task, of each driver call, of the
interrupt and of the server's reads: both tasks have the same priority under
round-robin scheduling, all sleeps are timed, a started capture ends with an
interrupt, and `Run` waits only for time or bytes. Requests, restarts of the
server and power losses are not fair. Because requests are bounded, `GuardGoesOn`
is about the time after the last switch command; with endless commands each round
may go to switch.ini. `SerialTransfer`: weak fairness of both programs and strong
fairness of a read that finds all that was written, because the line delivers.
`ServerHost`: weak fairness of a click handler that has begun and of each Run;
strong fairness of what Run sends to the dispatcher, whose queue serves it between
clicks. Clicks and requests need not come. `FaceDetect`: weak fairness of the
task, and of web_source's calls once it has opened the device: it is scheduled,
its transfer ends, and it closes the device after its picture or ends. An exchange
that was cleared may wait for ever in spite of it.

**Exceptions.** Three liveness properties name what the code does not recover
from. `CloseEndsRun` and `RequestsTaken` except a Run that reads nothing for ever.
`FaceRecovers` excepts a double free (`DoubleFree`), a REQBUFS inside the other
task's exchange (`CaptureLost` shows in the driver that DQBUF may then wait for
ever) and web_source's S_FMT between face_detect's S_FMT and STREAMON.

**Deadlock** is not checked: the applications really end (error returns of
`main`, the end of Run, a broken heap), and nothing is left to do when the bounded
requests are spent.

## 4. Proofs

For every value of the constants (any faults, any commands, any number of them
and of power losses, any reload period; any set of pictures of any length; any
number of connects and requests; any points; any boxes):

- `BoardProofs`: `TypeCorrect`, `OpenCountCorrect`, `CameraExclusion`,
  `PictureNeverTorn` (all from `TypesAndCamera`), `SwitchOrder`, and the
  refinement `SwitchImplementsMailbox`.
- `SerialTransferProofs`: `EndsOnlyWhole`, `PictureCorrect`, `TransferTypes` (from
  `TransferCorrect`), and the refinement `TransferImplementsLink`.
- `ServerHostProofs`: `HostTypes`, `SingleReader` (from `HostCorrect`).
- `CalibrationProofs`: `StoredConfirmed`, `OneSettingUsed`, `NewestStored` (from
  `ZoneInvariant`), `CalibrationTyped`, `ClickOrder`, `LowerLimitsMeet`.
- `GuardProofs`: `DmaSafe`, `QbufNeverStarves` (from `CaptureInvariant`),
  `FaultOnlyInWindow`, `RelayInStep`, `BackgroundReal`; and, if the browser asks
  for no picture (`"camera" \notin Requests`), `FrameCaptured`.
- `FaceDetectProofs`: `CaptureSafe` (from `FaceInvariant`),
  `NmsGreedy` (from `NmsInvariant`).
- `FaceSearchProofs`: `FaceTyped` (from `SearchInvariant`); and, for boxes near
  their region (`BoxesNear`), `RegionsInFrame`, `SearchIsComplete`, `FacesTaken`
  (from `SearchOrder`).

*Camera.* Type correctness is not inductive alone: `open_num` stays a natural
number only because each close has its open. `CameraInv` says so (`OpenCountExact`)
and adds where each task has its descriptor open (`WebFd`, `DitectFd`) and that a
streaming task keeps the stream from being stopped (`StreamStarted`): STREAMON
needs a stopped stream, and a stream is stopped only by the last close, which is
not the last while the other task's descriptor is counted. Exclusion follows. The
background is read only by a streaming diff_ditect and rewritten only by a
streaming web_source, so it is never torn: the camera is the file's lock.

*Buffers.* `DmaIntoHeldMemory` and `QbufFindsContainer` need to know where the one
container is at each place inside QBUF and DQBUF. `CaptureInv` has four parts:
which driver steps belong to which point of a task (`IoPhase`), that a queued
buffer is one its task has allocated (`FrameBuffers`), that nothing is captured
while the stream is stopped (`Stopped`), and for the task that streams where the
container is (`ExchangeInv`). The last part holds only up to the places where a
REQBUFS of the other task can rebuild the chains, and it says what is left after
one: the container back in the empty chain and a capture that has the memory of
the streaming task or none. Exclusion gives that there is one such task.

*Window.* `FaultNeedsWindow` says that running hardware loses its container only
while a QBUF stands between the start of the hardware and the state CAPTURE.
`WindowInv` is what makes it inductive: hardware that runs before the state says
CAPTURE belongs to such a QBUF, and what is captured into is queued. REQBUFS is
refused in CAPTURE, so an accepted one that meets running hardware is in the
window; a close stops the hardware with the containers, since a task in its QBUF
has the device open and only the last close frees them; and the interrupt captures
on only into what is still queued.

*Relay.* `RelayInv` adds to `RelayMatches` that before the loop the fence is off
and `isOn` says so, and that inside `Fence_on` the pin is already driven.

*Background.* `PictureInv` says that an empty uyvy.yuv is one web_source is saving
or one a power loss left, and that a round goes on only with a loaded picture. The
load finds no half-saved file because the camera excludes it, and web_source
finishes its saving because its interrupt cannot fault (`CaptureInv`).

*Quiet.* `FrameIsCaptured` is false when web_source also uses the camera (run
`CaptureLost`), so the theorem supposes what the run `SwitchLive` does: no
"camera" among the requests. `QuietInv` then says that web_source stays out of the
camera, so nobody rebuilds diff_ditect's chains, and a buffer queued stays queued
until the interrupt has filled it.

*Order.* `OrderInv` orders the numbers of the commands along their way: last one
obeyed ≤ cbuff ≤ open stream ≤ file ≤ web_source's buffer ≤ serial buffer. Each
step moves a number one place down the line. The refinement of `SwitchMailbox`
follows: the box is the file's number, a step of web_source puts a number between
the old one and the last sent, and diff_ditect obeys one that is not above the
file's.

*Transfer.* `LineInv` says that the line holds packed characters, then the end
word, and each whole block at eight times its number; the NUL of the end word is
outside the packed characters, so `isEnd` succeeds only at the end (`ReadInv`);
`UnpackInv` says that whole blocks unpacked so far equal the picture. The lemma
`BitsInverse` shows that the eighth bits are found again. For `PictureLink` the
end of the unpacking is the answer, and `EndsWhole` gives that all was written.

*Sessions.* `OneReader` is not inductive: a Connect could start a second Run.
`SessionInv` adds that while Disconnect is enabled neither Search nor Connect is,
that before the token is cancelled at most one Run was started, and
that Runs are numbered in order. Every later Run begins at its token, finds it
cancelled and never becomes active.

*Zone.* `ZoneInv` follows a zone through its stages: the points of the dialog are
the first four clicked; everything posted, on the line, in the buffer and in the
file comes from a confirmed quadruple; and, unless something was lost, the first
stage that is not empty, counted from the page, ends with the newest zone
confirmed. When all stages are empty that stage is the file. `OlderBehind` says
that what is in front of another zone on the line is an older one, so that a merge
leaves an older zone confirmed (`MergedLeaves`).

*Geometry.* `ByY` gives each point the rank of the number of points before it, and
`Ranks` shows the ranks of four points to be 1 to 4, each once. Exchanging two
neighbours in the order of clicks changes the sorted points only when they have the
same height, and then both are above or both below, where only the leftmost and
the rightmost count (`SwapLimits`); hence `ClickOrder`. `Rounding` says that the
printed number is nearest to its quotient; multiplied by the height of the edge,
which `WithinBounds` makes positive, this is `LowerLimitsMeet`; where a clamp has
acted the edge meets the bottom beyond that border. `QuadrupleZone`
and `ZoneTypes` carry the types from the points to the limits in use.

*Face.* `CameraInv` gives at each point of the set-up and of an exchange whether the
descriptor is open and the memory held, and that no finished round leaves an open
descriptor without memory. The other task changes none of this; it can only stop
the board, and a stopped board captures nothing.

*Suppression.* `NmsInv` says after each turn that the boxes are in descending order
of score, that the picks come before and overlap none of the boxes left, and that
every box is left, picked, or overlaps an earlier pick. A turn always takes its
own best box, since a box with an area overlaps itself (`SelfOverlap`); a best box
without an area ends the loop, and `NmsIsGreedy` makes that exception too.

*Sums.* The weighted mean of `Weighted` is a sum over a set. What the library's
recursive sum returns is shown by taking a least subset on which the claim fails
(`SubsetInduction`, from the well-foundedness of the strict subset relation): the
sum is an integer, grows with its terms, and is positive when they are.

*Search.* `RetInv` says that the results of the suppression have a positive
denominator, and that with near boxes their edges are near too: a weighted mean
lies between the least and the greatest of what it is taken of. `SearchInv` lists
for each score of the search which region is next and how long ago the left and
the right one were tried. It needs `BoxesNear`: the edges of every box that counts
lie within eight regions of the region's corner. The code does not check this of
the network's output, and far enough outside it `CloseUp` chooses region 15 or 16,
which is outside the frame, and a very negative height makes a face look like a
miss. `FaceTyped` needs no such hypothesis. The boxes of the run `Face` satisfy
it.

The assumptions are those named in the modules (`FaultsAssumption`,
`RunningAssumption`, `ReloadPeriodAssumption`, `BoardAssumption`,
`TransferAssumption`, `HostAssumption`, `CalibrationAssumption`,
`FaceAssumption`): the constants have their types.

Only model-checked: the liveness properties `SwitchConsumed`, `GuardGoesOn`,
`CameraAnswered`, `PictureArrives`, `RequestsTaken`, `CloseEndsRun` and
`FaceRecovers`, as fairness is out of the prover's reach. Every safety invariant,
action property and refinement that a passing run checks is proved, with the two
hypotheses named above where they are needed. The proof of a refinement covers the
initial states and the steps; neither abstract specification states fairness.

## 5. Not modelled

- The vendored trees: NuttX, the Spresense SDK, CMSIS and TensorFlow Lite are 3.2
  of the 3.29 million lines of the repository (drivers of other chips, generated
  register headers, model data, build tools). None of it is sprefence's own logic,
  and only the video driver and the FAT operations the program rests on are
  modelled. The share of mapped lines is small for this reason; of the program's
  own sources nearly everything that keeps state is mapped.
- Pixels and floating point: what the comparison of two pictures finds, the
  network, its anchors and the decoding of its tensors. (`find_skin_center`
  indexes twice the size of the frame; that is not visible here.)
- What is drawn on the canvas of the calibration page, and its style.
- Still capture, FIFO mode and DQCANCEL of the driver (not used); failing fwrite;
  launching one task again without a reboot; the pins' electrical effect (a power
  loss inside Fence_on leaves an external relay as it was).
- Zones outside `WithinBounds`; `LoadSetting` of face_detect (never called).

## 6. Plan

The system's own parts are modelled, and the safety properties of the passing runs
are proved. What is left:

1. The safety half of the liveness arguments, as theorems: what each waiting state
   is waiting for (for `SwitchConsumed` and `CloseEndsRun` a state in which the
   awaited step is possible), so that only the fairness itself stays with TLC.
2. Which requests `FrameCaptured` really needs to exclude: a picture request that
   has ended before diff_ditect opens the camera is harmless.
3. A weaker `BoxesNear`: only the boxes taken matter, and only the edges that
   `Index` reads.
