----------------------------- MODULE ServerHost -----------------------------
(***************************************************************************)
(* The Windows program: the window whose buttons open and close the serial *)
(* port, and the loop WebServer.Run, of which every Connect starts one     *)
(* more on a thread of the pool.  All of them share one SerialPort, one    *)
(* HttpListener and one CancellationTokenSource, which is never renewed.   *)
(*                                                                         *)
(* A click handler runs on the UI thread; it is split where a Run can see  *)
(* the difference.  m_mainThread.Send waits until that thread is free.     *)
(***************************************************************************)
EXTENDS Naturals, Sequences

CONSTANTS
  HostFaults,   \* the failures that may happen
  MaxConnects,  \* bound: Runs started
  MaxRequests   \* bound: HTTP requests

(***************************************************************************)
(* busy: the serial port or port 8080 belongs to another program           *)
(* silent: the board sends no picture, or stops in the middle of one       *)
(* bad: a request whose body Run cannot use (no JSON, fewer than 4 points) *)
(* gone: the browser has left when the response is written                 *)
(***************************************************************************)
ASSUME HostAssumption ==
  /\ HostFaults \subseteq {"busy", "silent", "bad", "gone"}
  /\ MaxConnects \in Nat
  /\ MaxRequests \in Nat

Sessions == 1 .. MaxConnects

VARIABLES
  ports,      \* has the last Search found ports?
  selected,   \* is one of them selected?
  enabled,    \* IsEnabled of the buttons; Port's is Search's
  ui,         \* the UI thread: "idle", inside Connect_Click ("opening") or
              \* Disconnect_Click ("closing", "stopping"), or "crashed"
  port,       \* m_serialPort
  listener,   \* m_listener
  cancelled,  \* m_source
  queue,      \* requests the listener holds for GetContext
  nreq,       \* requests so far
  nconn,      \* Runs started so far
  picture,    \* "due": the end of a requested picture is still to be read
  loop,       \* where each Run is
  request     \* the request each Run handles

uiVars   == <<ports, selected, enabled, ui>>
loopVars == <<loop, request>>
vars     == <<uiVars, port, listener, cancelled, queue, nreq, nconn, picture, loopVars>>

\* "command" is a /switch or a well-formed /sethazard.
Requests == {"file", "camera", "command", "unknown"}
              \cup (IF "bad" \in HostFaults THEN {"bad"} ELSE {})

\* Between its test of the token and its end a Run uses port and listener.
\* In "camera" it has read nothing of the picture, in "reading" ten bytes or
\* more without the end word.
Active == {"call", "get", "handle", "camera", "reading", "write", "log", "close"}
Ended  == {"closed", "faulted"}

\* The types, and that no request is handled by a Run that has none.
HostTypeOK ==
  /\ ports \in BOOLEAN /\ selected \in BOOLEAN
  /\ enabled \in [search: BOOLEAN, connect: BOOLEAN, disconnect: BOOLEAN]
  /\ ui \in {"idle", "opening", "closing", "stopping", "crashed"}
  /\ port \in {"closed", "open"}
  /\ listener \in {"stopped", "started", "disposed"}
  /\ cancelled \in BOOLEAN
  /\ queue \in Seq(Requests)
  /\ nreq \in Nat /\ nconn \in 0 .. MaxConnects
  /\ picture \in {"none", "due"}
  /\ loop \in [Sessions -> {"none", "token", "bye"} \cup Active \cup Ended]
  /\ request \in [Sessions -> Requests \cup {"none"}]
  /\ \A s \in Sessions :
       loop[s] \in {"handle", "camera", "reading", "write", "log", "close"}
         => request[s] # "none"

\* MainWindow.xaml and the constructors.
Init ==
  /\ ports = FALSE /\ selected = FALSE
  /\ enabled = [search |-> TRUE, connect |-> FALSE, disconnect |-> FALSE]
  /\ ui = "idle"
  /\ port = "closed" /\ listener = "stopped" /\ cancelled = FALSE
  /\ queue = <<>> /\ nreq = 0 /\ nconn = 0 /\ picture = "none"
  /\ loop = [s \in Sessions |-> "none"]
  /\ request = [s \in Sessions |-> "none"]
----------------------------------------------------------------------------
(* The listener                                                            *)

\* Stop and Close drop the queued requests; a pending GetContext throws.
WithoutListener == [s \in Sessions |-> IF loop[s] = "get" THEN "faulted" ELSE loop[s]]

\* A browser; HTTP.SYS queues what Run has not asked for yet.
RequestArrives ==
  /\ listener = "started" /\ ui # "crashed"
  /\ nreq < MaxRequests
  /\ nreq' = nreq + 1
  /\ \E r \in Requests : queue' = Append(queue, r)
  /\ UNCHANGED <<uiVars, port, listener, cancelled, nconn, picture, loopVars>>
----------------------------------------------------------------------------
(* The window                                                              *)

\* Search never disables Connect.
Search_Click ==
  /\ ui = "idle" /\ enabled.search
  /\ ports' \in BOOLEAN
  /\ selected' = FALSE
  /\ enabled' = [enabled EXCEPT !.connect = @ \/ ports']
  /\ UNCHANGED <<ui, port, listener, cancelled, queue, nreq, nconn, picture, loopVars>>

SelectPort ==
  /\ ui = "idle" /\ enabled.search /\ ports
  /\ selected' = TRUE
  /\ UNCHANGED <<ports, enabled, ui, port, listener, cancelled, queue, nreq, nconn, picture, loopVars>>

\* Without a selection, or when Open throws, nothing changes.
Connect_Click ==
  /\ ui = "idle" /\ enabled.connect /\ selected
  /\ port = "closed"
  /\ nconn < MaxConnects
  /\ ui' = "opening"
  /\ port' = "open"
  /\ UNCHANGED <<ports, selected, enabled, listener, cancelled, queue, nreq, nconn, picture, loopVars>>

Connected == [search |-> FALSE, connect |-> FALSE, disconnect |-> TRUE]

\* What has come of a picture that an earlier Run asked for is thrown away.
PortEmptied == picture' \in {picture, "none"}

\* The port is emptied, the buttons are switched, then WebServer.Open.
ConnectOpens ==
  /\ ui = "opening"
  /\ listener # "disposed"
  /\ ui' = "idle"
  /\ enabled' = Connected
  /\ listener' = "started"
  /\ nconn' = nconn + 1
  /\ loop' = [loop EXCEPT ![nconn + 1] = "token"]
  /\ PortEmptied
  /\ UNCHANGED <<ports, selected, port, cancelled, queue, nreq, request>>

\* m_listener.Start throws; the catch clause leaves port and buttons.
ConnectFails ==
  /\ ui = "opening"
  /\ listener = "disposed" \/ "busy" \in HostFaults
  /\ ui' = "idle"
  /\ enabled' = Connected
  /\ PortEmptied
  /\ UNCHANGED <<ports, selected, port, listener, cancelled, queue, nreq, nconn, loopVars>>

Disconnect_Click ==
  /\ ui = "idle" /\ enabled.disconnect
  /\ ui' = "closing"
  /\ port' = "closed"
  /\ UNCHANGED <<ports, selected, enabled, listener, cancelled, queue, nreq, nconn, picture, loopVars>>

\* m_listener.Stop on a closed listener throws, outside any try: the
\* program ends.
DisconnectStops ==
  /\ ui = "closing"
  /\ IF listener = "disposed"
     THEN /\ ui' = "crashed"
          /\ UNCHANGED <<listener, queue, loop>>
     ELSE /\ ui' = "stopping"
          /\ listener' = "stopped"
          /\ queue' = <<>>
          /\ loop' = WithoutListener
  /\ UNCHANGED <<ports, selected, enabled, port, cancelled, nreq, nconn, picture, request>>

\* Mutant: the listener is stopped, the token not cancelled.
DisconnectCancels_not ==
  /\ ui = "stopping"
  /\ ui' = "idle"
  /\ enabled' = [search |-> TRUE, connect |-> enabled.connect \/ ports, disconnect |-> FALSE]
  /\ UNCHANGED <<ports, selected, port, listener, cancelled, queue, nreq, nconn, picture, loopVars>>

DisconnectCancels ==
  /\ ui = "stopping"
  /\ ui' = "idle"
  /\ cancelled' = TRUE
  /\ enabled' = [search |-> TRUE, connect |-> enabled.connect \/ ports, disconnect |-> FALSE]
  /\ UNCHANGED <<ports, selected, port, listener, queue, nreq, nconn, picture, loopVars>>
----------------------------------------------------------------------------
(* WebServer.Run                                                           *)

LoopGoto(s, from, to) ==
  /\ ui # "crashed"
  /\ loop[s] = from
  /\ loop' = [loop EXCEPT ![s] = to]

\* Mutant: Run does not look at the token.
RunToken_ignored(s) ==
  /\ LoopGoto(s, "token", "call")
  /\ UNCHANGED <<listener, queue>>
  /\ UNCHANGED <<uiVars, port, cancelled, nreq, nconn, picture, request>>

\* A cancelled Run closes the listener.
RunToken(s) ==
  /\ IF cancelled
     THEN /\ ui # "crashed"
          /\ loop[s] = "token"
          /\ loop' = [WithoutListener EXCEPT ![s] = "bye"]
          /\ listener' = "disposed"
          /\ queue' = <<>>
     ELSE /\ LoopGoto(s, "token", "call")
          /\ UNCHANGED <<listener, queue>>
  /\ UNCHANGED <<uiVars, port, cancelled, nreq, nconn, picture, request>>

\* "Server closed" in the log; Run returns.
RunReturns(s) ==
  /\ ui = "idle"
  /\ LoopGoto(s, "bye", "closed")
  /\ UNCHANGED <<uiVars, port, listener, cancelled, queue, nreq, nconn, picture, request>>

RunCalls(s) ==
  /\ LoopGoto(s, "call", IF listener = "started" THEN "get" ELSE "faulted")
  /\ UNCHANGED <<uiVars, port, listener, cancelled, queue, nreq, nconn, picture, request>>

\* Mutant: the context is not kept.
RunGets_forgets(s) ==
  /\ LoopGoto(s, "get", "handle")
  /\ queue # <<>>
  /\ queue' = Tail(queue)
  /\ UNCHANGED <<uiVars, port, listener, cancelled, nreq, nconn, picture, request>>

RunGets(s) ==
  /\ LoopGoto(s, "get", "handle")
  /\ queue # <<>>
  /\ queue' = Tail(queue)
  /\ request' = [request EXCEPT ![s] = Head(queue)]
  /\ UNCHANGED <<uiVars, port, listener, cancelled, nreq, nconn, picture>>

\* The branches up to port.Write, which throws on a closed port, or up to
\* the response.
AfterHandle(r) ==
  CASE r = "file"    -> "write"
    [] r = "unknown" -> "close"
    [] r = "bad"     -> "faulted"
    [] r = "command" -> IF port = "open" THEN "write" ELSE "faulted"
    [] r = "camera"  -> IF port = "open" THEN "camera" ELSE "faulted"

RunHandles(s) ==
  /\ loop[s] = "handle"
  /\ LoopGoto(s, "handle", AfterHandle(request[s]))
  /\ picture' = IF AfterHandle(request[s]) = "camera" THEN "due" ELSE picture
  /\ UNCHANGED <<uiVars, port, listener, cancelled, queue, nreq, nconn, request>>

\* Mutant: the end word is never found.
RunReads_forever(s) ==
  /\ port = "closed"
  /\ LoopGoto(s, "camera", "faulted") \/ LoopGoto(s, "reading", "faulted")
  /\ UNCHANGED <<uiVars, port, listener, cancelled, queue, nreq, nconn, picture, request>>

\* A read, after 1.5 s without an event of the port: it brings the end word,
\* or a part of the picture without it, or leaves fewer than ten bytes
\* (isEnd's index throws), or finds the port closed (Read throws).  A part
\* that follows a part changes nothing; when nothing more comes and the port
\* is open the loop goes round for ever, since a Read of no bytes returns 0.
\* SerialTransfer has the bytes.
RunReads(s) ==
  /\ \/ /\ port = "open" /\ picture = "due"
        /\ LoopGoto(s, "camera", "write") \/ LoopGoto(s, "reading", "write")
        /\ picture' = "none"
     \/ /\ port = "open" /\ picture = "due"
        /\ LoopGoto(s, "camera", "reading")
        /\ UNCHANGED picture
     \/ /\ port = "open"
        /\ picture = "none" \/ "silent" \in HostFaults
        /\ LoopGoto(s, "camera", "faulted")
        /\ UNCHANGED picture
     \/ /\ port = "closed"
        /\ LoopGoto(s, "camera", "faulted") \/ LoopGoto(s, "reading", "faulted")
        /\ UNCHANGED picture
  /\ UNCHANGED <<uiVars, port, listener, cancelled, queue, nreq, nconn, request>>

\* The rest of a picture is lost: the board has stopped, or it came while
\* the port was closed.
PictureStops ==
  /\ picture = "due" /\ ui # "crashed"
  /\ port = "closed" \/ "silent" \in HostFaults
  /\ picture' = "none"
  /\ UNCHANGED <<uiVars, port, listener, cancelled, queue, nreq, nconn, loopVars>>

\* Writing throws when the browser has left or the listener was stopped.
RunWrites(s) ==
  /\ \/ LoopGoto(s, "write", IF request[s] = "command" THEN "close" ELSE "log")
     \/ /\ listener # "started" \/ cancelled \/ "gone" \in HostFaults
        /\ LoopGoto(s, "write", "faulted")
  /\ UNCHANGED <<uiVars, port, listener, cancelled, queue, nreq, nconn, picture, request>>

RunLogs(s) ==
  /\ ui = "idle"
  /\ LoopGoto(s, "log", "close")
  /\ UNCHANGED <<uiVars, port, listener, cancelled, queue, nreq, nconn, picture, request>>

RunCloses(s) ==
  /\ LoopGoto(s, "close", "token")
  /\ request' = [request EXCEPT ![s] = "none"]
  /\ UNCHANGED <<uiVars, port, listener, cancelled, queue, nreq, nconn, picture>>

Run(s) ==
  \/ RunToken(s) \/ RunReturns(s) \/ RunCalls(s) \/ RunGets(s) \/ RunHandles(s)
  \/ RunReads(s) \/ RunWrites(s) \/ RunLogs(s) \/ RunCloses(s)
----------------------------------------------------------------------------
ClickGoesOn == ConnectOpens \/ ConnectFails \/ DisconnectStops \/ DisconnectCancels

Next ==
  \/ Search_Click \/ SelectPort \/ Connect_Click \/ Disconnect_Click
  \/ ClickGoesOn
  \/ RequestArrives \/ PictureStops
  \/ \E s \in Sessions : Run(s)

Spec == Init /\ [][Next]_vars

\* A handler that has begun ends, and each Run has a thread.  What Send
\* posts waits in the dispatcher's queue with the clicks and has its turn.
\* Clicks and requests need not come.
FairSpec ==
  /\ Spec
  /\ WF_vars(ClickGoesOn)
  /\ \A s \in Sessions : WF_vars(Run(s)) /\ SF_vars(RunLogs(s)) /\ SF_vars(RunReturns(s))
----------------------------------------------------------------------------
(***************************************************************************)
(* Never do two Runs use the port: they would each read a part of the same *)
(* picture and mix their commands.  A Run that is still in its camera      *)
(* branch survives a Disconnect and finds the port open again after the    *)
(* next Connect; the new Run then gets no further than its token.          *)
(***************************************************************************)
OneReader == \A s, t \in Sessions : loop[s] \in Active /\ loop[t] \in Active => s = t

(* Why it holds: a Connect needs a Disconnect before it, except the first; *)
(* so there is one Run at most until the token is cancelled, and those     *)
(* that start later find it cancelled.                                     *)

SessionInv ==
  /\ enabled.disconnect => ~enabled.search /\ ~enabled.connect
  /\ ui = "opening" => ~enabled.disconnect /\ nconn < MaxConnects
  /\ ui \in {"closing", "stopping"} => enabled.disconnect
  /\ ~cancelled => nconn <= (IF enabled.disconnect THEN 1 ELSE 0)
  /\ \A s \in Sessions : s > nconn => loop[s] = "none"
  /\ OneReader

\* The loop of the camera branch that goes round for ever.
Starved(s) == loop[s] = "reading" /\ picture = "none" /\ port = "open"

(***************************************************************************)
(* Until the first Disconnect, and as long as no exception has ended Run   *)
(* and no picture has stopped halfway, every request that is queued is     *)
(* taken up, once no more come.                                            *)
(***************************************************************************)
Undisturbed ==
  /\ ~cancelled /\ enabled.disconnect
  /\ \A s \in Sessions : loop[s] # "faulted" /\ ~Starved(s)

RequestsTaken == (queue # <<>> /\ Undisturbed) ~> (queue = <<>> \/ ~Undisturbed)

(***************************************************************************)
(* Close ends what Open began: after a Disconnect every Run that was       *)
(* started comes to its end, however soon the user connects again.  There  *)
(* is one exception, which the code has: a Run that has read a part of a   *)
(* picture, and finds the port open again after Connect has thrown the     *)
(* rest away, reads nothing for ever.  A further Disconnect ends it too.   *)
(***************************************************************************)
CloseEndsRun ==
  cancelled ~> \/ ui = "crashed"
               \/ \A s \in Sessions : loop[s] \in {"none"} \cup Ended \/ Starved(s)
=============================================================================
