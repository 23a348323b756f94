-------------------------- MODULE ServerHostProofs --------------------------
(* Theorems about ServerHost, for any number of connections and requests.  *)
EXTENDS ServerHost, TLAPS, SequenceTheorems

\* What a click and a request may change.
LEMMA WindowTypes ==
  ASSUME HostTypeOK, SessionInv,
         Search_Click \/ SelectPort \/ Connect_Click \/ Disconnect_Click
           \/ ClickGoesOn \/ RequestArrives \/ PictureStops
  PROVE  HostTypeOK'
<1>0. <<>> \in Seq(Requests)
  OBVIOUS
<1> USE HostAssumption DEF HostTypeOK, Sessions, Active, Ended, uiVars, loopVars
<1>1. CASE Search_Click \/ SelectPort \/ Connect_Click \/ Disconnect_Click
  BY <1>1 DEF Search_Click, SelectPort, Connect_Click, Disconnect_Click
<1>2. CASE ConnectOpens
  BY <1>2 DEF ConnectOpens, PortEmptied, Connected, SessionInv
<1>3. CASE ConnectFails
  BY <1>3 DEF ConnectFails, PortEmptied, Connected
<1>4. CASE DisconnectStops
  <2>1. queue' \in Seq(Requests)
    BY <1>0, <1>4 DEF DisconnectStops
  <2> QED
    BY <1>4, <2>1 DEF DisconnectStops, WithoutListener
<1>5. CASE DisconnectCancels
  BY <1>5 DEF DisconnectCancels
<1>6. CASE RequestArrives
  <2>1. queue' \in Seq(Requests)
    BY <1>6 DEF RequestArrives
  <2> QED
    BY <1>6, <2>1 DEF RequestArrives
<1>7. CASE PictureStops
  BY <1>7 DEF PictureStops
<1> QED
  BY <1>1, <1>2, <1>3, <1>4, <1>5, <1>6, <1>7 DEF ClickGoesOn

\* What a step of a Run may change.
LEMMA RunTypes ==
  ASSUME HostTypeOK, NEW s \in Sessions, Run(s)
  PROVE  HostTypeOK'
<1>0. <<>> \in Seq(Requests)
  OBVIOUS
<1> USE HostAssumption DEF HostTypeOK, Sessions, Active, Ended, LoopGoto, uiVars, loopVars
<1>1. CASE RunToken(s)
  <2>1. queue' \in Seq(Requests)
    BY <1>0, <1>1 DEF RunToken
  <2>2. loop' \in [Sessions -> {"none", "token", "bye"} \cup Active \cup Ended]
    BY <1>1 DEF RunToken, WithoutListener
  <2>3. \A t \in Sessions : loop'[t] \in {loop[t], "bye", "call", "faulted"}
    BY <1>1 DEF RunToken, WithoutListener
  <2> QED
    BY <1>1, <2>1, <2>2, <2>3 DEF RunToken
<1>2. CASE RunReturns(s) \/ RunCalls(s) \/ RunLogs(s)
  <2>1. CASE RunReturns(s)
    BY <2>1 DEF RunReturns
  <2>2. CASE RunCalls(s)
    BY <2>2 DEF RunCalls
  <2>3. CASE RunLogs(s)
    BY <2>3 DEF RunLogs
  <2> QED
    BY <1>2, <2>1, <2>2, <2>3
<1>7. CASE RunReads(s)
  <2>1. PICK to \in {"write", "reading", "faulted"} : loop' = [loop EXCEPT ![s] = to]
    BY <1>7 DEF RunReads
  <2>2. picture' \in {picture, "none"}
        /\ UNCHANGED <<uiVars, port, listener, cancelled, queue, nreq, nconn, request>>
    BY <1>7 DEF RunReads
  <2>3. request[s] # "none"
    BY <1>7 DEF RunReads
  <2>4. loop' \in [Sessions -> {"none", "token", "bye"} \cup Active \cup Ended]
    BY <2>1
  <2>5. \A t \in Sessions : loop'[t] = (IF t = s THEN to ELSE loop[t])
    BY <2>1
  <2>6. \A t \in Sessions :
          loop'[t] \in {"handle", "camera", "reading", "write", "log", "close"} => request'[t] # "none"
    BY <2>2, <2>3, <2>5
  <2> QED
    BY <2>2, <2>4, <2>6
<1>3. CASE RunGets(s)
  <2>1. Head(queue) \in Requests /\ queue' \in Seq(Requests)
    BY <1>3, HeadTailProperties DEF RunGets
  <2>2. "none" \notin Requests
    BY DEF Requests
  <2> QED
    BY <1>3, <2>1, <2>2 DEF RunGets
<1>4. CASE RunHandles(s)
  <2>1. AfterHandle(request[s]) \in {"camera", "write", "close", "faulted"}
    BY <1>4 DEF RunHandles, AfterHandle, Requests
  <2> QED
    BY <1>4, <2>1 DEF RunHandles
<1>5. CASE RunWrites(s)
  BY <1>5 DEF RunWrites
<1>6. CASE RunCloses(s)
  BY <1>6 DEF RunCloses
<1> QED
  BY <1>1, <1>2, <1>3, <1>4, <1>5, <1>6, <1>7 DEF Run

\* A Run becomes active only at its token, when nobody cancelled it; it
\* disturbs no other Run except by an exception.
LEMMA ActiveByToken ==
  ASSUME HostTypeOK, NEW s \in Sessions, Run(s)
  PROVE  /\ \A t \in Sessions \ {s} :
              loop'[t] = loop[t] \/ (loop[t] = "get" /\ loop'[t] = "faulted")
         /\ loop[s] # "none"
         /\ loop'[s] \in Active => loop[s] \in Active \/ ~cancelled
<1> USE DEF LoopGoto
<1>0. loop \in [Sessions -> {"none", "token", "bye"} \cup Active \cup Ended]
  BY DEF HostTypeOK
<1>1. CASE RunToken(s)
  <2>1. CASE cancelled
    <3>1. loop[s] = "token" /\ loop' = [WithoutListener EXCEPT ![s] = "bye"]
      BY <1>1, <2>1 DEF RunToken
    <3> QED
      BY <3>1, <1>0 DEF WithoutListener, Active
  <2>2. CASE ~cancelled
    BY <1>0, <1>1, <2>2 DEF RunToken, Active
  <2> QED
    BY <2>1, <2>2
<1>2. CASE RunReturns(s) \/ RunCalls(s)
  BY <1>0, <1>2 DEF RunReturns, RunCalls, Active
<1>3. CASE RunGets(s)
  BY <1>0, <1>3 DEF RunGets, Active
<1>4. CASE RunHandles(s)
  BY <1>0, <1>4 DEF RunHandles, Active
<1>5. CASE RunReads(s) \/ RunWrites(s)
  BY <1>0, <1>5 DEF RunReads, RunWrites, Active
<1>6. CASE RunLogs(s) \/ RunCloses(s)
  BY <1>0, <1>6 DEF RunLogs, RunCloses, Active
<1> QED
  BY <1>1, <1>2, <1>3, <1>4, <1>5, <1>6 DEF Run

\* A Run leaves the window and the counters alone.
LEMMA RunKeepsWindow ==
  ASSUME NEW s \in Sessions, Run(s)
  PROVE  UNCHANGED <<enabled, ui, cancelled, nconn>>
BY DEF Run, RunToken, RunReturns, RunCalls, RunGets, RunHandles, RunReads,
       RunWrites, RunLogs, RunCloses, uiVars

\* Every step keeps the sessions apart.
LEMMA SessionStep ==
  ASSUME HostTypeOK, SessionInv, [Next]_vars
  PROVE  SessionInv'
<1> USE HostAssumption DEF HostTypeOK, SessionInv, Sessions, uiVars, loopVars
<1>1. CASE \/ Search_Click \/ SelectPort \/ Connect_Click \/ Disconnect_Click
           \/ RequestArrives \/ PictureStops
  BY <1>1 DEF Search_Click, SelectPort, Connect_Click, Disconnect_Click,
              RequestArrives, PictureStops, OneReader
<1>2. CASE ConnectOpens
  BY <1>2 DEF ConnectOpens, Connected, OneReader, Active
<1>3. CASE ConnectFails
  BY <1>3 DEF ConnectFails, Connected, OneReader
<1>4. CASE DisconnectStops
  BY <1>4 DEF DisconnectStops, WithoutListener, OneReader, Active
<1>5. CASE DisconnectCancels
  BY <1>5 DEF DisconnectCancels, OneReader
<1>6. ASSUME NEW s \in Sessions, Run(s)
      PROVE  SessionInv'
  <2>1. UNCHANGED <<enabled, ui, cancelled, nconn>>
    BY <1>6, RunKeepsWindow
  <2>2. /\ \A t \in Sessions \ {s} :
              loop'[t] = loop[t] \/ (loop[t] = "get" /\ loop'[t] = "faulted")
        /\ loop[s] # "none"
        /\ loop'[s] \in Active => loop[s] \in Active \/ ~cancelled
    BY <1>6, ActiveByToken
  <2>3. \A t \in Sessions : t > nconn => loop'[t] = "none"
    BY <2>2
  <2>4. OneReader'
    <3>1. CASE cancelled
      BY <2>2, <3>1 DEF OneReader, Active
    <3>2. CASE ~cancelled
      <4>1. \A t \in Sessions : loop'[t] \in Active => t <= 1
        BY <2>3, <3>2 DEF Active
      <4> QED
        BY <4>1 DEF OneReader
    <3> QED
      BY <3>1, <3>2
  <2> QED
    BY <2>1, <2>3, <2>4
<1>7. CASE UNCHANGED vars
  BY <1>7 DEF vars, OneReader
<1> QED
  BY <1>1, <1>2, <1>3, <1>4, <1>5, <1>6, <1>7 DEF Next, ClickGoesOn

(***************************************************************************)
(* Types and sessions together: MainWindow's handlers and WebServer.Run    *)
(* keep HostTypeOK and SessionInv for any number of connections.           *)
(***************************************************************************)
THEOREM HostCorrect == Spec => [](HostTypeOK /\ SessionInv)
<1>1. Init => HostTypeOK /\ SessionInv
  <2>1. <<>> \in Seq(Requests)
    OBVIOUS
  <2>2. Init => HostTypeOK
    <3> SUFFICES ASSUME Init PROVE HostTypeOK
      OBVIOUS
    <3>1. enabled \in [search: BOOLEAN, connect: BOOLEAN, disconnect: BOOLEAN]
      BY DEF Init
    <3>2. /\ loop \in [Sessions -> {"none", "token", "bye"} \cup Active \cup Ended]
          /\ request \in [Sessions -> Requests \cup {"none"}]
      BY DEF Init
    <3>3. \A s \in Sessions : loop[s] = "none"
      BY DEF Init
    <3>4. nreq \in Nat /\ nconn \in 0 .. MaxConnects
      BY HostAssumption DEF Init
    <3>5. queue \in Seq(Requests)
      BY <2>1 DEF Init
    <3> QED
      BY <3>1, <3>2, <3>3, <3>4, <3>5 DEF Init, HostTypeOK
  <2>3. Init => SessionInv
    BY HostAssumption DEF Init, SessionInv, OneReader, Sessions, Active
  <2> QED
    BY <2>2, <2>3
<1>2. HostTypeOK /\ SessionInv /\ [Next]_vars => HostTypeOK' /\ SessionInv'
  <2> SUFFICES ASSUME HostTypeOK, SessionInv, [Next]_vars
               PROVE  HostTypeOK' /\ SessionInv'
    OBVIOUS
  <2>1. CASE UNCHANGED vars
    BY <2>1, SessionStep DEF vars, uiVars, loopVars, HostTypeOK
  <2>2. CASE Next
    BY <2>2, WindowTypes, RunTypes, SessionStep DEF Next
  <2> QED
    BY <2>1, <2>2
<1> QED
  BY <1>1, <1>2, PTL DEF Spec

(***************************************************************************)
(* The types of the window, the listener and the Runs.                     *)
(***************************************************************************)
THEOREM HostTypes == Spec => []HostTypeOK
BY HostCorrect, PTL

(***************************************************************************)
(* Never do two Runs use the serial port, however often and fast the user  *)
(* disconnects and connects.                                               *)
(***************************************************************************)
THEOREM SingleReader == Spec => []OneReader
<1>1. SessionInv => OneReader
  BY DEF SessionInv
<1> QED
  BY HostCorrect, <1>1, PTL
=============================================================================
