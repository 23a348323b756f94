----------------------------- MODULE Calibration -----------------------------
(***************************************************************************)
(* How a zone gets from the mouse to the guard: the calibration page with  *)
(* its confirmation, the upload, the server, web_source's file and         *)
(* diff_ditect, which reads it when it starts.                             *)
(***************************************************************************)
EXTENDS HazardZone

CONSTANTS
  Points,       \* the places that are clicked, [x, y] in hundredths
  ZoneFaults,   \* what may go wrong
  MaxVisits,    \* bound: visits of the page
  MaxRefusals,  \* bound: refusals in the dialog
  MaxReboots    \* bound: power losses of the board

\* navigation: leaving the page cuts off the upload it has just begun
\* sdcard: fopen fails
ASSUME CalibrationAssumption ==
  /\ Points \subseteq [x: 0 .. 100, y: 0 .. 100]
  /\ ZoneFaults \subseteq {"navigation", "sdcard"}
  /\ MaxVisits \in Nat /\ MaxRefusals \in Nat /\ MaxReboots \in Nat

VARIABLES
  page,       \* "closed", "open", "timer" (set) or "dialog" (shown)
  loc_ls,     \* the points clicked; count is its length
  obj,        \* the points to be posted
  post,       \* the requests on their way to the server, oldest first
  line,       \* "set" commands on the serial line
  web,        \* web_source: "read", "open", "close", or ended
  buff,       \* the command web_source has read
  hazard_ini, \* CONFIG/hazard.ini: "absent", "empty", or its numbers
  ditect,     \* diff_ditect: "start" or "running"
  zone,       \* its limits
  confirmed,  \* history: the limits of the points confirmed, oldest first
  lost,       \* history: how the newest zone was lost, or "no"
  visits, refusals, reboots

pageVars  == <<page, loc_ls, obj>>
boardVars == <<line, web, buff, hazard_ini, ditect, zone>>
counters  == <<visits, refusals, reboots>>
vars      == <<pageVars, post, boardVars, confirmed, lost, counters>>

\* The quadruples considered, and the limits the server computes of each.
Quadruple == {q \in [1 .. 4 -> Points] : WithinBounds(q)}
LimitsOf  == [q \in Quadruple |-> Limits(q)]

\* The types; the file holds four numbers or nothing.
CalibrationTypeOK ==
  /\ page \in {"closed", "open", "timer", "dialog"}
  /\ loc_ls \in Seq(Points)
  /\ obj \in Quadruple \cup {<<>>}
  /\ post \in Seq(Quadruple)
  /\ line \in Seq([1 .. 4 -> Int])
  /\ web \in {"read", "open", "close", "exited"}
  /\ buff \in [1 .. 4 -> Int]
  /\ hazard_ini \in [kind: {"absent", "empty", "full"}, text: [1 .. 4 -> Int]]
  /\ ditect \in {"start", "running"}
  /\ zone \in Zone
  /\ confirmed \in Seq(Zone)
  /\ lost \in {"no", "upload", "merged", "card", "power"}
  /\ visits \in Nat /\ refusals \in Nat /\ reboots \in Nat

NoText == <<0, 0, 0, 0>>

Init ==
  /\ page = "closed" /\ loc_ls = <<>> /\ obj = <<>>
  /\ post = <<>>
  /\ line = <<>> /\ web = "read" /\ buff = NoText
  /\ hazard_ini = [kind |-> "absent", text |-> NoText]
  /\ ditect = "start" /\ zone = DefaultZone
  /\ confirmed = <<>> /\ lost = "no"
  /\ visits = 0 /\ refusals = 0 /\ reboots = 0
----------------------------------------------------------------------------
(* The page                                                                *)

calibration ==
  /\ page = "closed"
  /\ visits < MaxVisits
  /\ visits' = visits + 1
  /\ page' = "open" /\ loc_ls' = <<>> /\ obj' = <<>>
  /\ UNCHANGED <<post, boardVars, confirmed, lost, refusals, reboots>>

\* Mutant: obj holds the four latest points, not the four it was made of.
Click_updates_obj(p) ==
  /\ page \in {"open", "timer"}
  /\ Len(loc_ls) < 5
  /\ Len(loc_ls) = 3 => Append(loc_ls, p) \in Quadruple
  /\ loc_ls' = Append(loc_ls, p)
  /\ IF Len(loc_ls) >= 3
     THEN /\ page' = "timer" /\ obj' = SubSeq(loc_ls', Len(loc_ls) - 2, Len(loc_ls) + 1)
          /\ obj' \in Quadruple
     ELSE UNCHANGED <<page, obj>>
  /\ UNCHANGED <<post, boardVars, confirmed, lost, counters>>

\* The handler has no upper limit for count; one click after the fourth is
\* considered (bound: the 100 ms of the timer).
Click(p) ==
  /\ page \in {"open", "timer"}
  /\ Len(loc_ls) < 5
  /\ Len(loc_ls) = 3 => Append(loc_ls, p) \in Quadruple
  /\ loc_ls' = Append(loc_ls, p)
  /\ IF Len(loc_ls) = 3
     THEN page' = "timer" /\ obj' = loc_ls'
     ELSE UNCHANGED <<page, obj>>
  /\ UNCHANGED <<post, boardVars, confirmed, lost, counters>>

TimerFires ==
  /\ page = "timer"
  /\ page' = "dialog"
  /\ UNCHANGED <<loc_ls, obj, post, boardVars, confirmed, lost, counters>>

\* fetch, then index.html at once.  What the operator agreed to are the
\* first four points clicked.
Confirm ==
  /\ page = "dialog"
  /\ page' = "closed"
  /\ confirmed' = Append(confirmed, LimitsOf[SubSeq(loc_ls, 1, 4)])
  /\ \/ post' = Append(post, obj) /\ lost' = "no"
     \/ "navigation" \in ZoneFaults /\ lost' = "upload" /\ UNCHANGED post
  /\ loc_ls' = <<>> /\ obj' = <<>>
  /\ UNCHANGED <<boardVars, counters>>

\* The points are forgotten (their marks stay on the canvas).
Refuse ==
  /\ page = "dialog"
  /\ refusals < MaxRefusals
  /\ refusals' = refusals + 1
  /\ page' = "open"
  /\ loc_ls' = <<>>
  /\ obj' = <<>>
  /\ UNCHANGED <<post, boardVars, confirmed, lost, visits, reboots>>

LeavePage ==
  /\ page \in {"open", "timer"}
  /\ page' = "closed"
  /\ loc_ls' = <<>> /\ obj' = <<>>
  /\ UNCHANGED <<post, boardVars, confirmed, lost, counters>>
----------------------------------------------------------------------------
(* The server and the board                                                *)

\* The newest zone, if it has come this far, is lost for that reason.
Loses(here, why) == lost' = IF here /\ lost \in {"no", "merged"} THEN why ELSE lost

ServerSetHazard ==
  /\ post # <<>>
  /\ line' = Append(line, SetText(LimitsOf[Head(post)]))
  /\ post' = Tail(post)
  /\ UNCHANGED <<pageVars, web, buff, hazard_ini, ditect, zone, confirmed, lost, counters>>

\* One read takes all that has come; only its first command counts, and
\* what was sent last is lost with the rest.
WebReads ==
  /\ web = "read" /\ line # <<>>
  /\ web' = "open"
  /\ buff' = Head(line)
  /\ Loses(post = <<>> /\ Len(line) > 1, "merged")
  /\ line' = <<>>
  /\ UNCHANGED <<pageVars, post, hazard_ini, ditect, zone, confirmed, counters>>

WebOpens ==
  /\ web = "open"
  /\ \/ /\ web' = "close"
        /\ hazard_ini' = [hazard_ini EXCEPT !.kind = "empty"]
        /\ UNCHANGED lost
     \/ /\ "sdcard" \in ZoneFaults
        /\ web' = "exited"
        /\ Loses(post = <<>> /\ line = <<>>, "card")
        /\ UNCHANGED hazard_ini
  /\ UNCHANGED <<pageVars, post, line, buff, ditect, zone, confirmed, counters>>

\* Mutant: the command is read and not written.
WebCloses_empty ==
  /\ web = "close"
  /\ web' = "read"
  /\ UNCHANGED <<pageVars, post, line, buff, hazard_ini, ditect, zone, confirmed, lost, counters>>

WebCloses ==
  /\ web = "close"
  /\ web' = "read"
  /\ hazard_ini' = [kind |-> "full", text |-> Stored(buff)]
  /\ UNCHANGED <<pageVars, post, line, buff, ditect, zone, confirmed, lost, counters>>

\* Mutant: the old bytes of an emptied file are read.
Load_setting_stale ==
  /\ ditect = "start"
  /\ ditect' = "running"
  /\ zone' = IF hazard_ini.kind # "absent" THEN Scanned(hazard_ini.text) ELSE DefaultZone
  /\ UNCHANGED <<pageVars, post, line, web, buff, hazard_ini, confirmed, lost, counters>>

\* An absent or empty file leaves the initial limits.
Load_setting ==
  /\ ditect = "start"
  /\ ditect' = "running"
  /\ zone' = IF hazard_ini.kind = "full" THEN Scanned(hazard_ini.text) ELSE DefaultZone
  /\ UNCHANGED <<pageVars, post, line, web, buff, hazard_ini, confirmed, lost, counters>>

PowerLoss ==
  /\ reboots < MaxReboots
  /\ reboots' = reboots + 1
  /\ Loses(post = <<>> /\ (line # <<>> \/ web # "read"), "power")
  /\ line' = <<>> /\ web' = "read" /\ buff' = NoText
  /\ ditect' = "start" /\ zone' = DefaultZone
  /\ UNCHANGED <<pageVars, post, hazard_ini, confirmed, visits, refusals>>

Board == WebReads \/ WebOpens \/ WebCloses \/ Load_setting

Next ==
  \/ calibration \/ (\E p \in Points : Click(p))
  \/ TimerFires \/ Confirm \/ Refuse \/ LeavePage
  \/ ServerSetHazard \/ Board \/ PowerLoss

Spec == Init /\ [][Next]_vars
----------------------------------------------------------------------------
(***************************************************************************)
(* What web_source stores was confirmed: one quadruple of points the       *)
(* operator agreed to, never a mixture of two attempts, a point clicked    *)
(* after the fourth, or points of a refused attempt.                       *)
(***************************************************************************)
ConfirmedText == {Stored(SetText(confirmed[c])) : c \in 1 .. Len(confirmed)}

StoredIsConfirmed == hazard_ini.kind = "full" => hazard_ini.text \in ConfirmedText

(***************************************************************************)
(* The zone in use is the initial one or one setting as a whole: neither   *)
(* a power loss while the file is rewritten nor a start of diff_ditect in  *)
(* the middle of it mixes two.  (The order of its numbers is ZoneUsed's    *)
(* matter.)                                                                *)
(***************************************************************************)
OneSetting == zone # DefaultZone => zone \in {Scanned(t) : t \in ConfirmedText}

(***************************************************************************)
(* The limits do not depend on the order in which the four points were     *)
(* clicked (OrderBy and the comparisons of WebServer.Run): two clicks that *)
(* follow each other may be swapped, in whatever order the four came.      *)
(***************************************************************************)
Swapped(p, a) == [p EXCEPT ![a] = p[a + 1], ![a + 1] = p[a]]

ClickOrderIrrelevant ==
  page = "timer" => \A a \in 1 .. 3 : LimitsOf[Swapped(obj, a)] = LimitsOf[obj]

(***************************************************************************)
(* The lower limits are where the edges through the points meet the bottom *)
(* of the picture, to the nearest hundredth.  The left one is 0 when its   *)
(* edge meets the bottom left of the picture, the right one 1.00 when its  *)
(* edge does so right of it; on their other side neither is cut off        *)
(* (l.167-182 of WebServer.cs), so a left limit may lie beyond 1.00.       *)
(***************************************************************************)
\* How far right of v hundredths the line from p to q, p above q, meets the
\* bottom, times its height.
BottomPast(v, p, q) == (q.x - v) * (q.y - p.y) + (100 - q.y) * (q.x - p.x)

MeetsBottom(v, p, q) ==
  2 * BottomPast(v, p, q) <= q.y - p.y /\ -(q.y - p.y) <= 2 * BottomPast(v, p, q)

LeftRight(v, p, q)  == MeetsBottom(v, p, q) \/ (v = 0 /\ BottomPast(0, p, q) < 0)
RightRight(v, p, q) == MeetsBottom(v, p, q) \/ (v = 100 /\ BottomPast(100, p, q) > 0)

LowerLimitsRight ==
  page = "timer" =>
    LET s == ByY(obj)
        z == LimitsOf[obj]
    IN  /\ LeftRight(z.lb, Left(s[1], s[2]), Left(s[3], s[4]))
        /\ RightRight(z.rb, Right(s[1], s[2]), Right(s[3], s[4]))

(***************************************************************************)
(* Once nothing is on its way, the card holds the newest zone confirmed,   *)
(* unless that zone's upload was cut off, the card failed under it or the  *)
(* power went before it was stored; a power loss afterwards does not take  *)
(* it back.  There is one loss without any failure: when web_source reads  *)
(* two "set" commands at once it stores the first, and an older zone stays *)
(* on the card.                                                            *)
(***************************************************************************)
Settled == post = <<>> /\ line = <<>> /\ web = "read"

OnCard(c) == hazard_ini = [kind |-> "full", text |-> Stored(SetText(confirmed[c]))]

ZoneStored ==
  Settled /\ confirmed # <<>> =>
    /\ lost = "no" => OnCard(Len(confirmed))
    /\ lost = "merged" => \E c \in 1 .. Len(confirmed) - 1 : OnCard(c)
----------------------------------------------------------------------------
(* What the repository says of the program and the code does not do        *)

(***************************************************************************)
(* The dialog asks whether "the points above" are right: the zone          *)
(* diff_ditect guards is the initial one or one that was confirmed.        *)
(***************************************************************************)
ZoneUsed == zone # DefaultZone => \E c \in 1 .. Len(confirmed) : zone = confirmed[c]
=============================================================================
