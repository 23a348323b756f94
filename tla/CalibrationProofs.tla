-------------------------- MODULE CalibrationProofs --------------------------
(***************************************************************************)
(* Proofs for Calibration: what reaches the card and the guard is one zone *)
(* that was confirmed, the newest one once nothing is on its way, for      *)
(* every set of points and every number of visits, refusals and reboots.   *)
(***************************************************************************)
EXTENDS Calibration, SequenceTheorems, FiniteSetTheorems, TLAPS

\* The zones the server can compute, and those confirmed so far.
Zones  == {LimitsOf[q] : q \in Quadruple}
Agreed == {confirmed[c] : c \in 1 .. Len(confirmed)}

PageInv ==
  /\ page \in {"closed", "open", "timer", "dialog"}
  /\ loc_ls \in Seq(Points)
  /\ page = "open" => Len(loc_ls) <= 3
  /\ page \in {"timer", "dialog"} =>
       /\ obj \in Quadruple
       /\ Len(loc_ls) >= 4
       /\ \A k \in 1 .. 4 : loc_ls[k] = obj[k]

\* What each stage between page and card holds.
StageTypes ==
  /\ confirmed \in Seq(Zones)
  /\ post \in Seq(Quadruple)
  /\ line \in Seq({SetText(z) : z \in Zones})
  /\ web \in {"read", "open", "close", "exited"}
  /\ hazard_ini = [kind |-> hazard_ini.kind, text |-> hazard_ini.text]
  /\ lost \in {"no", "upload", "merged", "card", "power"}

\* Nothing is in a stage that was not confirmed.
StagesAgreed ==
  /\ \A k \in 1 .. Len(post) : LimitsOf[post[k]] \in Agreed
  /\ \A k \in 1 .. Len(line) : \E z \in Agreed : line[k] = SetText(z)
  /\ web \in {"open", "close"} => \E z \in Agreed : buff = SetText(z)
  /\ hazard_ini.kind = "full" => \E z \in Agreed : hazard_ini.text = Stored(SetText(z))
  /\ zone # DefaultZone => \E z \in Agreed : zone = Scanned(Stored(SetText(z)))

\* Until it is lost the newest zone is at the end of the first stage that
\* is not empty.
NewestFirst ==
  lost = "no" =>
    /\ post # <<>> => LimitsOf[post[Len(post)]] = confirmed[Len(confirmed)]
    /\ post = <<>> /\ line # <<>> => line[Len(line)] = SetText(confirmed[Len(confirmed)])
    /\ post = <<>> /\ line = <<>> /\ web \in {"open", "close"} =>
         buff = SetText(confirmed[Len(confirmed)])
    /\ Settled /\ confirmed # <<>> => OnCard(Len(confirmed))

\* What is in front of another zone is older than the newest; so is what two
\* merged commands leave.
Older == {confirmed[c] : c \in 1 .. Len(confirmed) - 1}

OlderBehind ==
  /\ \A k \in 1 .. Len(post) - 1 : LimitsOf[post[k]] \in Older
  /\ post # <<>> => \A k \in 1 .. Len(line) : \E z \in Older : line[k] = SetText(z)
  /\ \A k \in 1 .. Len(line) - 1 : \E z \in Older : line[k] = SetText(z)

MergedLeaves ==
  lost = "merged" =>
    /\ post = <<>> /\ line = <<>> /\ web # "exited"
    /\ web \in {"open", "close"} => \E z \in Older : buff = SetText(z)
    /\ web = "read" =>
         \E z \in Older : hazard_ini = [kind |-> "full", text |-> Stored(SetText(z))]

ZoneInv == PageInv /\ StageTypes /\ StagesAgreed /\ NewestFirst /\ OlderBehind /\ MergedLeaves
----------------------------------------------------------------------------
(* Lemmas                                                                  *)

\* With the initial limits every pixel is outside (main passes pixels).
LEMMA DefaultHazard ==
  ASSUME NEW x \in Nat, NEW y \in Nat
  PROVE  IsHazard(DefaultZone, x, y)
BY SMT DEF IsHazard, Side, DefaultZone

LEMMA FirstFour ==
  ASSUME NEW S, NEW s \in Seq(S), NEW q \in [1 .. 4 -> S], Len(s) >= 4,
         \A k \in 1 .. 4 : s[k] = q[k]
  PROVE  SubSeq(s, 1, 4) = q
<1>1. /\ SubSeq(s, 1, 4) \in Seq(S)
      /\ Len(SubSeq(s, 1, 4)) = 4
      /\ \A k \in 1 .. 4 : SubSeq(s, 1, 4)[k] = s[k]
  BY SMT
<1>2. SubSeq(s, 1, 4) \in [1 .. Len(SubSeq(s, 1, 4)) -> S]
  BY <1>1, LenProperties
<1>3. SubSeq(s, 1, 4) \in [1 .. 4 -> S]
  BY <1>1, <1>2, Zenon
<1> DEFINE f == SubSeq(s, 1, 4)
<1>4. f \in [1 .. 4 -> S] /\ \A k \in 1 .. 4 : f[k] = q[k]
  BY <1>1, <1>3, Zenon
<1> HIDE DEF f
<1>5. f = q
  BY <1>4, SMT
<1> QED BY <1>5 DEF f

\* A zone that was confirmed stays so.
LEMMA AgreedGrows ==
  ASSUME NEW z, confirmed \in Seq(Zones), z \in Zones, confirmed' = Append(confirmed, z)
  PROVE  /\ confirmed' \in Seq(Zones)
         /\ Len(confirmed') = Len(confirmed) + 1
         /\ confirmed'[Len(confirmed')] = z
         /\ Agreed \subseteq Agreed' /\ z \in Agreed' /\ Agreed \subseteq Older'
<1>1. /\ confirmed' \in Seq(Zones) /\ Len(confirmed') = Len(confirmed) + 1
      /\ confirmed'[Len(confirmed')] = z
      /\ \A c \in 1 .. Len(confirmed) : confirmed'[c] = confirmed[c]
      /\ Len(confirmed) \in Nat
  BY SMT
<1> QED BY <1>1, SMT DEF Agreed, Older

LEMMA LimitsAreZones == \A q \in Quadruple : LimitsOf[q] \in Zones
BY DEF Zones

LEMMA QuadrupleIsFunction == Quadruple \subseteq [1 .. 4 -> Points]
BY DEF Quadruple

\* The stages say what the properties say.
LEMMA AgreedIsText ==
  ASSUME NEW z \in Agreed
  PROVE  Stored(SetText(z)) \in ConfirmedText
BY DEF Agreed, ConfirmedText
----------------------------------------------------------------------------
LEMMA InitZone == Init => ZoneInv
<1> SUFFICES ASSUME Init PROVE ZoneInv
  OBVIOUS
<1>1. PageInv
  BY SMT DEF Init, PageInv
<1>2. StageTypes
  <2>1. <<>> \in Seq(Zones) /\ <<>> \in Seq(Quadruple)
        /\ <<>> \in Seq({SetText(z) : z \in Zones})
    BY EmptySeq
  <2>2. hazard_ini = [kind |-> hazard_ini.kind, text |-> hazard_ini.text]
    BY DEF Init
  <2> QED BY <2>1, <2>2 DEF Init, StageTypes
<1>3. StagesAgreed
  BY SMT DEF Init, StagesAgreed
<1>4. NewestFirst
  BY DEF Init, NewestFirst
<1>5. OlderBehind /\ MergedLeaves
  BY SMT DEF Init, OlderBehind, MergedLeaves
<1> QED BY <1>1, <1>2, <1>3, <1>4, <1>5 DEF ZoneInv

(* The page alone.                                                         *)
LEMMA PageKeeps ==
  ASSUME ZoneInv, [Next]_vars
  PROVE  PageInv'
<1> USE DEF ZoneInv, PageInv
<1>1. ASSUME NEW p \in Points, Click(p) PROVE PageInv'
  <2>1. /\ loc_ls' \in Seq(Points)
        /\ Len(loc_ls') = Len(loc_ls) + 1
        /\ \A k \in 1 .. Len(loc_ls) : loc_ls'[k] = loc_ls[k]
        /\ Len(loc_ls) \in Nat
    BY <1>1, SMT DEF Click
  <2>2. CASE Len(loc_ls) = 3
    <3>1. page' = "timer" /\ obj' = loc_ls' /\ obj' \in Quadruple
      BY <1>1, <2>2 DEF Click
    <3>2. Len(loc_ls') >= 4
      BY <2>1, <2>2, SMT
    <3> QED BY <2>1, <3>1, <3>2
  <2>3. CASE Len(loc_ls) # 3
    <3>1. page' = page /\ obj' = obj /\ page \in {"open", "timer"}
      BY <1>1, <2>3 DEF Click
    <3>2. CASE page = "open"
      <4>0. Len(loc_ls) <= 3
        BY <3>2
      <4>1. Len(loc_ls') <= 3
        <5>1. \A m \in Nat, n \in Int : m <= 3 /\ m # 3 /\ n = m + 1 => n <= 3
          OBVIOUS
        <5>2. Len(loc_ls) \in Nat /\ Len(loc_ls') = Len(loc_ls) + 1 /\ Len(loc_ls') \in Int
          BY <2>1
        <5> QED BY <2>3, <4>0, <5>1, <5>2, Zenon
      <4> QED BY <2>1, <3>1, <3>2, <4>1
    <3>3. CASE page = "timer"
      <4>1. Len(loc_ls) >= 4 /\ obj \in Quadruple /\ \A k \in 1 .. 4 : loc_ls[k] = obj[k]
        BY <3>3
      <4>2. Len(loc_ls') >= 4 /\ \A k \in 1 .. 4 : k \in 1 .. Len(loc_ls)
        BY <2>1, <4>1, SMT
      <4>3. \A k \in 1 .. 4 : loc_ls'[k] = obj'[k]
        BY <2>1, <3>1, <4>1, <4>2, Zenon
      <4> QED BY <2>1, <3>1, <3>3, <4>1, <4>2, <4>3
    <3> QED BY <3>1, <3>2, <3>3
  <2> QED BY <2>2, <2>3
<1>2. CASE calibration BY <1>2, SMT DEF calibration
<1>3. CASE TimerFires BY <1>3, SMT DEF TimerFires
<1>4. CASE Confirm BY <1>4, SMT DEF Confirm
<1>5. CASE Refuse BY <1>5, SMT DEF Refuse
<1>6. CASE LeavePage BY <1>6, SMT DEF LeavePage
<1>7. CASE UNCHANGED pageVars BY <1>7, SMT DEF pageVars
<1>8. ASSUME ServerSetHazard \/ Board \/ PowerLoss \/ UNCHANGED vars PROVE UNCHANGED pageVars
  BY <1>8 DEF ServerSetHazard, Board, WebReads, WebOpens, WebCloses, Load_setting, PowerLoss, vars
<1> QED BY <1>1, <1>2, <1>3, <1>4, <1>5, <1>6, <1>7, <1>8 DEF Next

\* What a confirmation adds.
LEMMA ConfirmAdds ==
  ASSUME ZoneInv, Confirm
  PROVE  /\ obj \in Quadruple
         /\ confirmed' = Append(confirmed, LimitsOf[obj])
         /\ LimitsOf[obj] \in Zones
<1>1. obj \in Quadruple /\ Len(loc_ls) >= 4 /\ loc_ls \in Seq(Points)
      /\ \A k \in 1 .. 4 : loc_ls[k] = obj[k]
  BY SMT DEF ZoneInv, PageInv, Confirm
<1>2. SubSeq(loc_ls, 1, 4) = obj
  BY <1>1, FirstFour, QuadrupleIsFunction
<1> QED BY <1>1, <1>2, LimitsAreZones DEF Confirm

LEMMA StagesKeep ==
  ASSUME ZoneInv, [Next]_vars
  PROVE  StageTypes' /\ StagesAgreed' /\ NewestFirst'
<1> USE DEF ZoneInv
<1>1. CASE Confirm
  <2>1. /\ obj \in Quadruple /\ LimitsOf[obj] \in Zones
        /\ confirmed' \in Seq(Zones) /\ Len(confirmed') = Len(confirmed) + 1
        /\ confirmed'[Len(confirmed')] = LimitsOf[obj]
        /\ Agreed \subseteq Agreed' /\ LimitsOf[obj] \in Agreed'
    BY <1>1, ConfirmAdds, AgreedGrows DEF StageTypes
  <2>2. UNCHANGED <<line, web, buff, hazard_ini, zone>>
    BY <1>1 DEF Confirm, boardVars
  <2>3. CASE post' = Append(post, obj) /\ lost' = "no"
    <3>1. /\ post' \in Seq(Quadruple) /\ post' # <<>> /\ Len(post') = Len(post) + 1
          /\ post'[Len(post')] = obj
          /\ \A k \in 1 .. Len(post) : post'[k] = post[k]
          /\ Len(post) \in Nat
      <4>1. post \in Seq(Quadruple) /\ obj \in Quadruple /\ post' = Append(post, obj)
        BY <2>1, <2>3 DEF StageTypes
      <4> HIDE DEF ZoneInv
      <4> QED BY <4>1
    <3>2. StageTypes'
      BY <2>1, <2>2, <2>3, <3>1 DEF StageTypes
    <3>3. StagesAgreed'
      <4>1. \A k \in 1 .. Len(post') : LimitsOf[post'[k]] \in Agreed'
        BY <2>1, <3>1, SMT DEF StagesAgreed
      <4> QED BY <2>1, <2>2, <4>1 DEF StagesAgreed
    <3>4. NewestFirst'
      BY <2>1, <2>2, <2>3, <3>1 DEF NewestFirst, Settled, OnCard
    <3> QED BY <3>2, <3>3, <3>4
  <2>4. CASE lost' = "upload" /\ UNCHANGED post
    <3>1. StageTypes'
      BY <2>1, <2>2, <2>4 DEF StageTypes
    <3>2. StagesAgreed'
      BY <2>1, <2>2, <2>4 DEF StagesAgreed
    <3>3. NewestFirst'
      BY <2>4 DEF NewestFirst, Settled, OnCard
    <3> QED BY <3>1, <3>2, <3>3
  <2> QED BY <1>1, <2>3, <2>4 DEF Confirm
<1>2. CASE ServerSetHazard
  <2>0. UNCHANGED <<web, buff, hazard_ini, zone, confirmed, lost>> /\ Agreed' = Agreed
    BY <1>2 DEF ServerSetHazard, Agreed
  <2>1. /\ Len(post) \in Nat /\ Len(post) >= 1 /\ Head(post) = post[1] /\ post[1] \in Quadruple
        /\ post' \in Seq(Quadruple) /\ Len(post') = Len(post) - 1
        /\ \A k \in 1 .. Len(post') : post'[k] = post[k + 1]
    BY <1>2, SMT DEF StageTypes, ServerSetHazard
  <2>2. /\ line' \in Seq({SetText(z) : z \in Zones}) /\ Len(line') = Len(line) + 1
        /\ line' # <<>>
        /\ line'[Len(line')] = SetText(LimitsOf[post[1]])
        /\ \A k \in 1 .. Len(line) : line'[k] = line[k]
        /\ Len(line) \in Nat
    <3>1. SetText(LimitsOf[post[1]]) \in {SetText(z) : z \in Zones}
      BY <2>1, LimitsAreZones
    <3>2. line' = Append(line, SetText(LimitsOf[post[1]]))
      BY <1>2, <2>1 DEF ServerSetHazard
    <3> HIDE DEF Zones
    <3>3. line \in Seq({SetText(z) : z \in Zones})
      BY DEF StageTypes
    <3> DEFINE T == {SetText(z) : z \in Zones}
               t == SetText(LimitsOf[post[1]])
    <3>4. line \in Seq(T) /\ t \in T /\ line' = Append(line, t)
      BY <3>1, <3>2, <3>3
    <3> HIDE DEF T, t
    <3>5. /\ line' \in Seq(T) /\ Len(line') = Len(line) + 1 /\ line' # <<>>
          /\ line'[Len(line')] = t
          /\ \A k \in 1 .. Len(line) : line'[k] = line[k]
          /\ Len(line) \in Nat
      BY <3>4, SMT
    <3> QED BY <3>5 DEF T, t
  <2>3. StageTypes'
    BY <2>0, <2>1, <2>2 DEF StageTypes
  <2>4. StagesAgreed'
    <3>1. \A k \in 1 .. Len(post') : LimitsOf[post'[k]] \in Agreed'
      BY <2>0, <2>1, SMT DEF StagesAgreed
    <3>2. LimitsOf[post[1]] \in Agreed
      BY <2>1, SMT DEF StagesAgreed
    <3>3. \A k \in 1 .. Len(line') : \E z \in Agreed' : line'[k] = SetText(z)
      <4> TAKE k \in 1 .. Len(line')
      <4>1. CASE k \in 1 .. Len(line)
        BY <2>0, <2>2, <4>1 DEF StagesAgreed
      <4>2. CASE k = Len(line')
        BY <2>0, <2>2, <3>2, <4>2
      <4> QED BY <2>2, <4>1, <4>2, SMT
    <3> QED BY <2>0, <3>1, <3>3 DEF StagesAgreed
  <2>5. NewestFirst'
    <3>1. ASSUME lost' = "no", post' # <<>> PROVE LimitsOf[post'[Len(post')]] = confirmed'[Len(confirmed')]
      <4>1. Len(post') >= 1
        BY <2>1, <3>1, SMT
      <4>2. post'[Len(post')] = post[Len(post)] /\ post # <<>>
        BY <2>1, <4>1, SMT
      <4> QED BY <2>0, <3>1, <4>2 DEF NewestFirst
    <3>2. ASSUME lost' = "no", post' = <<>> PROVE line'[Len(line')] = SetText(confirmed'[Len(confirmed')])
      <4>1. Len(post) = 1 /\ post # <<>>
        BY <2>1, <3>2, SMT
      <4> QED BY <2>0, <2>2, <3>2, <4>1 DEF NewestFirst
    <3> QED BY <2>0, <2>2, <3>1, <3>2 DEF NewestFirst, Settled, OnCard
  <2> QED BY <2>3, <2>4, <2>5
<1>3. CASE WebReads
  <2>0. /\ UNCHANGED <<post, hazard_ini, zone, confirmed>> /\ Agreed' = Agreed
        /\ web' = "open" /\ buff' = Head(line) /\ line' = <<>> /\ web = "read"
        /\ lost' \in {lost, "merged"} /\ line # <<>>
        /\ lost' = "no" /\ post = <<>> => lost = "no" /\ ~(Len(line) > 1)
    BY <1>3 DEF WebReads, Loses, Agreed
  <2>1. Len(line) \in Nat /\ Len(line) >= 1 /\ Head(line) = line[1]
    BY <2>0, SMT DEF StageTypes
  <2>2. StageTypes'
    <3>1. line' \in Seq({SetText(z) : z \in Zones})
      BY <2>0
    <3> QED BY <2>0, <2>1, <3>1 DEF StageTypes
  <2>3. StagesAgreed'
    <3>1. \E z \in Agreed : buff' = SetText(z)
      BY <2>0, <2>1, SMT DEF StagesAgreed
    <3>2. Len(line') = 0
      BY <2>0
    <3> QED BY <2>0, <3>1, <3>2, SMT DEF StagesAgreed
  <2>4. NewestFirst'
    <3>1. ASSUME lost' = "no", post' = <<>> PROVE buff' = SetText(confirmed'[Len(confirmed')])
      <4>1. lost = "no" /\ ~(Len(line) > 1)
        BY <2>0, <3>1, Zenon
      <4>2. Len(line) = 1
        <5>1. \A n \in Nat : n >= 1 /\ ~(n > 1) => n = 1
          OBVIOUS
        <5> QED BY <2>1, <4>1, <5>1, Zenon
      <4> QED BY <2>0, <2>1, <3>1, <4>1, <4>2 DEF NewestFirst
    <3>2. ASSUME lost' = "no" PROVE lost = "no"
      BY <2>0, <3>2
    <3> QED BY <2>0, <3>1, <3>2 DEF NewestFirst, Settled, OnCard
  <2> QED BY <2>2, <2>3, <2>4
<1>4. CASE WebOpens
  <2>0. UNCHANGED <<post, line, buff, zone, confirmed>> /\ Agreed' = Agreed /\ web = "open"
        /\ \/ web' = "close" /\ hazard_ini' = [hazard_ini EXCEPT !.kind = "empty"] /\ lost' = lost
           \/ web' = "exited" /\ lost' \in {lost, "card"} /\ UNCHANGED hazard_ini
    BY <1>4 DEF WebOpens, Loses, Agreed
  <2>1. StageTypes'
    <3>1. CASE web' = "close" /\ hazard_ini' = [hazard_ini EXCEPT !.kind = "empty"] /\ lost' = lost
      <4>1. hazard_ini' = [kind |-> "empty", text |-> hazard_ini.text]
        BY <3>1, SMT DEF StageTypes
      <4>2. hazard_ini' = [kind |-> hazard_ini'.kind, text |-> hazard_ini'.text]
        BY <4>1
      <4> QED BY <2>0, <3>1, <4>2 DEF StageTypes
    <3>2. CASE web' = "exited" /\ lost' \in {lost, "card"} /\ UNCHANGED hazard_ini
      BY <2>0, <3>2 DEF StageTypes
    <3> QED BY <2>0, <3>1, <3>2
  <2>2. hazard_ini'.kind = "full" => UNCHANGED hazard_ini
    <3>1. ASSUME hazard_ini' = [hazard_ini EXCEPT !.kind = "empty"] PROVE hazard_ini'.kind = "empty"
      BY <3>1, SMT DEF StageTypes
    <3> QED BY <2>0, <3>1
  <2>3. StagesAgreed'
    BY <2>0, <2>2 DEF StagesAgreed
  <2>4. NewestFirst'
    BY <2>0 DEF NewestFirst, Settled, OnCard
  <2> QED BY <2>1, <2>3, <2>4
<1>5. CASE WebCloses
  <2>0. UNCHANGED <<post, line, buff, zone, confirmed, lost>> /\ Agreed' = Agreed /\ web = "close"
        /\ web' = "read" /\ hazard_ini' = [kind |-> "full", text |-> Stored(buff)]
    BY <1>5 DEF WebCloses, Agreed
  <2>1. StageTypes'
    BY <2>0 DEF StageTypes
  <2>2. hazard_ini'.text = Stored(buff)
    BY <2>0
  <2>3. StagesAgreed'
    BY <2>0, <2>2 DEF StagesAgreed
  <2>4. NewestFirst'
    BY <2>0 DEF NewestFirst, Settled, OnCard
  <2> QED BY <2>1, <2>3, <2>4
<1>6. CASE Load_setting
  <2>0. UNCHANGED <<post, line, web, buff, hazard_ini, confirmed, lost>> /\ Agreed' = Agreed
        /\ zone' = IF hazard_ini.kind = "full" THEN Scanned(hazard_ini.text) ELSE DefaultZone
    BY <1>6 DEF Load_setting, Agreed
  <2>1. StageTypes'
    BY <2>0 DEF StageTypes
  <2>2. StagesAgreed'
    BY <2>0 DEF StagesAgreed
  <2>3. NewestFirst'
    BY <2>0 DEF NewestFirst, Settled, OnCard
  <2> QED BY <2>1, <2>2, <2>3
<1>7. CASE PowerLoss
  <2>0. /\ UNCHANGED <<post, hazard_ini, confirmed>> /\ Agreed' = Agreed
        /\ lost' \in {lost, "power"} /\ line' = <<>> /\ web' = "read" /\ zone' = DefaultZone
        /\ lost' = "no" /\ post = <<>> => lost = "no" /\ line = <<>> /\ web = "read"
    BY <1>7 DEF PowerLoss, Loses, Agreed
  <2>1. StageTypes'
    <3>1. line' \in Seq({SetText(z) : z \in Zones})
      BY <2>0
    <3> QED BY <2>0, <3>1 DEF StageTypes
  <2>2. StagesAgreed'
    <3>1. Len(line') = 0
      BY <2>0
    <3> QED BY <2>0, <3>1, SMT DEF StagesAgreed
  <2>3. NewestFirst'
    BY <2>0 DEF NewestFirst, Settled, OnCard
  <2> QED BY <2>1, <2>2, <2>3
<1>8. CASE UNCHANGED <<post, line, web, buff, hazard_ini, zone, confirmed, lost>>
  <2>1. Agreed' = Agreed
    BY <1>8 DEF Agreed
  <2>2. StageTypes'
    BY <1>8 DEF StageTypes
  <2>3. StagesAgreed'
    BY <1>8, <2>1 DEF StagesAgreed
  <2>4. NewestFirst'
    BY <1>8 DEF NewestFirst, Settled, OnCard
  <2> QED BY <2>2, <2>3, <2>4
<1>9. ASSUME calibration \/ (\E p \in Points : Click(p)) \/ TimerFires \/ Refuse \/ LeavePage
             \/ UNCHANGED vars
      PROVE  UNCHANGED <<post, line, web, buff, hazard_ini, zone, confirmed, lost>>
  BY <1>9 DEF calibration, Click, TimerFires, Refuse, LeavePage, boardVars, vars
<1> QED BY <1>1, <1>2, <1>3, <1>4, <1>5, <1>6, <1>7, <1>8, <1>9 DEF Next, Board

\* Zones in front of others stay older, and merged commands leave one.
LEMMA OlderKeep ==
  ASSUME ZoneInv, [Next]_vars
  PROVE  OlderBehind' /\ MergedLeaves'
<1> USE DEF ZoneInv
<1>1. CASE Confirm
  <2>1. /\ obj \in Quadruple /\ Agreed \subseteq Older'
        /\ UNCHANGED <<line, web, buff, hazard_ini>>
    BY <1>1, ConfirmAdds, AgreedGrows DEF StageTypes, Confirm, boardVars
  <2>2. \A k \in 1 .. Len(line') : \E z \in Older' : line'[k] = SetText(z)
    BY <2>1 DEF StagesAgreed
  <2>3. Len(line) \in Nat /\ Len(post) \in Nat
    BY DEF StageTypes
  <2>4. \A k \in 1 .. Len(post') - 1 : LimitsOf[post'[k]] \in Older'
    <3>1. /\ post' = Append(post, obj) => /\ Len(post') = Len(post) + 1
                                         /\ \A k \in 1 .. Len(post) : post'[k] = post[k]
      BY <2>1 DEF StageTypes
    <3>2. post' = Append(post, obj) \/ post' = post
      BY <1>1 DEF Confirm
    <3> QED BY <2>1, <2>3, <3>1, <3>2 DEF StagesAgreed
  <2>5. lost' # "merged"
    BY <1>1 DEF Confirm
  <2> QED BY <2>1, <2>2, <2>3, <2>4, <2>5 DEF OlderBehind, MergedLeaves
<1>2. CASE ServerSetHazard
  <2>0. /\ UNCHANGED <<web, buff, hazard_ini, confirmed, lost>> /\ Older' = Older /\ post # <<>>
        /\ line' = Append(line, SetText(LimitsOf[Head(post)])) /\ post' = Tail(post)
    BY <1>2 DEF ServerSetHazard, Older
  <2>1. /\ Len(post) \in Nat /\ Len(post) >= 1 /\ Head(post) = post[1] /\ Len(line) \in Nat
        /\ Len(post') = Len(post) - 1 /\ \A k \in 1 .. Len(post') : post'[k] = post[k + 1]
    BY <2>0 DEF StageTypes
  <2>2. /\ Len(line') = Len(line) + 1
        /\ line'[Len(line) + 1] = SetText(LimitsOf[post[1]])
        /\ \A k \in 1 .. Len(line) : line'[k] = line[k]
    <3> DEFINE t == SetText(LimitsOf[Head(post)])
    <3>1. line' = Append(line, t) /\ line \in Seq({SetText(z) : z \in Zones}) /\ t = SetText(LimitsOf[post[1]])
      BY <2>0, <2>1 DEF StageTypes
    <3>2. PICK T : line \in Seq(T)
      BY <3>1
    <3> HIDE DEF t, ZoneInv
    <3> QED BY <3>1, <3>2
  <2>3. \A k \in 1 .. Len(post') - 1 : LimitsOf[post'[k]] \in Older'
    <3> SUFFICES ASSUME NEW k \in 1 .. Len(post') - 1 PROVE LimitsOf[post'[k]] \in Older
      BY <2>0
    <3>1. k + 1 \in 1 .. Len(post) - 1 /\ post'[k] = post[k + 1]
      BY <2>1
    <3> QED BY <3>1 DEF OlderBehind
  <2>4. \A k \in 1 .. Len(line) : \E z \in Older' : line'[k] = SetText(z)
    BY <2>0, <2>2 DEF OlderBehind
  <2>5. post' # <<>> => LimitsOf[post[1]] \in Older
    <3>1. post' # <<>> => Len(post) - 1 >= 1
      BY <2>0, <2>1 DEF StageTypes
    <3> QED BY <2>1, <3>1 DEF OlderBehind
  <2>6. lost' # "merged"
    BY <2>0 DEF MergedLeaves
  <2>7. post' # <<>> => \A k \in 1 .. Len(line') : \E z \in Older' : line'[k] = SetText(z)
    <3> SUFFICES ASSUME post' # <<>>, NEW k \in 1 .. Len(line')
                 PROVE  \E z \in Older' : line'[k] = SetText(z)
      OBVIOUS
    <3>1. k \in 1 .. Len(line) \/ k = Len(line) + 1
      BY <2>1, <2>2
    <3> QED BY <2>0, <2>2, <2>4, <2>5, <3>1
  <2>8. \A k \in 1 .. Len(line') - 1 : \E z \in Older' : line'[k] = SetText(z)
    BY <2>1, <2>2, <2>4
  <2> QED BY <2>3, <2>6, <2>7, <2>8 DEF OlderBehind, MergedLeaves
<1>3. CASE WebReads
  <2>0. /\ UNCHANGED <<post, confirmed>> /\ Older' = Older
        /\ web' = "open" /\ buff' = Head(line) /\ line' = <<>> /\ line # <<>>
        /\ lost' = "merged" => lost = "merged" \/ (post = <<>> /\ Len(line) > 1)
    BY <1>3 DEF WebReads, Loses, Older
  <2>1. Len(line) \in Nat /\ Head(line) = line[1] /\ Len(line') = 0
    BY <2>0 DEF StageTypes
  <2>2. OlderBehind'
    BY <2>0, <2>1 DEF OlderBehind
  <2>3. ASSUME lost' = "merged" PROVE post = <<>> /\ \E z \in Older : buff' = SetText(z)
    <3>1. post = <<>> /\ Len(line) > 1
      BY <2>0, <2>3 DEF MergedLeaves
    <3>2. 1 \in 1 .. Len(line) - 1
      BY <2>1, <3>1
    <3> QED BY <2>0, <2>1, <3>1, <3>2 DEF OlderBehind
  <2> QED BY <2>0, <2>2, <2>3 DEF MergedLeaves
<1>4. CASE WebOpens
  <2>0. /\ UNCHANGED <<post, line, buff, confirmed>> /\ Older' = Older /\ web = "open"
        /\ \/ web' = "close" /\ lost' = lost
           \/ web' = "exited" /\ (lost = "merged" /\ post = <<>> /\ line = <<>> => lost' = "card")
              /\ lost' \in {lost, "card"}
    BY <1>4 DEF WebOpens, Loses, Older
  <2> QED BY <2>0 DEF OlderBehind, MergedLeaves
<1>5. CASE WebCloses
  BY <1>5 DEF WebCloses, OlderBehind, MergedLeaves, Older
<1>6. CASE PowerLoss
  <2>0. /\ UNCHANGED <<post, hazard_ini, confirmed>> /\ Older' = Older
        /\ line' = <<>> /\ web' = "read" /\ lost' \in {lost, "power"}
        /\ lost' = "merged" /\ post = <<>> => web = "read"
    BY <1>6 DEF PowerLoss, Loses, Older
  <2>1. OlderBehind'
    <3>1. Len(line') = 0
      BY <2>0
    <3> QED BY <2>0, <3>1 DEF OlderBehind
  <2> QED BY <2>0, <2>1 DEF MergedLeaves
<1>7. CASE UNCHANGED <<post, line, web, buff, hazard_ini, confirmed, lost>>
  BY <1>7 DEF OlderBehind, MergedLeaves, Older
<1>8. ASSUME calibration \/ (\E p \in Points : Click(p)) \/ TimerFires \/ Refuse \/ LeavePage
             \/ Load_setting \/ UNCHANGED vars
      PROVE  UNCHANGED <<post, line, web, buff, hazard_ini, confirmed, lost>>
  BY <1>8 DEF calibration, Click, TimerFires, Refuse, LeavePage, Load_setting, boardVars, vars
<1> QED BY <1>1, <1>2, <1>3, <1>4, <1>5, <1>6, <1>7, <1>8 DEF Next, Board
----------------------------------------------------------------------------
(* The geometry: sorting, rounding and the limits.                         *)

\* A point: whole hundredths.
Point == [x: 0 .. 100, y: 0 .. 100]

Bit(b) == IF b THEN 1 ELSE 0

\* How many of four.
LEMMA CountFour ==
  ASSUME NEW S \in SUBSET (1 .. 4)
  PROVE  Cardinality(S) = Bit(1 \in S) + Bit(2 \in S) + Bit(3 \in S) + Bit(4 \in S)
<1> DEFINE U(k) == S \cap (1 .. k)
<1>1. U(0) = {} /\ IsFiniteSet(U(0)) /\ Cardinality(U(0)) = 0
  BY FS_EmptySet
<1>2. ASSUME NEW k \in 0 .. 3, IsFiniteSet(U(k))
      PROVE  IsFiniteSet(U(k + 1)) /\ Cardinality(U(k + 1)) = Cardinality(U(k)) + Bit(k + 1 \in S)
  <2>1. CASE k + 1 \in S
    <3>1. U(k + 1) = U(k) \cup {k + 1} /\ k + 1 \notin U(k)
      BY <2>1
    <3>2. IsFiniteSet(U(k) \cup {k + 1}) /\ Cardinality(U(k) \cup {k + 1}) = Cardinality(U(k)) + 1
      <4> HIDE DEF U
      <4> QED BY <1>2, <3>1, FS_AddElement
    <3> QED BY <2>1, <3>1, <3>2 DEF Bit
  <2>2. CASE k + 1 \notin S
    <3>1. U(k + 1) = U(k)
      BY <2>2
    <3>2. Cardinality(U(k)) \in Nat
      BY <1>2, FS_CardinalityType
    <3>3. Bit(k + 1 \in S) = 0
      BY <2>2 DEF Bit
    <3> HIDE DEF U
    <3> QED BY <1>2, <3>1, <3>2, <3>3
  <2> QED BY <2>1, <2>2
<1>3. U(4) = S
  OBVIOUS
<1> HIDE DEF U
<1>4. IsFiniteSet(U(1)) /\ Cardinality(U(1)) = Bit(1 \in S)
  BY <1>1, <1>2 DEF Bit
<1>5. IsFiniteSet(U(2)) /\ Cardinality(U(2)) = Bit(1 \in S) + Bit(2 \in S)
  BY <1>2, <1>4 
<1>6. IsFiniteSet(U(3)) /\ Cardinality(U(3)) = Bit(1 \in S) + Bit(2 \in S) + Bit(3 \in S)
  BY <1>2, <1>5
<1> QED BY <1>2, <1>3, <1>6

\* The place of the point a.
Before(p, a) == {b \in 1 .. 4 : p[b].y < p[a].y \/ (p[b].y = p[a].y /\ b < a)}
Rank(p, a) == 1 + Cardinality(Before(p, a))

\* The places, comparison by comparison.
LEMMA Ranks ==
  ASSUME NEW p \in [1 .. 4 -> Point]
  PROVE  /\ Rank(p, 1) = 1 + Bit(p[2].y < p[1].y) + Bit(p[3].y < p[1].y) + Bit(p[4].y < p[1].y)
         /\ Rank(p, 2) = 1 + Bit(p[1].y <= p[2].y) + Bit(p[3].y < p[2].y) + Bit(p[4].y < p[2].y)
         /\ Rank(p, 3) = 1 + Bit(p[1].y <= p[3].y) + Bit(p[2].y <= p[3].y) + Bit(p[4].y < p[3].y)
         /\ Rank(p, 4) = 1 + Bit(p[1].y <= p[4].y) + Bit(p[2].y <= p[4].y) + Bit(p[3].y <= p[4].y)
<1>1. \A a \in 1 .. 4 : Rank(p, a) = 1 + (Bit(1 \in Before(p, a)) + Bit(2 \in Before(p, a))
                                          + Bit(3 \in Before(p, a)) + Bit(4 \in Before(p, a)))
  <2>1. \A a \in 1 .. 4 : Before(p, a) \in SUBSET (1 .. 4)
    BY DEF Before
  <2> QED BY <2>1, CountFour DEF Rank
<1>2. \A a \in 1 .. 4 : p[a].y \in Int
  BY DEF Point
<1>3. \A a, b \in 1 .. 4 : b \in Before(p, a) <=> (IF b < a THEN p[b].y <= p[a].y ELSE p[b].y < p[a].y)
  BY <1>2 DEF Before
<1>4. \A a, b \in 1 .. 4 : Bit(b \in Before(p, a)) = Bit(IF b < a THEN p[b].y <= p[a].y ELSE p[b].y < p[a].y)
  BY <1>3 DEF Bit
<1>5. \A a \in 1 .. 4 : Bit(p[a].y < p[a].y) = 0
  BY <1>2 DEF Bit
<1>6. \A a \in 1 .. 4 : Bit(a \in Before(p, a)) = 0
  BY <1>2 DEF Bit, Before
<1>7. \A a, b \in 1 .. 4 : Bit(b \in Before(p, a)) \in {0, 1}
  BY DEF Bit
<1>8. \A a, b \in 1 .. 4 : b < a => Bit(b \in Before(p, a)) = Bit(p[b].y <= p[a].y)
  BY <1>3 DEF Bit
<1>9. \A a, b \in 1 .. 4 : a < b => Bit(b \in Before(p, a)) = Bit(p[b].y < p[a].y)
  BY <1>3 DEF Bit
<1>10. Rank(p, 1) = 1 + Bit(p[2].y < p[1].y) + Bit(p[3].y < p[1].y) + Bit(p[4].y < p[1].y)
  BY <1>1, <1>6, <1>7, <1>9
<1>11. Rank(p, 2) = 1 + Bit(p[1].y <= p[2].y) + Bit(p[3].y < p[2].y) + Bit(p[4].y < p[2].y)
  BY <1>1, <1>6, <1>7, <1>8, <1>9
<1>12. Rank(p, 3) = 1 + Bit(p[1].y <= p[3].y) + Bit(p[2].y <= p[3].y) + Bit(p[4].y < p[3].y)
  BY <1>1, <1>6, <1>7, <1>8, <1>9
<1>13. Rank(p, 4) = 1 + Bit(p[1].y <= p[4].y) + Bit(p[2].y <= p[4].y) + Bit(p[3].y <= p[4].y)
  BY <1>1, <1>6, <1>7, <1>8
<1> QED BY <1>10, <1>11, <1>12, <1>13

\* The places are a permutation that follows y.
LEMMA RankOrder ==
  ASSUME NEW p \in [1 .. 4 -> Point]
  PROVE  /\ \A a \in 1 .. 4 : Rank(p, a) \in 1 .. 4
         /\ \A a, b \in 1 .. 4 : a # b => Rank(p, a) # Rank(p, b)
         /\ \A a, b \in 1 .. 4 : p[a].y < p[b].y => Rank(p, a) < Rank(p, b)
         /\ \A r \in 1 .. 4 : \E a \in 1 .. 4 : Rank(p, a) = r
<1>2. \A a \in 1 .. 4 : p[a].y \in Int
  BY DEF Point
<1>3. \A b : Bit(b) \in Int
  BY DEF Bit
<1>4. \A a \in 1 .. 4 : Rank(p, a) \in Int
  BY <1>3, Ranks
<1>5. PICK y1 \in Int, y2 \in Int, y3 \in Int, y4 \in Int :
        y1 = p[1].y /\ y2 = p[2].y /\ y3 = p[3].y /\ y4 = p[4].y
  BY <1>2
<1>6. PICK r1 \in Int, r2 \in Int, r3 \in Int, r4 \in Int :
        r1 = Rank(p, 1) /\ r2 = Rank(p, 2) /\ r3 = Rank(p, 3) /\ r4 = Rank(p, 4)
  BY <1>4
<1>7. /\ r1 = 1 + Bit(y2 < y1) + Bit(y3 < y1) + Bit(y4 < y1)
      /\ r2 = 1 + Bit(y1 <= y2) + Bit(y3 < y2) + Bit(y4 < y2)
      /\ r3 = 1 + Bit(y1 <= y3) + Bit(y2 <= y3) + Bit(y4 < y3)
      /\ r4 = 1 + Bit(y1 <= y4) + Bit(y2 <= y4) + Bit(y3 <= y4)
  BY <1>5, <1>6, Ranks
<1>8. /\ 1 <= r1 /\ r1 <= 4 /\ 1 <= r2 /\ r2 <= 4 /\ 1 <= r3 /\ r3 <= 4 /\ 1 <= r4 /\ r4 <= 4
      /\ r1 # r2 /\ r1 # r3 /\ r1 # r4 /\ r2 # r3 /\ r2 # r4 /\ r3 # r4
      /\ (y1 < y2 => r1 < r2) /\ (y1 < y3 => r1 < r3) /\ (y1 < y4 => r1 < r4)
      /\ (y2 < y1 => r2 < r1) /\ (y2 < y3 => r2 < r3) /\ (y2 < y4 => r2 < r4)
      /\ (y3 < y1 => r3 < r1) /\ (y3 < y2 => r3 < r2) /\ (y3 < y4 => r3 < r4)
      /\ (y4 < y1 => r4 < r1) /\ (y4 < y2 => r4 < r2) /\ (y4 < y3 => r4 < r3)
  BY <1>7, SMT DEF Bit
<1>9. /\ \A a \in 1 .. 4 : Rank(p, a) \in 1 .. 4
      /\ \A a, b \in 1 .. 4 : a # b => Rank(p, a) # Rank(p, b)
  BY <1>6, <1>8
<1>10. \A a, b \in 1 .. 4 : p[a].y < p[b].y => Rank(p, a) < Rank(p, b)
  <2> SUFFICES ASSUME NEW a \in 1 .. 4, NEW b \in 1 .. 4, p[a].y < p[b].y PROVE Rank(p, a) < Rank(p, b)
    OBVIOUS
  <2>1. a # b
    BY <1>2
  <2> QED BY <1>5, <1>6, <1>8, <2>1
<1>11. \A r \in 1 .. 4 : \E a \in 1 .. 4 : Rank(p, a) = r
  BY <1>9
<1> QED BY <1>9, <1>10, <1>11

\* ByY puts each point in its place, and its result is sorted.
LEMMA ByYAt ==
  ASSUME NEW p \in [1 .. 4 -> Point]
  PROVE  ByY(p) \in [1 .. 4 -> Point] /\ \A a \in 1 .. 4 : ByY(p)[Rank(p, a)] = p[a]
<1>1. ByY(p) = [r \in 1 .. 4 |-> p[CHOOSE a \in 1 .. 4 : Rank(p, a) = r]]
  BY DEF ByY, Rank, Before
<1>2. \A r \in 1 .. 4 : (CHOOSE a \in 1 .. 4 : Rank(p, a) = r) \in 1 .. 4
  BY RankOrder
<1>3. \A a \in 1 .. 4 : (CHOOSE b \in 1 .. 4 : Rank(p, b) = Rank(p, a)) = a
  BY RankOrder
<1> QED BY <1>1, <1>2, <1>3, RankOrder

LEMMA ByYSorts ==
  ASSUME NEW p \in [1 .. 4 -> Point]
  PROVE  \A r, t \in 1 .. 4 : r < t => ByY(p)[r].y <= ByY(p)[t].y
<1> SUFFICES ASSUME NEW r \in 1 .. 4, NEW t \in 1 .. 4, r < t PROVE ByY(p)[r].y <= ByY(p)[t].y
  OBVIOUS
<1>1. PICK a \in 1 .. 4, b \in 1 .. 4 : Rank(p, a) = r /\ Rank(p, b) = t
  BY RankOrder
<1>2. ByY(p)[r] = p[a] /\ ByY(p)[t] = p[b]
  BY <1>1, ByYAt
<1>3. ~(p[b].y < p[a].y)
  BY <1>1, RankOrder
<1>4. p[a].y \in Int /\ p[b].y \in Int
  BY DEF Point
<1> QED BY <1>2, <1>3, <1>4

\* Rounded is the nearest whole number.
LEMMA Rounding ==
  ASSUME NEW num \in Nat, NEW d \in Nat \ {0}
  PROVE  /\ Rounded(num, d) \in Nat
         /\ 2 * (Rounded(num, d) * d) <= 2 * num + d
         /\ 2 * num + d < 2 * (Rounded(num, d) * d) + 2 * d
<1> DEFINE v == Rounded(num, d)
           m == 2 * num + d
           e == 2 * d
<1>1. m \in Nat /\ e \in Nat \ {0} /\ v = m \div e
  BY DEF Rounded
<1>2. v \in Int /\ e * v <= m /\ m < e * (v + 1)
  <2> HIDE DEF m, e, v
  <2> QED BY <1>1
<1>3. v >= 0
  <2> SUFFICES ASSUME v <= -1 PROVE FALSE
    BY <1>2
  <2>1. e * (v + 1) <= 0
    <3> HIDE DEF m, e, v
    <3> QED BY <1>1, <1>2
  <2> HIDE DEF m, e, v
  <2> QED BY <1>1, <1>2, <2>1
<1>4. e * v = 2 * (v * d) /\ e * (v + 1) = 2 * (v * d) + 2 * d
  <2> HIDE DEF v
  <2> QED BY <1>2
<1> QED BY <1>2, <1>3, <1>4

\* The corners of a zone.
LEMMA Corners ==
  ASSUME NEW p \in [1 .. 4 -> Point], WithinBounds(p),
         NEW s, s = ByY(p)
  PROVE  /\ Left(s[1], s[2]) \in Point /\ Left(s[3], s[4]) \in Point
         /\ Right(s[1], s[2]) \in Point /\ Right(s[3], s[4]) \in Point
         /\ Left(s[1], s[2]).y < Left(s[3], s[4]).y
         /\ Right(s[1], s[2]).y < Right(s[3], s[4]).y
<1>1. s \in [1 .. 4 -> Point]
  BY ByYAt
<1>2. s[1].y <= s[2].y /\ s[2].y < s[3].y /\ s[3].y <= s[4].y
  BY ByYSorts DEF WithinBounds
<1>3. s[1] \in Point /\ s[2] \in Point /\ s[3] \in Point /\ s[4] \in Point
  BY <1>1
<1>4. \A k \in 1 .. 4 : s[k].y \in Int
  BY <1>1 DEF Point
<1>5. /\ s[1].y < s[3].y /\ s[1].y < s[4].y /\ s[2].y < s[3].y /\ s[2].y < s[4].y
  BY <1>2, <1>4
<1> QED BY <1>3, <1>5 DEF Left, Right

\* An edge's lower end, from the point where it is measured.
LEMMA AlongBottom ==
  ASSUME NEW a \in Point, NEW b \in Point, a.y < b.y
  PROVE  /\ b.y - a.y \in Nat \ {0}
         /\ Along(a, 100 - a.y, a, b) = Along(b, 100 - b.y, a, b)
         /\ Along(b, 100 - b.y, a, b) \in Int
         /\ \A v \in Int : BottomPast(v, a, b) = Along(b, 100 - b.y, a, b) - v * (b.y - a.y)
<1>0. a.x \in Int /\ a.y \in Int /\ b.x \in Int /\ b.y \in Int
  BY DEF Point
<1>1. PICK ax \in Int, ay \in Int, bx \in Int, by \in Int :
        a.x = ax /\ a.y = ay /\ b.x = bx /\ b.y = by
  BY <1>0
<1>2. ax * (by - ay) + (100 - ay) * (bx - ax) = bx * (by - ay) + (100 - by) * (bx - ax)
  OBVIOUS
<1>3. \A v \in Int : (bx - v) * (by - ay) + (100 - by) * (bx - ax)
                     = bx * (by - ay) + (100 - by) * (bx - ax) - v * (by - ay)
  OBVIOUS
<1>4. bx * (by - ay) + (100 - by) * (bx - ax) \in Int /\ by - ay \in Nat \ {0}
  BY <1>1
<1> QED BY <1>1, <1>2, <1>3, <1>4 DEF Along, BottomPast

LEMMA RoundedMeets ==
  ASSUME NEW a \in Point, NEW b \in Point, a.y < b.y, Along(b, 100 - b.y, a, b) >= 0
  PROVE  MeetsBottom(Rounded(Along(b, 100 - b.y, a, b), b.y - a.y), a, b)
<1> DEFINE d == b.y - a.y
           n == Along(b, 100 - b.y, a, b)
           v == Rounded(n, d)
           off == BottomPast(v, a, b)
<1>1. n \in Nat /\ d \in Nat \ {0}
  BY AlongBottom
<1>2. v \in Nat /\ 2 * (v * d) <= 2 * n + d /\ 2 * n + d < 2 * (v * d) + 2 * d
  <2> HIDE DEF n, d
  <2> QED BY <1>1, Rounding
<1>3. off = n - v * d
  <2>1. v \in Int
    BY <1>2
  <2> HIDE DEF v
  <2> QED BY <2>1, AlongBottom
<1>4. v * d \in Int
  BY <1>1, <1>2
<1>5. 2 * off <= d /\ -d <= 2 * off
  <2> DEFINE m == v * d
  <2>1. m \in Int /\ off = n - m /\ 2 * m <= 2 * n + d /\ 2 * n + d < 2 * m + 2 * d
    BY <1>2, <1>3, <1>4
  <2> HIDE DEF m, off, n, d
  <2> QED BY <1>1, <2>1
<1> QED BY <1>5 DEF MeetsBottom

\* At the borders of the picture.
LEMMA RoundedBorder ==
  ASSUME NEW d \in Nat \ {0} PROVE Rounded(0, d) = 0 /\ Rounded(100 * d, d) = 100
<1>1. ASSUME NEW k \in Nat, NEW v \in Int, 2 * (v * d) <= 2 * (k * d) + d,
             2 * (k * d) + d < 2 * (v * d) + 2 * d
      PROVE  v = k
  <2>1. (v - k) * d = v * d - k * d
    OBVIOUS
  <2>2. v - k >= 1 => (v - k) * d >= d
    OBVIOUS
  <2>3. v - k <= -1 => (v - k) * d <= -d
    OBVIOUS
  <2>4. v * d \in Int /\ k * d \in Int
    OBVIOUS
  <2> QED BY <1>1, <2>1, <2>2, <2>3, <2>4
<1>2. ASSUME NEW k \in Nat PROVE Rounded(k * d, d) = k
  <2>1. k * d \in Nat
    OBVIOUS
  <2>2. /\ Rounded(k * d, d) \in Nat
        /\ 2 * (Rounded(k * d, d) * d) <= 2 * (k * d) + d
        /\ 2 * (k * d) + d < 2 * (Rounded(k * d, d) * d) + 2 * d
    BY <2>1, Rounding
  <2>3. PICK v \in Int : v = Rounded(k * d, d)
    BY <2>2
  <2> QED BY <1>1, <2>2, <2>3
<1>3. 0 * d = 0
  OBVIOUS
<1>4. Rounded(0 * d, d) = 0
  BY <1>2
<1>5. Rounded(100 * d, d) = 100
  BY <1>2
<1> QED BY <1>3, <1>4, <1>5

\* The lower limits of a zone.
LEMMA LowerLimits ==
  ASSUME NEW p \in [1 .. 4 -> Point], WithinBounds(p),
         NEW s, s = ByY(p), NEW z, z = Limits(p)
  PROVE  /\ LeftRight(z.lb, Left(s[1], s[2]), Left(s[3], s[4]))
         /\ RightRight(z.rb, Right(s[1], s[2]), Right(s[3], s[4]))
<1> DEFINE lt == Left(s[1], s[2])
           lb == Left(s[3], s[4])
           rt == Right(s[1], s[2])
           rb == Right(s[3], s[4])
<1>1. /\ lt \in Point /\ lb \in Point /\ rt \in Point /\ rb \in Point /\ lt.y < lb.y /\ rt.y < rb.y
  BY Corners
<1>2. /\ z.lb = Rounded(NotBelow(Along(lb, 100 - lb.y, lt, lb), 0), lb.y - lt.y)
      /\ z.rb = Rounded(NotAbove(Along(rt, 100 - rt.y, rt, rb), 100 * (rb.y - rt.y)), rb.y - rt.y)
  BY DEF Limits
<1>3. Along(rt, 100 - rt.y, rt, rb) >= 0
  BY DEF WithinBounds
<1> HIDE DEF lt, lb, rt, rb
<1>4. LeftRight(z.lb, lt, lb)
  <2>1. CASE Along(lb, 100 - lb.y, lt, lb) < 0
    <3>1. BottomPast(0, lt, lb) = Along(lb, 100 - lb.y, lt, lb)
      BY <1>1, AlongBottom
    <3>2. z.lb = 0
      BY <1>1, <1>2, <2>1, AlongBottom, RoundedBorder DEF NotBelow
    <3> QED BY <2>1, <3>1, <3>2 DEF LeftRight
  <2>2. CASE ~(Along(lb, 100 - lb.y, lt, lb) < 0)
    BY <1>1, <1>2, <2>2, AlongBottom, RoundedMeets DEF NotBelow, LeftRight
  <2> QED BY <2>1, <2>2
<1>5. RightRight(z.rb, rt, rb)
  <2>1. CASE Along(rt, 100 - rt.y, rt, rb) > 100 * (rb.y - rt.y)
    <3>1. /\ BottomPast(100, rt, rb) = Along(rb, 100 - rb.y, rt, rb) - 100 * (rb.y - rt.y)
          /\ Along(rt, 100 - rt.y, rt, rb) = Along(rb, 100 - rb.y, rt, rb)
          /\ Along(rb, 100 - rb.y, rt, rb) \in Int /\ rb.y - rt.y \in Nat
      BY <1>1, AlongBottom
    <3>2. BottomPast(100, rt, rb) > 0
      BY <2>1, <3>1
    <3>3. z.rb = 100
      BY <1>1, <1>2, <2>1, AlongBottom, RoundedBorder DEF NotAbove
    <3> QED BY <3>2, <3>3 DEF RightRight
  <2>2. CASE ~(Along(rt, 100 - rt.y, rt, rb) > 100 * (rb.y - rt.y))
    BY <1>1, <1>2, <1>3, <2>2, AlongBottom, RoundedMeets DEF NotAbove, RightRight
  <2> QED BY <2>1, <2>2
<1> QED BY <1>4, <1>5 DEF lt, lb, rt, rb

\* Two clicks that follow each other, swapped: they swap their places, or
\* keep them and are neighbours if their heights are equal.
LEMMA SwapRanks ==
  ASSUME NEW p \in [1 .. 4 -> Point], NEW a \in 1 .. 3
  PROVE  /\ Swapped(p, a) \in [1 .. 4 -> Point]
         /\ Swapped(p, a)[a] = p[a + 1] /\ Swapped(p, a)[a + 1] = p[a]
         /\ \A c \in (1 .. 4) \ {a, a + 1} : /\ Swapped(p, a)[c] = p[c]
                                            /\ Rank(Swapped(p, a), c) = Rank(p, c)
         /\ p[a].y # p[a + 1].y => /\ Rank(Swapped(p, a), a) = Rank(p, a + 1)
                                  /\ Rank(Swapped(p, a), a + 1) = Rank(p, a)
         /\ p[a].y = p[a + 1].y => /\ Rank(Swapped(p, a), a) = Rank(p, a)
                                  /\ Rank(Swapped(p, a), a + 1) = Rank(p, a + 1)
                                  /\ Rank(p, a + 1) = Rank(p, a) + 1
<1> DEFINE q == Swapped(p, a)
<1>1. /\ q \in [1 .. 4 -> Point] /\ q[a] = p[a + 1] /\ q[a + 1] = p[a]
      /\ \A c \in (1 .. 4) \ {a, a + 1} : q[c] = p[c]
  BY DEF Swapped
<1> HIDE DEF q
<1>2. PICK y1 \in Int, y2 \in Int, y3 \in Int, y4 \in Int :
        y1 = p[1].y /\ y2 = p[2].y /\ y3 = p[3].y /\ y4 = p[4].y
  <2>1. \A c \in 1 .. 4 : p[c].y \in Int
    BY DEF Point
  <2> QED BY <2>1
<1>3. /\ Rank(p, 1) = 1 + Bit(y2 < y1) + Bit(y3 < y1) + Bit(y4 < y1)
      /\ Rank(p, 2) = 1 + Bit(y1 <= y2) + Bit(y3 < y2) + Bit(y4 < y2)
      /\ Rank(p, 3) = 1 + Bit(y1 <= y3) + Bit(y2 <= y3) + Bit(y4 < y3)
      /\ Rank(p, 4) = 1 + Bit(y1 <= y4) + Bit(y2 <= y4) + Bit(y3 <= y4)
  BY <1>2, Ranks
<1>4. CASE a = 1
  <2>1. q[1].y = y2 /\ q[2].y = y1 /\ q[3].y = y3 /\ q[4].y = y4
    BY <1>1, <1>2, <1>4
  <2>2. /\ Rank(q, 1) = 1 + Bit(y1 < y2) + Bit(y3 < y2) + Bit(y4 < y2)
        /\ Rank(q, 2) = 1 + Bit(y2 <= y1) + Bit(y3 < y1) + Bit(y4 < y1)
        /\ Rank(q, 3) = 1 + Bit(y2 <= y3) + Bit(y1 <= y3) + Bit(y4 < y3)
        /\ Rank(q, 4) = 1 + Bit(y2 <= y4) + Bit(y1 <= y4) + Bit(y3 <= y4)
    BY <1>1, <2>1, Ranks
  <2>3. /\ Rank(q, 3) = Rank(p, 3) /\ Rank(q, 4) = Rank(p, 4)
        /\ y1 # y2 => Rank(q, 1) = Rank(p, 2) /\ Rank(q, 2) = Rank(p, 1)
        /\ y1 = y2 => Rank(q, 1) = Rank(p, 1) /\ Rank(q, 2) = Rank(p, 2) /\ Rank(p, 2) = Rank(p, 1) + 1
    BY <1>3, <2>2, SMT DEF Bit
  <2> QED BY <1>1, <1>2, <1>4, <2>3 DEF q
<1>5. CASE a = 2
  <2>1. q[1].y = y1 /\ q[2].y = y3 /\ q[3].y = y2 /\ q[4].y = y4
    BY <1>1, <1>2, <1>5
  <2>2. /\ Rank(q, 1) = 1 + Bit(y3 < y1) + Bit(y2 < y1) + Bit(y4 < y1)
        /\ Rank(q, 2) = 1 + Bit(y1 <= y3) + Bit(y2 < y3) + Bit(y4 < y3)
        /\ Rank(q, 3) = 1 + Bit(y1 <= y2) + Bit(y3 <= y2) + Bit(y4 < y2)
        /\ Rank(q, 4) = 1 + Bit(y1 <= y4) + Bit(y3 <= y4) + Bit(y2 <= y4)
    BY <1>1, <2>1, Ranks
  <2>3. /\ Rank(q, 1) = Rank(p, 1) /\ Rank(q, 4) = Rank(p, 4)
        /\ y2 # y3 => Rank(q, 2) = Rank(p, 3) /\ Rank(q, 3) = Rank(p, 2)
        /\ y2 = y3 => Rank(q, 2) = Rank(p, 2) /\ Rank(q, 3) = Rank(p, 3) /\ Rank(p, 3) = Rank(p, 2) + 1
    BY <1>3, <2>2, SMT DEF Bit
  <2> QED BY <1>1, <1>2, <1>5, <2>3 DEF q
<1>6. CASE a = 3
  <2>1. q[1].y = y1 /\ q[2].y = y2 /\ q[3].y = y4 /\ q[4].y = y3
    BY <1>1, <1>2, <1>6
  <2>2. /\ Rank(q, 1) = 1 + Bit(y2 < y1) + Bit(y4 < y1) + Bit(y3 < y1)
        /\ Rank(q, 2) = 1 + Bit(y1 <= y2) + Bit(y4 < y2) + Bit(y3 < y2)
        /\ Rank(q, 3) = 1 + Bit(y1 <= y4) + Bit(y2 <= y4) + Bit(y3 < y4)
        /\ Rank(q, 4) = 1 + Bit(y1 <= y3) + Bit(y2 <= y3) + Bit(y4 <= y3)
    BY <1>1, <2>1, Ranks
  <2>3. /\ Rank(q, 1) = Rank(p, 1) /\ Rank(q, 2) = Rank(p, 2)
        /\ y3 # y4 => Rank(q, 3) = Rank(p, 4) /\ Rank(q, 4) = Rank(p, 3)
        /\ y3 = y4 => Rank(q, 3) = Rank(p, 3) /\ Rank(q, 4) = Rank(p, 4) /\ Rank(p, 4) = Rank(p, 3) + 1
    BY <1>3, <2>2, SMT DEF Bit
  <2> QED BY <1>1, <1>2, <1>6, <2>3 DEF q
<1> QED BY <1>4, <1>5, <1>6

\* So the sorted points are the same, or two neighbours of equal height are
\* swapped.
LEMMA SwapSorted ==
  ASSUME NEW p \in [1 .. 4 -> Point], NEW a \in 1 .. 3,
         NEW s, s = ByY(p), NEW t, t = ByY(Swapped(p, a))
  PROVE  \/ t = s
         \/ \E r \in 1 .. 3 : /\ s[r].y = s[r + 1].y /\ t[r] = s[r + 1] /\ t[r + 1] = s[r]
                             /\ \A k \in (1 .. 4) \ {r, r + 1} : t[k] = s[k]
<1> DEFINE q == Swapped(p, a)
<1>1. /\ q \in [1 .. 4 -> Point] /\ q[a] = p[a + 1] /\ q[a + 1] = p[a]
      /\ \A c \in (1 .. 4) \ {a, a + 1} : q[c] = p[c] /\ Rank(q, c) = Rank(p, c)
  BY SwapRanks
<1>2. /\ s \in [1 .. 4 -> Point] /\ t \in [1 .. 4 -> Point]
      /\ \A c \in 1 .. 4 : s[Rank(p, c)] = p[c] /\ t[Rank(q, c)] = q[c]
  BY <1>1, ByYAt
<1>3. a \in 1 .. 4 /\ a + 1 \in 1 .. 4
  OBVIOUS
<1>4. CASE p[a].y # p[a + 1].y
  <2>1. Rank(q, a) = Rank(p, a + 1) /\ Rank(q, a + 1) = Rank(p, a)
    BY <1>4, SwapRanks
  <2> HIDE DEF q
  <2>2. \A c \in 1 .. 4 : t[Rank(p, c)] = s[Rank(p, c)]
    BY <1>1, <1>2, <1>3, <2>1
  <2>3. \A r \in 1 .. 4 : t[r] = s[r]
    BY <2>2, RankOrder
  <2>4. t = s
    BY <1>2, <2>3
  <2> QED BY <2>4
<1>5. CASE p[a].y = p[a + 1].y
  <2>1. Rank(q, a) = Rank(p, a) /\ Rank(q, a + 1) = Rank(p, a + 1) /\ Rank(p, a + 1) = Rank(p, a) + 1
    BY <1>5, SwapRanks
  <2>2. PICK r \in 1 .. 4 : r = Rank(p, a)
    BY <1>3, RankOrder
  <2>3. r + 1 = Rank(p, a + 1) /\ r + 1 \in 1 .. 4 /\ r \in 1 .. 3
    BY <1>3, <2>1, <2>2, RankOrder
  <2> HIDE DEF q
  <2>4. s[r] = p[a] /\ s[r + 1] = p[a + 1] /\ t[r] = p[a + 1] /\ t[r + 1] = p[a]
    BY <1>1, <1>2, <1>3, <2>1, <2>2, <2>3
  <2>5. ASSUME NEW k \in (1 .. 4) \ {r, r + 1} PROVE t[k] = s[k]
    <3>1. PICK c \in 1 .. 4 : Rank(p, c) = k
      BY RankOrder
    <3>2. c \in (1 .. 4) \ {a, a + 1}
      BY <2>2, <2>3, <3>1
    <3> QED BY <1>1, <1>2, <3>1, <3>2
  <2> QED BY <1>5, <2>3, <2>4, <2>5
<1> QED BY <1>4, <1>5

\* Left and Right make up for that.
LEMMA SwapLimits ==
  ASSUME NEW p \in [1 .. 4 -> Point], NEW a \in 1 .. 3, WithinBounds(p)
  PROVE  WithinBounds(Swapped(p, a)) /\ Limits(Swapped(p, a)) = Limits(p)
<1> DEFINE s == ByY(p)
           t == ByY(Swapped(p, a))
<1>1. s \in [1 .. 4 -> Point] /\ s[2].y < s[3].y
  BY ByYAt DEF WithinBounds
<1>2. \A c \in 1 .. 4 : s[c] \in Point /\ s[c].x \in Int /\ s[c].y \in Int
  BY <1>1 DEF Point
<1>3. \A b, c \in Point : b.y = c.y => Left(b, c) = Left(c, b) /\ Right(b, c) = Right(c, b)
  BY DEF Left, Right, Point
<1>4. /\ Left(t[1], t[2]) = Left(s[1], s[2]) /\ Right(t[1], t[2]) = Right(s[1], s[2])
      /\ Left(t[3], t[4]) = Left(s[3], s[4]) /\ Right(t[3], t[4]) = Right(s[3], s[4])
      /\ t[2].y = s[2].y /\ t[3].y = s[3].y
  <2>1. CASE t = s
    BY <2>1
  <2>2. ASSUME NEW r \in 1 .. 3, s[r].y = s[r + 1].y, t[r] = s[r + 1], t[r + 1] = s[r],
               \A k \in (1 .. 4) \ {r, r + 1} : t[k] = s[k]
        PROVE  /\ Left(t[1], t[2]) = Left(s[1], s[2]) /\ Right(t[1], t[2]) = Right(s[1], s[2])
               /\ Left(t[3], t[4]) = Left(s[3], s[4]) /\ Right(t[3], t[4]) = Right(s[3], s[4])
               /\ t[2].y = s[2].y /\ t[3].y = s[3].y
    <3> HIDE DEF s, t
    <3>1. r # 2
      BY <1>1, <1>2, <2>2
    <3>2. CASE r = 1
      <4>1. t[1] = s[2] /\ t[2] = s[1] /\ t[3] = s[3] /\ t[4] = s[4] /\ s[1].y = s[2].y
        BY <2>2, <3>2
      <4> QED BY <1>2, <1>3, <4>1
    <3>3. CASE r = 3
      <4>1. t[3] = s[4] /\ t[4] = s[3] /\ t[1] = s[1] /\ t[2] = s[2] /\ s[3].y = s[4].y
        BY <2>2, <3>3
      <4> QED BY <1>2, <1>3, <4>1
    <3> QED BY <3>1, <3>2, <3>3
  <2> QED BY <2>1, <2>2, SwapSorted
<1>5. WithinBounds(Swapped(p, a))
  BY <1>1, <1>4 DEF WithinBounds
<1>6. Limits(Swapped(p, a)) = Limits(p)
  BY <1>4 DEF Limits
<1> QED BY <1>5, <1>6

LEMMA LimitsZone ==
  ASSUME NEW p \in [1 .. 4 -> Point], WithinBounds(p) PROVE Limits(p) \in Zone
<1> DEFINE s  == ByY(p)
           lt == Left(s[1], s[2])
           lb == Left(s[3], s[4])
           rt == Right(s[1], s[2])
           rb == Right(s[3], s[4])
<1>1. /\ lt \in Point /\ lb \in Point /\ rt \in Point /\ rb \in Point /\ lt.y < lb.y /\ rt.y < rb.y
  BY Corners
<1>2. Limits(p) = [lt |-> Rounded(NotBelow(Along(lt, lt.y, lt, lb), 0), lb.y - lt.y),
                   lb |-> Rounded(NotBelow(Along(lb, 100 - lb.y, lt, lb), 0), lb.y - lt.y),
                   rt |-> Rounded(NotAbove(Along(rt, rt.y, rt, rb), 100 * (rb.y - rt.y)), rb.y - rt.y),
                   rb |-> Rounded(NotAbove(Along(rt, 100 - rt.y, rt, rb), 100 * (rb.y - rt.y)), rb.y - rt.y)]
  BY DEF Limits
<1>3. Along(rt, rt.y, rt, rb) >= 0 /\ Along(rt, 100 - rt.y, rt, rb) >= 0
  BY DEF WithinBounds
<1> HIDE DEF s, lt, lb, rt, rb
<1>4. lb.y - lt.y \in Nat \ {0} /\ rb.y - rt.y \in Nat \ {0} /\ 100 * (rb.y - rt.y) \in Nat
  BY <1>1 DEF Point
<1>5. \A a \in Point, b \in Point, c \in Point, h \in Int : Along(c, h, a, b) \in Int
  <2> SUFFICES ASSUME NEW a \in Point, NEW b \in Point, NEW c \in Point, NEW h \in Int
               PROVE  Along(c, h, a, b) \in Int
    OBVIOUS
  <2>1. c.x \in Int /\ b.y - a.y \in Int /\ b.x - a.x \in Int
    BY DEF Point
  <2>2. \A k, m \in Int : k * m \in Int
    OBVIOUS
  <2> QED BY <2>1, <2>2 DEF Along
<1>6. lt.y \in Int /\ 100 - lb.y \in Int /\ rt.y \in Int /\ 100 - rt.y \in Int
  BY <1>1 DEF Point
<1>7. /\ \A n \in Int : NotBelow(n, 0) \in Nat
      /\ \A n \in Int, m \in Nat : n >= 0 => NotAbove(n, m) \in Nat
  BY DEF NotBelow, NotAbove
<1>8. /\ Along(lt, lt.y, lt, lb) \in Int /\ Along(lb, 100 - lb.y, lt, lb) \in Int
      /\ Along(rt, rt.y, rt, rb) \in Int /\ Along(rt, 100 - rt.y, rt, rb) \in Int
  BY <1>1, <1>5, <1>6, Zenon
<1>9. \A n \in Nat, d \in Nat \ {0} : Rounded(n, d) \in Int
  BY Rounding
<1>10. /\ NotBelow(Along(lt, lt.y, lt, lb), 0) \in Nat
       /\ NotBelow(Along(lb, 100 - lb.y, lt, lb), 0) \in Nat
       /\ NotAbove(Along(rt, rt.y, rt, rb), 100 * (rb.y - rt.y)) \in Nat
       /\ NotAbove(Along(rt, 100 - rt.y, rt, rb), 100 * (rb.y - rt.y)) \in Nat
  BY <1>3, <1>4, <1>7, <1>8, Zenon
<1>11. /\ Rounded(NotBelow(Along(lt, lt.y, lt, lb), 0), lb.y - lt.y) \in Int
       /\ Rounded(NotBelow(Along(lb, 100 - lb.y, lt, lb), 0), lb.y - lt.y) \in Int
       /\ Rounded(NotAbove(Along(rt, rt.y, rt, rb), 100 * (rb.y - rt.y)), rb.y - rt.y) \in Int
       /\ Rounded(NotAbove(Along(rt, 100 - rt.y, rt, rb), 100 * (rb.y - rt.y)), rb.y - rt.y) \in Int
  BY <1>4, <1>9, <1>10, Zenon
<1> QED BY <1>2, <1>11 DEF Zone

\* What holds of a quadruple.
LEMMA QuadrupleZone ==
  ASSUME NEW q \in Quadruple
  PROVE  q \in [1 .. 4 -> Point] /\ WithinBounds(q) /\ LimitsOf[q] = Limits(q) /\ LimitsOf[q] \in Zone
<1>1. Points \subseteq Point
  BY CalibrationAssumption DEF Point
<1>2. q \in [1 .. 4 -> Points] /\ WithinBounds(q) /\ LimitsOf[q] = Limits(q)
  BY DEF Quadruple, LimitsOf
<1>3. q \in [1 .. 4 -> Point]
  BY <1>1, <1>2
<1> QED BY <1>2, <1>3, LimitsZone

LEMMA ZonesTyped == Zones \subseteq Zone
BY QuadrupleZone DEF Zones
----------------------------------------------------------------------------
(* The types that ZoneInv does not give.                                   *)

ZoneTypes ==
  /\ obj \in Quadruple \cup {<<>>}
  /\ buff \in [1 .. 4 -> Int]
  /\ hazard_ini \in [kind: {"absent", "empty", "full"}, text: [1 .. 4 -> Int]]
  /\ ditect \in {"start", "running"}
  /\ zone \in Zone
  /\ visits \in Nat /\ refusals \in Nat /\ reboots \in Nat

LEMMA TextTyped == \A z \in Zone : SetText(z) \in [1 .. 4 -> Int]
<1> SUFFICES ASSUME NEW z \in Zone PROVE SetText(z) \in [1 .. 4 -> Int]
  OBVIOUS
<1>1. z.lt \in Int /\ z.lb \in Int /\ z.rt \in Int /\ z.rb \in Int
  BY DEF Zone
<1> QED BY <1>1 DEF SetText

LEMMA StoredTyped == \A t \in [1 .. 4 -> Int] : Stored(t) \in [1 .. 4 -> Int]
BY DEF Stored

LEMMA ScannedTyped == \A t \in [1 .. 4 -> Int] : Scanned(t) \in Zone
BY DEF Scanned, Zone

LEMMA ZoneTypesInit == Init => ZoneTypes
<1> SUFFICES ASSUME Init PROVE ZoneTypes
  OBVIOUS
<1>1. NoText \in [1 .. 4 -> Int] /\ DefaultZone \in Zone
  BY DEF NoText, DefaultZone, Zone
<1> QED BY <1>1 DEF Init, ZoneTypes

LEMMA ZoneTypesStep == ZoneInv /\ ZoneTypes /\ [Next]_vars => ZoneTypes'
<1> SUFFICES ASSUME ZoneInv, ZoneTypes, [Next]_vars PROVE ZoneTypes'
  OBVIOUS
<1> USE DEF ZoneTypes
<1>1. CASE calibration
  BY <1>1 DEF calibration, boardVars
<1>2. ASSUME NEW p \in Points, Click(p) PROVE ZoneTypes'
  <2>1. obj' \in Quadruple \cup {<<>>}
    BY <1>2 DEF Click
  <2> QED BY <1>2, <2>1 DEF Click, boardVars, counters
<1>3. CASE TimerFires
  BY <1>3 DEF TimerFires, boardVars, counters
<1>4. CASE Confirm \/ LeavePage
  BY <1>4 DEF Confirm, LeavePage, boardVars, counters
<1>5. CASE Refuse
  BY <1>5 DEF Refuse, boardVars
<1>6. CASE ServerSetHazard
  BY <1>6 DEF ServerSetHazard, pageVars, counters
<1>7. CASE WebReads
  <2>1. buff' = Head(line) /\ line # <<>>
    BY <1>7 DEF WebReads
  <2>2. Head(line) \in {SetText(z) : z \in Zones}
    <3>1. line \in Seq({SetText(z) : z \in Zones})
      BY DEF ZoneInv, StageTypes
    <3> QED BY <2>1, <3>1
  <2>3. buff' \in [1 .. 4 -> Int]
    BY <2>1, <2>2, ZonesTyped, TextTyped
  <2> QED BY <1>7, <2>3 DEF WebReads, pageVars, counters
<1>8. CASE WebOpens
  BY <1>8 DEF WebOpens, pageVars, counters
<1>9. CASE WebCloses
  <2>1. hazard_ini' = [kind |-> "full", text |-> Stored(buff)] /\ Stored(buff) \in [1 .. 4 -> Int]
    BY <1>9, StoredTyped DEF WebCloses
  <2> QED BY <1>9, <2>1 DEF WebCloses, pageVars, counters
<1>10. CASE Load_setting
  <2>1. zone' \in Zone
    <3>1. Scanned(hazard_ini.text) \in Zone
      BY ScannedTyped
    <3>2. DefaultZone \in Zone
      BY DEF DefaultZone, Zone
    <3> QED BY <1>10, <3>1, <3>2 DEF Load_setting
  <2> QED BY <1>10, <2>1 DEF Load_setting, pageVars, counters
<1>11. CASE PowerLoss
  <2>1. NoText \in [1 .. 4 -> Int] /\ DefaultZone \in Zone
    BY DEF NoText, DefaultZone, Zone
  <2> QED BY <1>11, <2>1 DEF PowerLoss, pageVars
<1>12. CASE UNCHANGED vars
  BY <1>12 DEF vars, pageVars, boardVars, counters
<1> QED BY <1>1, <1>2, <1>3, <1>4, <1>5, <1>6, <1>7, <1>8, <1>9, <1>10, <1>11, <1>12 DEF Next, Board
----------------------------------------------------------------------------
(* The invariant of the whole way from the mouse to the guard.             *)
THEOREM ZoneInvariant == Spec => []ZoneInv
<1>1. ZoneInv /\ [Next]_vars => ZoneInv'
  BY PageKeeps, StagesKeep, OlderKeep DEF ZoneInv
<1> QED BY InitZone, <1>1, PTL DEF Spec

(* What web_source stores was confirmed as a whole.                        *)
THEOREM StoredConfirmed == Spec => []StoredIsConfirmed
<1>1. ZoneInv => StoredIsConfirmed
  BY AgreedIsText DEF ZoneInv, StagesAgreed, StoredIsConfirmed
<1> QED BY ZoneInvariant, <1>1, PTL

(* The guard uses its initial limits or one setting as a whole.            *)
THEOREM OneSettingUsed == Spec => []OneSetting
<1>1. ZoneInv => OneSetting
  BY AgreedIsText DEF ZoneInv, StagesAgreed, OneSetting
<1> QED BY ZoneInvariant, <1>1, PTL

(* When all is settled the card holds the newest zone confirmed, unless a  *)
(* failure took it; of two commands read at once it holds an older zone.   *)
THEOREM NewestStored == Spec => []ZoneStored
<1>1. ZoneInv => ZoneStored
  <2> SUFFICES ASSUME ZoneInv PROVE ZoneStored
    OBVIOUS
  <2>1. ASSUME lost = "merged", Settled PROVE \E c \in 1 .. Len(confirmed) - 1 : OnCard(c)
    BY <2>1 DEF ZoneInv, MergedLeaves, Settled, Older, OnCard
  <2> QED BY <2>1 DEF ZoneInv, NewestFirst, ZoneStored
<1> QED BY ZoneInvariant, <1>1, PTL

(* The types: what the server computes of four points are whole            *)
(* hundredths, and four numbers stay four numbers on their way.            *)
THEOREM CalibrationTyped == Spec => []CalibrationTypeOK
<1>1. Spec => []ZoneTypes
  BY ZoneTypesInit, ZoneTypesStep, ZoneInvariant, PTL DEF Spec
<1>2. ZoneInv /\ ZoneTypes => CalibrationTypeOK
  <2> SUFFICES ASSUME ZoneInv, ZoneTypes PROVE CalibrationTypeOK
    OBVIOUS
  <2>1. line \in Seq([1 .. 4 -> Int])
    <3>1. {SetText(z) : z \in Zones} \subseteq [1 .. 4 -> Int]
      BY ZonesTyped, TextTyped
    <3> DEFINE T == {SetText(z) : z \in Zones}
    <3>2. line \in Seq(T) /\ T \subseteq [1 .. 4 -> Int]
      BY <3>1 DEF ZoneInv, StageTypes
    <3> HIDE DEF T
    <3>3. Len(line) \in Nat /\ line \in [1 .. Len(line) -> [1 .. 4 -> Int]]
      BY <3>2
    <3> QED BY <3>3
  <2>2. confirmed \in Seq(Zone)
    <3>1. confirmed \in Seq(Zones) /\ Zones \subseteq Zone
      BY ZonesTyped DEF ZoneInv, StageTypes
    <3> HIDE DEF Zones
    <3>2. Len(confirmed) \in Nat /\ confirmed \in [1 .. Len(confirmed) -> Zone]
      BY <3>1
    <3> QED BY <3>2
  <2>3. page \in {"closed", "open", "timer", "dialog"} /\ loc_ls \in Seq(Points)
    BY DEF ZoneInv, PageInv
  <2>4. post \in Seq(Quadruple) /\ web \in {"read", "open", "close", "exited"}
        /\ lost \in {"no", "upload", "merged", "card", "power"}
    BY DEF ZoneInv, StageTypes
  <2> QED BY <2>1, <2>2, <2>3, <2>4, Zenon DEF ZoneTypes, CalibrationTypeOK
<1> QED BY <1>1, <1>2, ZoneInvariant, PTL

(* The limits do not depend on the order of the clicks.                    *)
THEOREM ClickOrder == Spec => []ClickOrderIrrelevant
<1>1. ZoneInv => ClickOrderIrrelevant
  <2> SUFFICES ASSUME ZoneInv, page = "timer", NEW a \in 1 .. 3
               PROVE  LimitsOf[Swapped(obj, a)] = LimitsOf[obj]
    BY DEF ClickOrderIrrelevant
  <2>1. obj \in Quadruple /\ obj \in [1 .. 4 -> Points]
    BY DEF ZoneInv, PageInv, Quadruple
  <2>2. Swapped(obj, a) \in [1 .. 4 -> Points]
    BY <2>1 DEF Swapped
  <2>3. WithinBounds(Swapped(obj, a)) /\ Limits(Swapped(obj, a)) = Limits(obj)
    BY <2>1, QuadrupleZone, SwapLimits
  <2>4. Swapped(obj, a) \in Quadruple
    BY <2>2, <2>3 DEF Quadruple
  <2> QED BY <2>1, <2>3, <2>4, QuadrupleZone
<1> QED BY ZoneInvariant, <1>1, PTL

(* The lower limits are where the edges meet the bottom, or the border of  *)
(* the picture where the code cuts them off.                               *)
THEOREM LowerLimitsMeet == Spec => []LowerLimitsRight
<1>1. ZoneInv => LowerLimitsRight
  <2> SUFFICES ASSUME ZoneInv, page = "timer"
               PROVE  LET s == ByY(obj)
                          z == LimitsOf[obj]
                      IN  /\ LeftRight(z.lb, Left(s[1], s[2]), Left(s[3], s[4]))
                          /\ RightRight(z.rb, Right(s[1], s[2]), Right(s[3], s[4]))
    BY DEF LowerLimitsRight
  <2>1. obj \in Quadruple
    BY DEF ZoneInv, PageInv
  <2>2. obj \in [1 .. 4 -> Point] /\ WithinBounds(obj) /\ LimitsOf[obj] = Limits(obj)
    BY <2>1, QuadrupleZone
  <2> QED BY <2>2, LowerLimits
<1> QED BY ZoneInvariant, <1>1, PTL
=============================================================================
