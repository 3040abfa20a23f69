-------------------------- MODULE SoccerGame_proofs --------------------------
(***************************************************************************)
(* The match for any players, teams, durations and play modes of the       *)
(* trainer.  The lemmas follow SoccerRuleAspect::Update: one for each      *)
(* operator, then one for the switch over the play mode.                   *)
(***************************************************************************)
EXTENDS SoccerGame, FiniteSetTheorems, TLAPS

Numbers ==
  /\ {HalfTime, WaitBeforeKickOff, GoalPauseTime, KickInPauseTime,
      DropBallTime, KickMargin, KickDuration, PassDuration, ScoreWait,
      RetryWait, QuitTime, MaxTouches, MaxRequests} \subseteq Nat
  /\ SingleHalfTime \in BOOLEAN /\ ChangeSides \in BOOLEAN

LEMMA NumbersOk == Numbers
BY SoccerAssumption DEF Numbers

(* A match whose clock is sound: the mode was set at a time that has been. *)
Sound(m) == m \in Matches /\ m.lastChange <= m.time

(* Within an update the mode stays, or it is set anew at this time.        *)
Follows(m, n) ==
  /\ Sound(n) /\ n.time = m.time
  /\ \/ n.mode = m.mode /\ n.lastChange = m.lastChange
     \/ n.lastChange = m.time

(* Besides kick-offs and the end of a half, an update leaves alone who     *)
(* plays where and what is known of the kick-offs.                         *)
Keeps(m, n) ==
  /\ n.half = m.half /\ n.left = m.left
  /\ n.lastKickOffHalf = m.lastKickOffHalf /\ n.nextKickOff = m.nextKickOff

Plays(m, n) == Follows(m, n) /\ Keeps(m, n)

(* What the play modes leave alone, or may not.                            *)
LEMMA ModeKinds ==
  /\ BeforeKickOff \in Modes /\ PlayOn \in Modes /\ GameOver \in Modes
  /\ \A k \in Restarts \union {"Pass", "Goal", "Offside"}, s \in Sides :
       Mode(k, s) \in Modes /\ Mode(k, s)[1] = k /\ Mode(k, s)[2] = s
  /\ PlayOn[1] \notin Restarts /\ BeforeKickOff[1] \notin Restarts /\ GameOver[1] \notin Restarts
BY DEF Modes, Mode, BeforeKickOff, PlayOn, GameOver, Restarts, PlacedKicks, Sides

LEMMA OpponentSide == \A s \in Sides : Opponent(s) \in Sides /\ Opponent(s) # s
BY DEF Sides, Opponent

LEMMA SideOfSide == ASSUME NEW m, NEW p PROVE SideOf(m, p) \in Sides
BY DEF SideOf, Sides

LEMMA TeamOnTeam == ASSUME NEW m, m.left \in Teams, NEW s PROVE TeamOn(m, s) \in Teams
<1>1. \E t \in Teams : t # m.left
  BY SoccerAssumption DEF Teams
<1> QED BY <1>1 DEF TeamOn

LEMMA SetPlayModeOk ==
  ASSUME NEW m, Sound(m), NEW mode \in Modes
  PROVE  Plays(m, SetPlayMode(m, mode)) /\ SetPlayMode(m, mode).mode = mode
<1>1. CASE m.mode = mode
  BY <1>1 DEF SetPlayMode, Plays, Keeps, Follows, Sound
<1>2. CASE m.mode # mode
  <2> DEFINE n == [m EXCEPT !.mode = mode, !.lastChange = m.time, !.lead = 0, !.fup = 0]
  <2>1. n \in Matches
    BY DEF Matches, Sound
  <2>2. n.mode = mode /\ n.lastChange = m.time /\ n.time = m.time /\ m.time \in Nat
    BY DEF Matches, Sound
  <2>3. SetPlayMode(m, mode) = n
    BY <1>2 DEF SetPlayMode
  <2>4. Keeps(m, n)
    BY DEF Keeps, Matches, Sound
  <2> HIDE DEF n
  <2> QED BY <2>1, <2>2, <2>3, <2>4 DEF Plays, Follows, Sound
<1> QED BY <1>1, <1>2

LEMMA FollowsTwice ==
  ASSUME NEW m, NEW n, NEW o, Sound(m), Follows(m, n), Follows(n, o)
  PROVE  Follows(m, o)
BY DEF Follows

LEMMA PlaysTwice ==
  ASSUME NEW m, NEW n, NEW o, Sound(m), Plays(m, n), Plays(n, o)
  PROVE  Plays(m, o)
BY FollowsTwice DEF Plays, Keeps

(* A change of other fields only.                                          *)
Same(m, n) ==
  /\ n \in Matches
  /\ n.time = m.time /\ n.mode = m.mode /\ n.lastChange = m.lastChange
  /\ Keeps(m, n)

LEMMA SamePlays == ASSUME NEW m, Sound(m), NEW n, Same(m, n) PROVE Plays(m, n) /\ Sound(n)
BY DEF Plays, Keeps, Follows, Sound, Same
-----------------------------------------------------------------------------
LEMMA KickOffByOk ==
  ASSUME NEW m, Sound(m), NEW s \in Sides
  PROVE  LET o == KickOffBy(m, s)
         IN  /\ Follows(m, o) /\ o.mode = Mode("KickOff", s)
             /\ o.half = m.half /\ o.left = m.left
             /\ o.lastKickOffHalf = m.half /\ o.nextKickOff = m.nextKickOff
<1> DEFINE n == SetPlayMode(m, Mode("KickOff", s))
           o == [n EXCEPT !.lastKickOffHalf = m.half]
<1>1. Mode("KickOff", s) \in Modes
  BY ModeKinds DEF Restarts
<1>2. Plays(m, n) /\ n.mode = Mode("KickOff", s)
  BY <1>1, SetPlayModeOk
<1>3. m.half \in {"first", "second"}
  BY DEF Sound, Matches
<1>4. KickOffBy(m, s) = o
  BY DEF KickOffBy
<1> HIDE DEF n
<1>5. Sound(n)
  BY <1>2 DEF Plays, Follows
<1>6. /\ Follows(n, o) /\ o.mode = n.mode
      /\ o.half = n.half /\ o.left = n.left
      /\ o.lastKickOffHalf = m.half /\ o.nextKickOff = n.nextKickOff
  BY <1>3, <1>5 DEF Follows, Sound, Matches
<1> QED BY <1>2, <1>4, <1>6, FollowsTwice DEF Plays, Keeps

LEMMA KickOffsOk ==
  ASSUME NEW m, Sound(m), NEW s \in Sides \union {"none"}, NEW o \in KickOffs(m, s)
  PROVE  /\ Follows(m, o) /\ o.half = m.half /\ o.left = m.left /\ o.lastKickOffHalf = m.half
         /\ \E c \in Sides :
              /\ o.mode = Mode("KickOff", c)
              /\ \/ s = c /\ o.nextKickOff = m.nextKickOff
                 \/ m.half = m.lastKickOffHalf /\ o.nextKickOff = m.nextKickOff
                 \/ /\ s = "none" /\ m.half # m.lastKickOffHalf
                    /\ m.nextKickOff = "none" \/ c = m.nextKickOff
                    /\ o.nextKickOff = IF ChangeSides THEN c ELSE Opponent(c)
<1>1. ASSUME NEW c \in Sides, o = KickOffBy(m, c), s = c \/ m.half = m.lastKickOffHalf
      PROVE  /\ Follows(m, o) /\ o.half = m.half /\ o.left = m.left /\ o.lastKickOffHalf = m.half
             /\ \/ s = c /\ o.nextKickOff = m.nextKickOff
                \/ m.half = m.lastKickOffHalf /\ o.nextKickOff = m.nextKickOff
             /\ o.mode = Mode("KickOff", c)
  BY <1>1, KickOffByOk
<1>2. ASSUME NEW c \in Sides, NEW d \in Sides, o = [KickOffBy(m, c) EXCEPT !.nextKickOff = d]
      PROVE  /\ Follows(m, o) /\ o.half = m.half /\ o.left = m.left /\ o.lastKickOffHalf = m.half
             /\ o.mode = Mode("KickOff", c) /\ o.nextKickOff = d
  <2> DEFINE n == KickOffBy(m, c)
  <2>2. /\ Follows(m, n) /\ n.mode = Mode("KickOff", c)
        /\ n.half = m.half /\ n.left = m.left /\ n.lastKickOffHalf = m.half
    BY KickOffByOk
  <2>3. o = [n EXCEPT !.nextKickOff = d]
    BY <1>2
  <2> HIDE DEF n
  <2>4. Sound(n)
    BY <2>2 DEF Follows
  <2>5. /\ Follows(n, o) /\ o.mode = n.mode /\ o.nextKickOff = d
        /\ o.half = n.half /\ o.left = n.left /\ o.lastKickOffHalf = n.lastKickOffHalf
    BY <2>3, <2>4 DEF Follows, Sound, Matches
  <2> QED BY <2>2, <2>5, FollowsTwice
<1>3. m.nextKickOff \in Sides \union {"none"} /\ \A c \in Sides : Opponent(c) \in Sides /\ c # "none"
  BY OpponentSide DEF Sound, Matches, Sides
<1>4. CASE s # "none"
  <2>1. s \in Sides /\ o = KickOffBy(m, s)
    BY <1>4 DEF KickOffs
  <2> QED BY <2>1, <1>1
<1>5. CASE s = "none" /\ m.half = m.lastKickOffHalf
  <2>1. PICK c \in Sides : o = KickOffBy(m, c)
    BY <1>5 DEF KickOffs
  <2> QED BY <2>1, <1>5, <1>1
<1>6. CASE s = "none" /\ m.half # m.lastKickOffHalf
  <2>1. PICK c \in IF m.nextKickOff = "none" THEN Sides ELSE {m.nextKickOff} :
          o = [KickOffBy(m, c) EXCEPT !.nextKickOff = IF ChangeSides THEN c ELSE Opponent(c)]
    BY <1>6 DEF KickOffs
  <2>2. c \in Sides /\ (m.nextKickOff = "none" \/ c = m.nextKickOff)
    BY <2>1, <1>3
  <2>3. (IF ChangeSides THEN c ELSE Opponent(c)) \in Sides
    BY <2>2, <1>3
  <2> QED BY <2>1, <2>2, <2>3, <1>2, <1>6
<1> QED BY <1>4, <1>5, <1>6

(* Time is up: the first half of two turns into the second, with the sides *)
(* swapped or not.                                                         *)
Turns(m, n) ==
  /\ ~SingleHalfTime /\ m.half = "first" /\ m.time >= HalfTime
  /\ n.half = "second" /\ n.mode = BeforeKickOff
  /\ n.left = IF ChangeSides THEN TeamOn(m, "right") ELSE m.left
  /\ n.lastKickOffHalf = m.lastKickOffHalf /\ n.nextKickOff = m.nextKickOff

(* Or it is not, or the match is over.                                     *)
OverOrOn(m, n) ==
  /\ Keeps(m, n)
  /\ m.half = "first" /\ m.time >= HalfTime => SingleHalfTime
  /\ \/ n.mode = GameOver /\ m.time >= (IF m.half = "first" THEN HalfTime ELSE 2 * HalfTime)
     \/ n.mode = m.mode

LEMMA CheckTimeOk ==
  ASSUME NEW m, Sound(m)
  PROVE  Follows(m, CheckTime(m)) /\ (Turns(m, CheckTime(m)) \/ OverOrOn(m, CheckTime(m)))
<1>1. Plays(m, m) /\ Plays(m, SetPlayMode(m, GameOver)) /\ SetPlayMode(m, GameOver).mode = GameOver
  BY SetPlayModeOk, ModeKinds DEF Plays, Keeps, Follows
<1> DEFINE n == SetPlayMode(m, BeforeKickOff)
           t == IF ChangeSides THEN TeamOn(m, "right") ELSE n.left
           o == [n EXCEPT !.half = "second", !.left = t]
<1>2. Plays(m, n) /\ n.mode = BeforeKickOff
  BY SetPlayModeOk, ModeKinds
<1>3. t \in Teams /\ t = IF ChangeSides THEN TeamOn(m, "right") ELSE m.left
  <2>1. m.left \in Teams /\ n.left = m.left
    BY <1>2 DEF Plays, Keeps, Sound, Matches
  <2> HIDE DEF n
  <2> QED BY <2>1, TeamOnTeam
<1>4. CASE m.half = "first" /\ m.time >= HalfTime /\ ~SingleHalfTime
  <2>1. CheckTime(m) = o
    BY <1>4 DEF CheckTime
  <2> HIDE DEF n
  <2>2. Sound(n)
    BY <1>2 DEF Plays, Follows
  <2>3. t \in Teams
    BY <1>3
  <2> HIDE DEF t
  <2>4. /\ Follows(n, o) /\ o.mode = n.mode /\ o.half = "second" /\ o.left = t
        /\ o.lastKickOffHalf = n.lastKickOffHalf /\ o.nextKickOff = n.nextKickOff
    BY <2>2, <2>3 DEF Follows, Sound, Matches
  <2>5. Turns(m, o)
    BY <1>2, <1>3, <1>4, <2>4 DEF Turns, Plays, Keeps
  <2> QED BY <2>1, <2>4, <2>5, <1>2, FollowsTwice DEF Plays
<1>5. CASE ~(m.half = "first" /\ m.time >= HalfTime /\ ~SingleHalfTime)
  <2>1. \/ /\ CheckTime(m) = SetPlayMode(m, GameOver)
           /\ m.time >= (IF m.half = "first" THEN HalfTime ELSE 2 * HalfTime)
           /\ m.half = "first" /\ m.time >= HalfTime => SingleHalfTime
        \/ /\ CheckTime(m) = m
           /\ ~(m.half = "first" /\ m.time >= HalfTime)
    BY <1>5, NumbersOk DEF CheckTime, Numbers
  <2> QED BY <2>1, <1>1 DEF OverOrOn, Plays
<1> QED BY <1>4, <1>5

LEMMA AllowOk ==
  ASSUME NEW m, Sound(m), NEW b, NEW place
  PROVE  LET n == AllowKickOffTeam(m, b, place) IN Same(m, n) /\ Plays(m, n)
<1> DEFINE s == SideOf(m, m.koTaker)
           v == Opponent(s) \in b.sides \/ (s \in b.sides /\ place # InCircle)
<1>1. v \in BOOLEAN
  OBVIOUS
<1>2. AllowKickOffTeam(m, b, place) = IF m.allow THEN m ELSE [m EXCEPT !.allow = v]
  BY Zenon DEF AllowKickOffTeam
<1> HIDE DEF v
<1>3. Same(m, m) /\ Same(m, [m EXCEPT !.allow = v])
  BY <1>1 DEF Same, Keeps, Sound, Matches
<1> QED BY <1>2, <1>3, SamePlays
-----------------------------------------------------------------------------
LEMMA AwardOk ==
  ASSUME NEW m, Sound(m), NEW mode \in Modes
  PROVE  Plays(m, Award(m, mode)) /\ Award(m, mode).mode = mode
<1> DEFINE n == SetPlayMode(m, mode)
<1>1. Plays(m, n) /\ n.mode = mode
  BY SetPlayModeOk
<1>2. Award(m, mode) = [n EXCEPT !.repel = TRUE]
  BY DEF Award
<1> HIDE DEF n
<1>3. Same(n, [n EXCEPT !.repel = TRUE]) /\ Sound(n)
  BY <1>1 DEF Same, Keeps, Plays, Keeps, Follows, Sound, Matches
<1> QED BY <1>1, <1>2, <1>3, SamePlays, PlaysTwice DEF Same, Keeps

LEMMA ResetOk == ASSUME NEW m, Sound(m) PROVE Same(m, ResetKickChecks(m))
<1>1. [t \in Teams |-> Never] \in [Teams -> Int]
  BY DEF Never
<1> QED BY <1>1 DEF ResetKickChecks, Same, Keeps, Sound, Matches

LEMMA DropOk == ASSUME NEW m, Sound(m) PROVE Plays(m, DropBall(m)) /\ DropBall(m).mode = PlayOn
<1> DEFINE n == ResetKickChecks(m)
<1>1. Plays(m, n) /\ Sound(n)
  BY ResetOk, SamePlays
<1> HIDE DEF n
<1>2. Plays(n, SetPlayMode(n, PlayOn)) /\ SetPlayMode(n, PlayOn).mode = PlayOn
  BY <1>1, SetPlayModeOk, ModeKinds
<1> QED BY <1>1, <1>2, PlaysTwice DEF DropBall, n

(* The ball as BallStateAspect leaves it.                                  *)
Balls == [toucher : MaybePlayer, time : Nat, sides : SUBSET Sides]

LEMMA TakeOk ==
  ASSUME NEW m, Sound(m), NEW b \in Balls, NEW i \in BOOLEAN
  PROVE  Plays(m, TakeKick(m, b, i)) /\ TakeKick(m, b, i).mode = PlayOn
<1> DEFINE n == SetKickTakenValues(m, b, i)
<1>1. Same(m, n)
  BY DEF SetKickTakenValues, Same, Keeps, Sound, Matches, Balls
<1>2. TakeKick(m, b, i) = SetPlayMode(n, PlayOn)
  BY DEF TakeKick
<1>3. Plays(m, n) /\ Sound(n)
  BY <1>1, SamePlays
<1> HIDE DEF n
<1>4. Plays(n, SetPlayMode(n, PlayOn)) /\ SetPlayMode(n, PlayOn).mode = PlayOn
  BY <1>3, SetPlayModeOk, ModeKinds
<1> QED BY <1>2, <1>3, <1>4, PlaysTwice
-----------------------------------------------------------------------------
(* The ball in play.                                                       *)

LEMMA HitsSeq == ASSUME NEW h \in Hits PROVE h \in Seq(Players) /\ Len(h) <= 2
<1>1. CASE h = <<>>
  BY <1>1
<1>2. ASSUME NEW p \in Players, h = <<p>> PROVE h \in Seq(Players) /\ Len(h) <= 2
  BY <1>2
<1>3. ASSUME NEW p \in Players, NEW q \in Players, h = <<p, q>>
      PROVE  h \in Seq(Players) /\ Len(h) <= 2
  BY <1>3
<1>4. h \in Collisions
  BY DEF Hits
<1> DEFINE One == {<<p>> : p \in Players}
           Two == {<<p, q>> : p, q \in Players}
<1>5. h = <<>> \/ h \in One \/ h \in Two
  BY <1>4 DEF Collisions
<1>6. h \in One => \E p \in Players : h = <<p>>
  OBVIOUS
<1>7. h \in Two => \E p \in Players, q \in Players : h = <<p, q>>
  OBVIOUS
<1> HIDE DEF One, Two
<1> QED BY <1>1, <1>2, <1>3, <1>5, <1>6, <1>7, Zenon

LEMMA FirstIsOwn ==
  ASSUME NEW h \in Hits, NEW own \in SUBSET DOMAIN h, own # {}
  PROVE  \E i \in own : h[CHOOSE k \in own : \A j \in own : k <= j] = h[i]
<1>1. h \in Seq(Players) /\ Len(h) <= 2
  BY HitsSeq
<1>2. own \subseteq {1, 2}
  BY <1>1
<1>3. \E i \in own : \A j \in own : i <= j
  <2>1. CASE 1 \in own
    BY <2>1, <1>2
  <2>2. CASE 1 \notin own
    BY <2>2, <1>2
  <2> QED BY <2>1, <2>2
<1> QED BY <1>3

LEMMA FirstOwn ==
  ASSUME NEW h \in Hits, NEW own \in SUBSET DOMAIN h, own # {}
  PROVE  h[CHOOSE i \in own : \A j \in own : i <= j] \in Players
<1>1. PICK i \in own : h[CHOOSE k \in own : \A j \in own : k <= j] = h[i]
  BY FirstIsOwn
<1>2. h[i] \in Players
  BY HitsSeq
<1> QED BY <1>1, <1>2

LEMMA PassChecksOk ==
  ASSUME NEW m, Sound(m), NEW h \in Hits, NEW away \in BOOLEAN
  PROVE  Same(m, UpdatePassChecks(m, h, away)) /\ Plays(m, UpdatePassChecks(m, h, away))
<1> DEFINE s      == IF WaitsToScore(m, "left") THEN "left" ELSE "right"
           own    == {i \in DOMAIN h : SideOf(m, h[i]) = s}
           first  == h[CHOOSE i \in own : \A j \in own : i <= j]
           last   == m.touched[s]
           passed == /\ own # {}
                     /\ \/ \E i, j \in own : i # j
                        \/ last # NoPlayer /\ (first # last \/ m.several[s])
           left   == m.leftCircle[s] \/ away
           c      == IF own = {} \/ last # NoPlayer THEN last ELSE first
           d      == m.several[s] \/ passed
           t      == TeamOn(m, s)
           e      == m.cleared[t] \/ (passed /\ left)
           n      == [m EXCEPT !.leftCircle[s] = left, !.touched[s] = c,
                               !.several[s] = d, !.cleared[t] = e]
<1>1. UpdatePassChecks(m, h, away) = m \/ UpdatePassChecks(m, h, away) = n
  BY Zenon DEF UpdatePassChecks
<1>2. s \in Sides
  BY DEF Sides
<1>3. c \in MaybePlayer
  <2>1. last \in MaybePlayer
    BY <1>2 DEF Sound, Matches
  <2>2. own # {} => first \in Players
    BY FirstOwn
  <2> HIDE DEF own, first, last
  <2> QED BY <2>1, <2>2 DEF MaybePlayer
<1>4. left \in BOOLEAN /\ d \in BOOLEAN /\ e \in BOOLEAN
  OBVIOUS
<1>5. t \in Teams
  <2>1. m.left \in Teams
    BY DEF Sound, Matches
  <2> QED BY <2>1, TeamOnTeam
<1> HIDE DEF left, c, d, e, t, s
<1>6. Same(m, n) /\ Same(m, m)
  BY <1>2, <1>3, <1>4, <1>5 DEF Same, Keeps, Sound, Matches
<1> QED BY <1>1, <1>6, SamePlays

LEMMA PunishOk ==
  ASSUME NEW m, Sound(m), NEW p, NEW s \in Sides
  PROVE  Plays(m, PunishIndirectKickGoal(m, p, s))
<1> DEFINE n == [m EXCEPT !.indirect = FALSE]
<1>1. Same(m, n)
  BY DEF Same, Keeps, Sound, Matches
<1>2. \A mode \in Modes : Plays(n, Award(n, mode))
  BY <1>1, SamePlays, AwardOk
<1>3. Mode("CornerKick", Opponent(s)) \in Modes /\ Mode("GoalKick", s) \in Modes
  BY ModeKinds, OpponentSide DEF Restarts, PlacedKicks
<1>4. PunishIndirectKickGoal(m, p, s) \in
        {Award(n, Mode("CornerKick", Opponent(s))), Award(n, Mode("GoalKick", s))}
  BY DEF PunishIndirectKickGoal
<1> HIDE DEF n
<1> QED BY <1>1, <1>2, <1>3, <1>4, SamePlays, PlaysTwice

LEMMA TakerFoulOk ==
  ASSUME NEW m, Sound(m), NEW b PROVE Plays(m, CheckFreeKickTakerFoul(m, b))
<1> DEFINE n == [m EXCEPT !.checkFoul = FALSE, !.indirect = FALSE]
           k == Mode("FreeKick", Opponent(SideOf(m, m.taker)))
<1>1. Same(m, n) /\ Same(m, m)
  BY DEF Same, Keeps, Sound, Matches
<1>2. k \in Modes
  BY ModeKinds, OpponentSide, SideOfSide DEF Restarts, PlacedKicks
<1>3. CheckFreeKickTakerFoul(m, b) \in {m, n, Award(n, k)}
  BY DEF CheckFreeKickTakerFoul
<1> HIDE DEF n, k
<1>4. Plays(n, Award(n, k))
  BY <1>1, <1>2, SamePlays, AwardOk
<1> QED BY <1>1, <1>3, <1>4, SamePlays, PlaysTwice

LEMMA GoalOk ==
  ASSUME NEW m, Sound(m), NEW b, NEW s \in Sides PROVE Plays(m, CheckGoal(m, b, s))
<1>1. Mode("GoalKick", s) \in Modes /\ Mode("Goal", Opponent(s)) \in Modes
  BY ModeKinds, OpponentSide DEF Restarts, PlacedKicks
<1>2. CheckGoal(m, b, s) \in
        {PunishIndirectKickGoal(m, m.koTaker, s), PunishIndirectKickGoal(m, b.toucher, s),
         Award(m, Mode("GoalKick", s)), SetPlayMode(m, Mode("Goal", Opponent(s)))}
  BY Zenon DEF CheckGoal
<1> QED BY <1>1, <1>2, PunishOk, AwardOk, SetPlayModeOk

LEMMA LeftFieldOk ==
  ASSUME NEW m, Sound(m), NEW b, NEW place \in Places
  PROVE  Plays(m, CheckBallLeftField(m, b, place))
<1> DEFINE s == SideOf(m, b.toucher)
<1>1. s \in Sides /\ Opponent(s) \in Sides
  BY SideOfSide, OpponentSide
<1>2. place[1] = "end" => place[2] \in Sides
  BY DEF Places, InCircle, Beside, InArea, At, Sides
<1>3. /\ Mode("KickIn", Opponent(s)) \in Modes /\ Mode("CornerKick", Opponent(s)) \in Modes
      /\ place[1] = "end" => Mode("GoalKick", place[2]) \in Modes
  BY <1>1, <1>2, ModeKinds DEF Restarts, PlacedKicks
<1>4. \/ CheckBallLeftField(m, b, place) \in
           {m, Award(m, Mode("KickIn", Opponent(s))), Award(m, Mode("CornerKick", Opponent(s)))}
      \/ place[1] = "end" /\ CheckBallLeftField(m, b, place) = Award(m, Mode("GoalKick", place[2]))
  BY DEF CheckBallLeftField
<1>5. Plays(m, m)
  BY DEF Plays, Keeps, Follows
<1> QED BY <1>3, <1>4, <1>5, AwardOk

LEMMA PlayOnOk ==
  ASSUME NEW m, Sound(m), NEW b, NEW h \in Hits, NEW place \in Places, NEW away \in BOOLEAN
  PROVE  Plays(m, UpdatePlayOn(m, b, h, place, away))
<1> DEFINE n == UpdatePassChecks(m, h, away)
           f == CheckFreeKickTakerFoul(n, b)
           o == UpdatePlayOn(m, b, h, place, away)
<1>1. Plays(m, n) /\ Sound(n)
  BY PassChecksOk DEF Plays, Keeps, Follows
<1>2. Plays(n, f) /\ Sound(f)
  BY <1>1, TakerFoulOk DEF Plays, Keeps, Follows
<1>3. place[1] = "goal" => place[2] \in Sides
  BY DEF Places, InCircle, Beside, InArea, At, Sides
<1>4. \/ o \in {f, CheckBallLeftField(f, b, place)}
      \/ place[1] = "goal" /\ o = CheckGoal(f, b, place[2])
  BY DEF UpdatePlayOn
<1>5. Plays(f, f)
  BY <1>2 DEF Plays, Keeps, Follows
<1> HIDE DEF n, f, o
<1>6. Plays(f, o)
  BY <1>2, <1>3, <1>4, <1>5, GoalOk, LeftFieldOk
<1>7. Plays(m, f)
  BY <1>1, <1>2, PlaysTwice
<1>8. Plays(m, o)
  BY <1>6, <1>7, PlaysTwice
<1> QED BY <1>8 DEF o

LEMMA PassModeOk ==
  ASSUME NEW m, Sound(m), NEW s \in Sides, NEW b, NEW h \in Hits,
         NEW place \in Places, NEW away \in BOOLEAN
  PROVE  Plays(m, UpdatePassMode(m, s, b, h, place, away))
<1> DEFINE t == TeamOn(m, s)
           r == [u \in Teams |-> IF u = t THEN m.time ELSE Never]
           n == [m EXCEPT !.passTime = r,
                          !.touched[s] = NoPlayer, !.several[s] = FALSE,
                          !.leftCircle[s] = FALSE, !.cleared[t] = FALSE]
           k == SetPlayMode(n, PlayOn)
<1>1. m.left \in Teams /\ m.time \in Nat
  BY DEF Sound, Matches
<1>2. t \in Teams /\ r \in [Teams -> Int]
  BY <1>1, TeamOnTeam DEF Never
<1>3. \/ UpdatePassMode(m, s, b, h, place, away) = UpdatePlayOn(n, b, h, place, away)
      \/ UpdatePassMode(m, s, b, h, place, away) = UpdatePlayOn(k, b, h, place, away)
  BY Zenon DEF UpdatePassMode
<1> HIDE DEF t, r
<1>4. Same(m, n)
  BY <1>2 DEF Same, Keeps, Sound, Matches, MaybePlayer
<1> HIDE DEF n
<1>5. Plays(m, n) /\ Sound(n)
  BY <1>4, SamePlays
<1>6. Plays(m, k) /\ Sound(k)
  BY <1>5, SetPlayModeOk, ModeKinds, PlaysTwice DEF Plays, Keeps, Follows
<1> HIDE DEF k
<1> QED BY <1>3, <1>5, <1>6, PlayOnOk, PlaysTwice
-----------------------------------------------------------------------------
(* Before the game, between its parts and after it.                        *)

LEMMA BeforeOk ==
  ASSUME NEW m, Sound(m), NEW o \in UpdateBeforeKickOff(m)
  PROVE  /\ Follows(m, o)
         /\ \/ Same(m, o)
            \/ \E n : Same(m, n) /\ Sound(n) /\ o \in KickOffs(n, "none")
<1> DEFINE n == [m EXCEPT !.origin = IF @ > m.lead THEN m.lead ELSE @]
<1>1. o = n \/ o \in KickOffs(n, "none")
  BY Zenon DEF UpdateBeforeKickOff
<1>2. Same(m, n)
  BY DEF Same, Keeps, Sound, Matches
<1> HIDE DEF n
<1>3. Follows(m, n) /\ Sound(n)
  BY <1>2, SamePlays DEF Plays
<1> QED BY <1>1, <1>2, <1>3, KickOffsOk, FollowsTwice

(* A kick-off or a placed kick that waited too long is over.               *)
Ends(m, o) == TooOld(m) => o.mode = PlayOn

LEMMA KickOffModeOk ==
  ASSUME NEW m, Sound(m), NEW b \in Balls
  PROVE  Plays(m, UpdateKickOff(m, b)) /\ Ends(m, UpdateKickOff(m, b))
<1> DEFINE r == ResetKickChecks(m)
           n == [r EXCEPT !.allow = TRUE]
           k == TakeKick(n, b, TRUE)
           w == [k EXCEPT !.koTaker = b.toucher, !.allow = FALSE]
           o == UpdateKickOff(m, b)
<1>1. Same(m, r)
  BY ResetOk
<1>2. Same(m, n)
  <2> HIDE DEF r
  <2> QED BY <1>1 DEF Same, Keeps, Sound, Matches
<1>3. /\ TooOld(m) => o = DropBall(n)
      /\ o \in {DropBall(n), n, w, SetPlayMode(n, PlayOn)}
  BY DEF UpdateKickOff
<1> HIDE DEF n, o
<1>4. Plays(m, n) /\ Sound(n)
  BY <1>2, SamePlays
<1>5. Plays(m, DropBall(n)) /\ DropBall(n).mode = PlayOn
  BY <1>4, DropOk, PlaysTwice
<1>6. Plays(m, SetPlayMode(n, PlayOn))
  BY <1>4, SetPlayModeOk, ModeKinds, PlaysTwice
<1>7. Plays(m, w)
  <2>1. Plays(n, k) /\ Sound(k)
    BY <1>4, TakeOk DEF Plays, Keeps, Follows
  <2> HIDE DEF k
  <2>2. Same(k, w)
    BY <2>1 DEF Same, Keeps, Sound, Matches, Balls
  <2> QED BY <1>4, <2>1, <2>2, SamePlays, PlaysTwice
<1> HIDE DEF w
<1>8. Plays(m, o)
  BY <1>3, <1>4, <1>5, <1>6, <1>7
<1>9. Ends(m, o)
  BY <1>3, <1>5 DEF Ends
<1> QED BY <1>8, <1>9 DEF o

(* The pause before a placed kick is over before the ball is dropped.      *)
Patient == KickInPauseTime <= DropBallTime + 1

LEMMA PlacedOk ==
  ASSUME NEW m, Sound(m), NEW b, NEW waits \in BOOLEAN, NEW next, Plays(m, next)
  PROVE  /\ Plays(m, UpdatePlacedKick(m, b, waits, next))
         /\ Patient /\ ModeTime(m) \in Nat => Ends(m, UpdatePlacedKick(m, b, waits, next))
<1> DEFINE o == UpdatePlacedKick(m, b, waits, next)
           r == ResetKickChecks(m)
           n == [m EXCEPT !.repel = TRUE]
           w == [r EXCEPT !.repel = FALSE]
<1>1. o \in {n, DropBall(m), next, r, w}
  BY DEF UpdatePlacedKick
<1>2. Patient /\ ModeTime(m) \in Nat /\ TooOld(m) => o = DropBall(m)
  BY NumbersOk DEF UpdatePlacedKick, TooOld, Patient, Numbers
<1>3. Same(m, r) /\ Same(m, n)
  BY ResetOk DEF Same, Keeps, Sound, Matches
<1>4. Same(m, w)
  <2> HIDE DEF r
  <2> QED BY <1>3 DEF Same, Keeps, Sound, Matches
<1>5. Plays(m, DropBall(m)) /\ DropBall(m).mode = PlayOn
  BY DropOk
<1> HIDE DEF o, r, n, w
<1>6. Plays(m, o)
  BY <1>1, <1>3, <1>4, <1>5, SamePlays
<1>7. Patient /\ ModeTime(m) \in Nat => Ends(m, o)
  BY <1>2, <1>5 DEF Ends
<1> QED BY <1>6, <1>7 DEF o

LEMMA ResetTakeOk ==
  ASSUME NEW m, Sound(m), NEW b \in Balls, NEW i \in BOOLEAN
  PROVE  Plays(m, TakeKick(ResetKickChecks(m), b, i)) /\ Plays(m, ResetKickChecks(m))
<1> DEFINE r == ResetKickChecks(m)
<1>1. Plays(m, r) /\ Sound(r)
  BY ResetOk, SamePlays
<1> HIDE DEF r
<1>2. Plays(m, TakeKick(r, b, i))
  BY <1>1, TakeOk, PlaysTwice
<1> QED BY <1>1, <1>2 DEF r

LEMMA GoalModeOk ==
  ASSUME NEW m, Sound(m), m.mode[2] \in Sides, NEW o \in UpdateGoal(m) PROVE Follows(m, o)
<1>1. Follows(m, m)
  BY DEF Follows
<1>2. Opponent(m.mode[2]) \in Sides
  BY OpponentSide
<1> QED BY <1>1, <1>2, KickOffsOk DEF UpdateGoal

LEMMA GameOverOk == ASSUME NEW m, Sound(m) PROVE Plays(m, UpdateGameOver(m))
<1> DEFINE v == m.fup >= QuitTime
<1>1. v \in BOOLEAN
  OBVIOUS
<1>2. UpdateGameOver(m) = [m EXCEPT !.quit = v]
  BY DEF UpdateGameOver
<1> HIDE DEF v
<1>3. Same(m, [m EXCEPT !.quit = v])
  BY <1>1 DEF Same, Keeps, Sound, Matches
<1> QED BY <1>2, <1>3, SamePlays

(* The switch over the play mode.                                          *)
LEMMA ModeOk ==
  ASSUME NEW m, Sound(m), NEW b \in Balls, NEW h \in Hits, NEW place \in Places,
         NEW away \in BOOLEAN, NEW o \in UpdateMode(m, b, h, place, away)
  PROVE  /\ Follows(m, o)
         /\ Patient /\ ModeTime(m) \in Nat /\ m.mode[1] \in Restarts => Ends(m, o)
<1> DEFINE Good == /\ Follows(m, o)
                   /\ Patient /\ ModeTime(m) \in Nat /\ m.mode[1] \in Restarts => Ends(m, o)
           Take(i) == TakeKick(ResetKickChecks(m), b, i)
<1> SUFFICES Good
  OBVIOUS
<1>1. m.mode \in Modes /\ Follows(m, m)
  BY DEF Sound, Matches, Follows
<1>2. CASE m.mode = BeforeKickOff /\ o \in UpdateBeforeKickOff(m)
  BY <1>2, BeforeOk, ModeKinds
<1>3. CASE m.mode = PlayOn /\ o = UpdatePlayOn(m, b, h, place, away)
  BY <1>3, PlayOnOk, ModeKinds DEF Plays
<1>4. CASE o = UpdateKickOff(m, b)
  BY <1>4, KickOffModeOk DEF Plays
<1>5. ASSUME NEW waits \in BOOLEAN, NEW next,
             next \in {Take(TRUE), Take(FALSE), ResetKickChecks(m)},
             o = UpdatePlacedKick(m, b, waits, next)
      PROVE  Good
  <2>1. Plays(m, next)
    BY <1>5, ResetTakeOk
  <2> QED BY <1>5, <2>1, PlacedOk DEF Plays
<1>6. CASE o = UpdateFreeKick(m, b, TRUE) \/ o = UpdateFreeKick(m, b, FALSE) \/ o = UpdateKickIn(m, b)
  <2>1. o = UpdatePlacedKick(m, b, FALSE, Take(TRUE)) \/ o = UpdatePlacedKick(m, b, FALSE, Take(FALSE))
    BY <1>6 DEF UpdateFreeKick, UpdateKickIn
  <2> HIDE DEF Good, Take
  <2> QED BY <1>5, <2>1
<1>7. CASE o = UpdateGoalKick(m, b, place) \/ o = UpdateCornerKick(m, b)
  <2> DEFINE waits == b.toucher = NoPlayer
             next == IF place = InArea THEN ResetKickChecks(m) ELSE Take(FALSE)
  <2>2. o = UpdatePlacedKick(m, b, waits, next) \/ o = UpdatePlacedKick(m, b, waits, Take(FALSE))
    BY <1>7 DEF UpdateGoalKick, UpdateCornerKick
  <2>3. next \in {Take(TRUE), Take(FALSE), ResetKickChecks(m)}
    OBVIOUS
  <2>4. waits \in BOOLEAN
    OBVIOUS
  <2> HIDE DEF Good, Take, waits, next
  <2> QED BY <1>5, <2>2, <2>3, <2>4
<1>8. CASE m.mode[1] = "Pass" /\ o = UpdatePassMode(m, m.mode[2], b, h, place, away)
  <2>1. m.mode[2] \in Sides /\ m.mode[1] \notin Restarts
    BY <1>1, <1>8 DEF Modes, Mode, BeforeKickOff, PlayOn, GameOver, Restarts, PlacedKicks
  <2> QED BY <1>8, <2>1, PassModeOk DEF Plays
<1>9. CASE m.mode[1] = "Goal" /\ o \in UpdateGoal(m)
  <2>1. m.mode[2] \in Sides /\ m.mode[1] \notin Restarts
    BY <1>1, <1>9 DEF Modes, Mode, BeforeKickOff, PlayOn, GameOver, Restarts, PlacedKicks
  <2> QED BY <1>9, <2>1, GoalModeOk
<1>10. CASE m.mode = GameOver /\ o = UpdateGameOver(m)
  BY <1>10, GameOverOk, ModeKinds DEF Plays
<1>11. CASE m.mode[1] = "Offside" /\ o = m
  BY <1>1, <1>11 DEF Restarts, PlacedKicks
<1>12. \/ m.mode \in {BeforeKickOff, PlayOn, GameOver}
       \/ m.mode[1] \in Restarts \union {"Pass", "Goal", "Offside"}
  BY <1>1 DEF Modes
<1> QED BY <1>2, <1>3, <1>4, <1>6, <1>7, <1>8, <1>9, <1>10, <1>11, <1>12
        DEF UpdateMode, Restarts, PlacedKicks
-----------------------------------------------------------------------------
(* Type correctness, and the length of a restart.                          *)

LEMMA HitsAre ==
  ASSUME NEW h \in Hits
  PROVE  (h # <<>> => Head(h) \in Players) /\ Hitters(h) \subseteq Players
<1> DEFINE One == {<<p>> : p \in Players}
           Two == {<<p, q>> : p, q \in Players}
<1>1. h = <<>> \/ h \in One \/ h \in Two
  BY DEF Hits, Collisions
<1>2. h \in One => \E p \in Players : h = <<p>>
  OBVIOUS
<1>3. h \in Two => \E p \in Players, q \in Players : h = <<p, q>>
  OBVIOUS
<1> HIDE DEF One, Two
<1>4. CASE h = <<>>
  BY <1>4 DEF Hitters
<1>5. ASSUME NEW p \in Players, h = <<p>>
      PROVE  (h # <<>> => Head(h) \in Players) /\ Hitters(h) \subseteq Players
  BY <1>5 DEF Hitters
<1>6. ASSUME NEW p \in Players, NEW q \in Players, h = <<p, q>>
      PROVE  (h # <<>> => Head(h) \in Players) /\ Hitters(h) \subseteq Players
  <2>1. Head(h) = p /\ DOMAIN h = {1, 2} /\ h[1] = p /\ h[2] = q
    BY <1>6
  <2> QED BY <2>1 DEF Hitters
<1> QED BY <1>1, <1>2, <1>3, <1>4, <1>5, <1>6, Zenon

LEMMA BallOk ==
  ASSUME ball \in Balls, NEW m, Sound(m), NEW h \in Hits PROVE UpdateBall(m, h) \in Balls
<1>1. {SideOf(m, p) : p \in Hitters(h)} \subseteq Sides
  BY SideOfSide
<1>2. m.time \in Nat
  BY DEF Sound, Matches
<1> QED BY <1>1, <1>2, HitsAre DEF UpdateBall, Balls, MaybePlayer

LEMMA TimeOk ==
  ASSUME NEW m, Sound(m)
  PROVE  LET n == UpdateTime(m)
         IN  /\ Sound(n) /\ n.mode = m.mode /\ n.lastChange = m.lastChange
             /\ n.time \in {m.time, m.time + 1} /\ Keeps(m, n)
             /\ m.mode = BeforeKickOff => n.time = m.time
<1> DEFINE a == [m EXCEPT !.lead = @ + 1]
           f == [m EXCEPT !.fup = @ + 1]
           t == [m EXCEPT !.time = @ + 1]
           n == UpdateTime(m)
<1>1. n \in {a, f, t}
  BY DEF UpdateTime
<1>2. Same(m, a) /\ Same(m, f)
  BY DEF Same, Keeps, Sound, Matches
<1>3. /\ t \in Matches /\ t.time = m.time + 1 /\ t.mode = m.mode /\ t.lastChange = m.lastChange
      /\ Keeps(m, t)
  BY DEF Sound, Matches, Keeps
<1>4. m.time \in Nat /\ m.lastChange \in Nat /\ m.lastChange <= m.time
  BY DEF Sound, Matches
<1>5. m.mode = BeforeKickOff => n = a
  <2>1. BeforeKickOff # GameOver
    BY DEF BeforeKickOff, GameOver, Mode
  <2> HIDE DEF a, f, t
  <2>2. n = CASE m.mode = BeforeKickOff -> a [] m.mode = GameOver -> f [] OTHER -> t
    BY Zenon DEF UpdateTime, a, f, t
  <2> HIDE DEF n
  <2> QED BY <2>1, <2>2
<1> HIDE DEF a, f, t
<1> QED BY <1>1, <1>2, <1>3, <1>4, <1>5 DEF Same, Sound

Kicks == [taker : MaybePlayer, at : Nat, indirect : BOOLEAN,
          others : BOOLEAN, byTeam : Teams \union {"none"}, free : BOOLEAN]
Passes == [team : Teams \union {"none"}, at : Nat, mates : SUBSET Players]

LEMMA KickOk ==
  ASSUME kick \in Kicks, NEW m, Sound(m), NEW n, NEW b \in Balls, NEW h \in Hits, NEW place
  PROVE  KickAfter(m, n, b, h, place) \in Kicks
<1> DEFINE restart == m.mode[1] \in Restarts /\ n.mode = PlayOn
           others  == Hitters(h) \ {kick.taker} # {}
           byOther == \E p \in Hitters(h) : Team[p] # kick.byTeam
           ind  == m.mode[1] \in {"KickOff", "KickIn", "FreeKick"}
           team == IF m.mode[1] = "KickOff" THEN TeamOn(m, m.mode[2]) ELSE kick.byTeam
           fre  == kick.free \/ byOther \/ (h # <<>> /\ place # InCircle)
           free == IF m.mode[1] = "KickOff"
                   THEN Team[b.toucher] # TeamOn(m, m.mode[2]) ELSE fre
           a == NoKick
           c == [NoKick EXCEPT !.byTeam = kick.byTeam, !.free = fre]
           d == [taker |-> b.toucher, at |-> b.time, indirect |-> ind,
                 others |-> FALSE, byTeam |-> team, free |-> free]
           oth == kick.others \/ others
           e == [kick EXCEPT !.others = oth, !.free = fre]
<1>1. KickAfter(m, n, b, h, place) \in {a, c, d, e}
  <2>1. CASE restart /\ TooOld(m)
    BY <2>1, Zenon DEF KickAfter
  <2>2. CASE restart /\ ~TooOld(m)
    BY <2>2, Zenon DEF KickAfter
  <2>3. CASE ~restart
    BY <2>3, Zenon DEF KickAfter
  <2> QED BY <2>1, <2>2, <2>3
<1>2. ind \in BOOLEAN /\ free \in BOOLEAN /\ oth \in BOOLEAN /\ fre \in BOOLEAN
  <2>1. ind \in BOOLEAN /\ oth \in BOOLEAN /\ fre \in BOOLEAN
    OBVIOUS
  <2>2. free \in BOOLEAN
    <3>1. CASE m.mode[1] = "KickOff"
      BY <3>1
    <3>2. CASE m.mode[1] # "KickOff"
      BY <3>2
    <3> QED BY <3>1, <3>2
  <2> QED BY <2>1, <2>2
<1>3. team \in Teams \union {"none"}
  BY TeamOnTeam DEF Sound, Matches, Kicks
<1> HIDE DEF ind, free, oth, fre, team
<1>4. a \in Kicks /\ c \in Kicks
  BY <1>2 DEF NoKick, Kicks, MaybePlayer
<1>5. d \in Kicks /\ e \in Kicks
  BY <1>2, <1>3 DEF Kicks, Balls
<1> QED BY <1>1, <1>4, <1>5

LEMMA PassOk ==
  ASSUME pass \in Passes, NEW m, Sound(m), NEW n, NEW h \in Hits
  PROVE  PassAfter(m, n, h) \in Passes
<1> DEFINE own(t) == {p \in Hitters(h) : Team[p] = t}
           t0 == TeamOn(m, m.mode[2])
           a == [team |-> t0, at |-> m.time, mates |-> own(t0)]
           c == [pass EXCEPT !.mates = @ \union own(pass.team)]
<1>1. PassAfter(m, n, h) \in {NoPass, a, c}
  BY Zenon DEF PassAfter
<1>2. \A t : own(t) \in SUBSET Players
  BY HitsAre
<1>3. t0 \in Teams /\ m.time \in Nat
  BY TeamOnTeam DEF Sound, Matches
<1> HIDE DEF own, t0
<1> QED BY <1>1, <1>2, <1>3 DEF Passes, NoPass

(* One update: m with its time, n when the play mode is looked at, o after *)
(* it.                                                                     *)
Updated(h, place, away, m, b, n, o) ==
  /\ m = UpdateTime(match) /\ b = UpdateBall(m, h)
  /\ n = AllowKickOffTeam(CheckTime(m), b, place)
  /\ o \in UpdateMode(n, b, h, place, away)
  /\ touches' = (IF h = <<>> THEN touches ELSE touches + 1) /\ touches' <= MaxTouches
  /\ match' = o /\ ball' = b
  /\ kick' = KickAfter(n, o, b, h, place) /\ pass' = PassAfter(n, o, h)
  /\ starter' = IF /\ starter = "none" /\ o.half = "first"
                   /\ o.mode[1] = "KickOff"
                THEN TeamOn(o, o.mode[2]) ELSE starter
  /\ requests' = requests

LEMMA UpdateSplits ==
  ASSUME Update
  PROVE  \E h \in Hits, place \in Places, away \in BOOLEAN :
           \E m, b, n, o : Updated(h, place, away, m, b, n, o)
<1>1. SeenPlaces \subseteq Places /\ Aways \subseteq BOOLEAN
  BY DEF SeenPlaces, Aways, Places
<1>2. PICK h \in Hits, place \in SeenPlaces, away \in Aways :
        \E m \in {UpdateTime(match)} : \E b \in {UpdateBall(m, h)} :
        \E n \in {AllowKickOffTeam(CheckTime(m), b, place)} :
        \E o \in UpdateMode(n, b, h, place, away) :
          Updated(h, place, away, m, b, n, o)
  BY SMTT(30) DEF Update, Updated
<1>3. place \in Places /\ away \in BOOLEAN
  BY <1>1
<1> QED BY <1>2, <1>3, Zenon

ClockInv == match.lastChange <= match.time

LEMMA UpdateSound ==
  ASSUME TypeOK, ClockInv, NEW h \in Hits, NEW place \in Places, NEW away \in BOOLEAN,
         NEW m, NEW b, NEW n, NEW o, Updated(h, place, away, m, b, n, o)
  PROVE  /\ Sound(match) /\ Sound(m) /\ Sound(n) /\ Sound(o)
         /\ m.mode = match.mode /\ m.lastChange = match.lastChange
         /\ m.time \in {match.time, match.time + 1}
         /\ Follows(m, CheckTime(m)) /\ Follows(m, n) /\ Follows(n, o)
         /\ b \in Balls
<1>1. Sound(match) /\ ball \in Balls
  BY DEF TypeOK, ClockInv, Sound, Balls
<1>2. /\ Sound(m) /\ m.mode = match.mode /\ m.lastChange = match.lastChange
      /\ m.time \in {match.time, match.time + 1}
  BY <1>1, TimeOk DEF Updated
<1>3. b \in Balls
  BY <1>1, <1>2, BallOk DEF Updated
<1>4. Follows(m, CheckTime(m)) /\ Sound(CheckTime(m))
  BY <1>2, CheckTimeOk DEF Follows
<1>5. Follows(CheckTime(m), n)
  BY <1>4, AllowOk DEF Updated, Plays
<1>6. Follows(m, n) /\ Sound(n)
  BY <1>2, <1>4, <1>5, FollowsTwice DEF Follows
<1>7. Follows(n, o)
  BY <1>3, <1>6, ModeOk DEF Updated
<1> QED BY <1>1, <1>2, <1>3, <1>4, <1>6, <1>7 DEF Follows

(* The commands and passes: the match after them follows the match.        *)
LEMMA RequestSound ==
  ASSUME TypeOK, ClockInv,
         (\E p \in Players : StartPassMode(p)) \/ TrainerPlayMode \/ TrainerKickOff \/ TrainerDropBall
  PROVE  Follows(match, match') /\ requests' \in 0..MaxRequests /\ UNCHANGED <<ball, touches>>
<1>1. Sound(match) /\ requests \in Nat
  BY DEF TypeOK, ClockInv, Sound
<1>2. Request => requests' \in 0..MaxRequests
  BY <1>1, NumbersOk DEF Request, Numbers
<1>3. CASE \E p \in Players : StartPassMode(p)
  <2>1. PICK p \in Players : StartPassMode(p)
    BY <1>3
  <2>2. Mode("Pass", SideOf(match, p)) \in Modes
    BY SideOfSide, ModeKinds
  <2> QED BY <1>1, <1>2, <2>1, <2>2, SetPlayModeOk DEF StartPassMode, Plays
<1>4. CASE TrainerPlayMode
  BY <1>1, <1>2, <1>4, SetPlayModeOk, TrainerAssumption DEF TrainerPlayMode, Command, Plays
<1>5. CASE TrainerKickOff
  BY <1>1, <1>2, <1>5, KickOffsOk DEF TrainerKickOff, Command
<1>6. CASE TrainerDropBall
  BY <1>1, <1>2, <1>6, DropOk DEF TrainerDropBall, Command, Plays
<1> QED BY <1>3, <1>4, <1>5, <1>6

IInv == TypeOK /\ ClockInv

LEMMA InitOk == Init => IInv
<1>1. BeforeKickOff \in Modes
  BY ModeKinds
<1>2. /\ [t \in Teams |-> Never] \in [Teams -> Int]
      /\ [t \in Teams |-> FALSE] \in [Teams -> BOOLEAN]
      /\ [s \in Sides |-> NoPlayer] \in [Sides -> MaybePlayer]
      /\ [s \in Sides |-> FALSE] \in [Sides -> BOOLEAN]
  BY DEF Never, MaybePlayer
<1> SUFFICES ASSUME Init PROVE IInv
  OBVIOUS
<1>3. match \in Matches /\ match.lastChange = 0 /\ match.time = 0
  BY <1>1, <1>2 DEF Init, Matches, Teams, NotYet, MaybePlayer
<1>4. ball \in [toucher : MaybePlayer, time : Nat, sides : SUBSET Sides]
  BY DEF Init, MaybePlayer
<1>5. kick \in Kicks /\ pass \in Passes
  BY DEF Init, NoKick, NoPass, Kicks, Passes, MaybePlayer
<1> QED BY <1>3, <1>4, <1>5, NumbersOk DEF Init, IInv, TypeOK, ClockInv, Kicks, Passes, Numbers

LEMMA TypesStep == IInv /\ [Next]_vars => IInv'
<1> SUFFICES ASSUME TypeOK, ClockInv, [Next]_vars PROVE IInv'
  BY DEF IInv
<1>1. CASE Update
  <2>1. PICK h \in Hits, place \in Places, away \in BOOLEAN :
          \E m, b, n, o : Updated(h, place, away, m, b, n, o)
    BY <1>1, UpdateSplits
  <2>2. PICK m, b, n, o : Updated(h, place, away, m, b, n, o)
    BY <2>1
  <2>3. Sound(n) /\ Sound(o) /\ b \in Balls
    BY <2>2, UpdateSound
  <2>4. match' \in Matches /\ ClockInv' /\ ball' \in Balls
    BY <2>2, <2>3 DEF Updated, Sound, ClockInv
  <2>5. kick' \in Kicks /\ pass' \in Passes
    <3>1. kick \in Kicks /\ pass \in Passes
      BY DEF TypeOK, Kicks, Passes
    <3> QED BY <2>2, <2>3, <3>1, KickOk, PassOk DEF Updated
  <2>6. starter' \in Teams \union {"none", "named"}
    <3>1. o.left \in Teams
      BY <2>3 DEF Sound, Matches
    <3> QED BY <2>2, <3>1, TeamOnTeam DEF Updated, TypeOK
  <2>7. touches' \in 0..MaxTouches /\ requests' \in 0..MaxRequests
    BY <2>2, NumbersOk DEF Updated, TypeOK, Numbers
  <2> QED BY <2>4, <2>5, <2>6, <2>7 DEF IInv, TypeOK, Balls, Kicks, Passes
<1>2. CASE (\E p \in Players : StartPassMode(p)) \/ TrainerPlayMode \/ TrainerKickOff \/ TrainerDropBall
  <2>1. Follows(match, match') /\ requests' \in 0..MaxRequests /\ UNCHANGED <<ball, touches>>
    BY <1>2, RequestSound
  <2>2. match' \in Matches /\ ClockInv'
    BY <2>1 DEF Follows, Sound, ClockInv
  <2>3. NoKick \in Kicks /\ NoPass \in Passes
    BY DEF NoKick, NoPass, Kicks, Passes, MaybePlayer
  <2>4. kick' \in {kick, NoKick} /\ pass' \in {pass, NoPass}
    BY <1>2 DEF StartPassMode, TrainerPlayMode, TrainerKickOff, TrainerDropBall, Command
  <2>5. match'.left \in Teams
    BY <2>2 DEF Matches
  <2>6. starter' \in Teams \union {"none", "named"}
    BY <1>2, <2>5, TeamOnTeam
       DEF StartPassMode, TrainerPlayMode, TrainerKickOff, TrainerDropBall, TypeOK
  <2>7. kick' \in Kicks /\ pass' \in Passes
    BY <2>3, <2>4 DEF TypeOK, Kicks, Passes
  <2> QED BY <2>1, <2>2, <2>6, <2>7 DEF IInv, TypeOK, Kicks, Passes
<1>3. CASE UNCHANGED vars
  BY <1>3 DEF vars, IInv, TypeOK, ClockInv
<1> QED BY <1>1, <1>2, <1>3 DEF Next

LEMMA AlwaysInv == Spec => []IInv
BY InitOk, TypesStep, PTL DEF Spec

(* Every field of the match, the ball and the histories keeps its type, in *)
(* every play mode and whatever the trainer sets.                          *)
THEOREM TypeCorrect == Spec => []TypeOK
<1>1. IInv => TypeOK
  BY DEF IInv
<1> QED BY <1>1, AlwaysInv, PTL

(* A restart is looked at in every update and given up when it has lasted  *)
(* too long, so that it never lasts longer between two updates, if         *)
(* its pause is not longer than the drop-ball time itself                  *)
(* (SoccerRuleAspect: the play mode updates and mDropBallTime).            *)
LEMMA ShortStep ==
  ASSUME Patient PROVE IInv /\ RestartsAreShort /\ [Next]_vars => RestartsAreShort'
<1> SUFFICES ASSUME TypeOK, ClockInv, RestartsAreShort, [Next]_vars,
                    match'.mode[1] \in Restarts, DropBallTime > 0
             PROVE  match'.time - match'.lastChange <= DropBallTime
  BY ModeKinds DEF IInv, RestartsAreShort, ModeTime
<1>1. DropBallTime \in Nat
  BY NumbersOk DEF Numbers
<1>2. match \in Matches
  BY DEF TypeOK
<1>3. match.mode[1] \in Restarts => match.time - match.lastChange <= DropBallTime
  BY ModeKinds DEF RestartsAreShort, ModeTime
<1>4. CASE Update
  <2>1. PICK h \in Hits, place \in Places, away \in BOOLEAN :
          \E m, b, n, o : Updated(h, place, away, m, b, n, o)
    BY <1>4, UpdateSplits
  <2>2. PICK m, b, n, o : Updated(h, place, away, m, b, n, o)
    BY <2>1
  <2>3. Sound(n) /\ Sound(o) /\ b \in Balls /\ Follows(n, o) /\ match' = o
    BY <2>2, UpdateSound DEF Updated
  <2>4. CASE o.lastChange = n.time
    BY <1>1, <2>3, <2>4 DEF Follows, Sound, Matches
  <2>5. CASE o.mode = n.mode /\ o.lastChange = n.lastChange
    <3>1. n.mode[1] \in Restarts
      BY <2>3, <2>5
    <3>2. ModeTime(n) = n.time - n.lastChange /\ n.time \in Nat /\ n.lastChange \in Nat
      BY <2>3, <3>1, ModeKinds DEF ModeTime, Sound, Matches
    <3>3. ModeTime(n) \in Nat
      BY <2>3, <3>2 DEF Sound
    <3>4. Ends(n, o)
      BY <2>2, <2>3, <3>1, <3>3, ModeOk DEF Updated
    <3>5. ~TooOld(n)
      BY <2>5, <3>1, <3>4, ModeKinds DEF Ends
    <3> QED BY <1>1, <2>3, <2>5, <3>2, <3>5 DEF TooOld, Follows
  <2> QED BY <2>3, <2>4, <2>5 DEF Follows
<1>5. CASE (\E p \in Players : StartPassMode(p)) \/ TrainerPlayMode \/ TrainerKickOff \/ TrainerDropBall
  <2>1. Follows(match, match')
    BY <1>5, RequestSound
  <2>2. CASE match'.lastChange = match.time
    BY <1>1, <1>2, <2>1, <2>2 DEF Follows, Matches
  <2>3. CASE match'.mode = match.mode /\ match'.lastChange = match.lastChange
    BY <1>3, <2>1, <2>3 DEF Follows
  <2> QED BY <2>1, <2>2, <2>3 DEF Follows
<1>6. CASE UNCHANGED vars
  BY <1>3, <1>6 DEF vars
<1> QED BY <1>4, <1>5, <1>6 DEF Next

(* Whatever the players and the trainer do, no kick-off and no placed kick *)
(* keeps the ball out of play for more than mDropBallTime, when the pause  *)
(* before a kick is not longer than that (SoccerRuleAspect::UpdateKickOff, *)
(* UpdateKickIn, UpdateFreeKick, UpdateCornerKick, UpdateGoalKick).        *)
THEOREM RestartsShort == ASSUME Patient PROVE Spec => []RestartsAreShort
<1>1. Init => RestartsAreShort
  BY ModeKinds DEF Init, RestartsAreShort
<1>2. IInv /\ RestartsAreShort /\ [Next]_vars => RestartsAreShort'
  BY ShortStep
<1> QED BY <1>1, <1>2, AlwaysInv, PTL DEF Spec
-----------------------------------------------------------------------------
(* Who kicks off the second half.                                          *)

LEMMA TwoTeams ==
  ASSUME NEW m, m.left \in Teams, NEW s \in Sides
  PROVE  /\ TeamOn(m, s) \in Teams /\ TeamOn(m, Opponent(s)) \in Teams
         /\ TeamOn(m, Opponent(s)) # TeamOn(m, s)
         /\ Opponent(Opponent(s)) = s
         /\ \A n : n.left = TeamOn(m, "right") => TeamOn(n, s) = TeamOn(m, Opponent(s))
<1> DEFINE r == CHOOSE t \in Teams : t # m.left
<1>1. \E t \in Teams : t # m.left
  BY SoccerAssumption DEF Teams
<1>2. r \in Teams /\ r # m.left
  BY <1>1
<1>3. TeamOn(m, "right") = r /\ TeamOn(m, "left") = m.left
  BY DEF TeamOn
<1>4. ASSUME NEW n, n.left = r PROVE (CHOOSE t \in Teams : t # n.left) = m.left
  <2> DEFINE q == CHOOSE t \in Teams : t # r
  <2>1. \E t \in Teams : t # r
    BY <1>2
  <2>2. q \in Teams /\ q # r
    BY <2>1
  <2>3. q = m.left
    <3> HIDE DEF q, r
    <3> QED BY <2>2, <1>2 DEF Teams
  <2>4. (CHOOSE t \in Teams : t # n.left) = q
    BY <1>4
  <2> QED BY <2>3, <2>4
<1>5. ASSUME NEW n, n.left = TeamOn(m, "right") PROVE TeamOn(n, s) = TeamOn(m, Opponent(s))
  <2>1. n.left = r
    BY <1>3, <1>5
  <2>2. TeamOn(n, "left") = r /\ TeamOn(n, "right") = m.left
    BY <2>1, <1>4 DEF TeamOn
  <2> HIDE DEF r
  <2> QED BY <2>2, <1>3 DEF Sides, Opponent
<1> HIDE DEF r
<1>6. TeamOn(m, Opponent(s)) # TeamOn(m, s) /\ Opponent(Opponent(s)) = s
  BY <1>2, <1>3 DEF Sides, Opponent
<1> QED BY <1>5, <1>6, TeamOnTeam

(* The side of the team that kicked off the first half, while it lasts.    *)
Opener(m) == IF ChangeSides THEN m.nextKickOff ELSE Opponent(m.nextKickOff)

(* The match m of which st kicked off the first half: what KickOff         *)
(* remembered names the other team for the second, until that has begun.   *)
Halves(m, st) ==
  /\ st = "none" => /\ m.mode = BeforeKickOff /\ m.half = "first"
                    /\ m.lastKickOffHalf = "none" /\ m.nextKickOff = "none"
  /\ (st = "none" \/ ~SingleHalfTime) /\ m.half = "first" => m.time < HalfTime
  /\ SingleHalfTime => m.half = "first"
  /\ st \in Teams /\ m.half = "first" =>
       /\ m.lastKickOffHalf = "first" /\ m.nextKickOff \in Sides
       /\ st = TeamOn(m, Opener(m))
  /\ st \in Teams /\ m.half = "second" /\ m.lastKickOffHalf = "first" =>
       /\ m.mode = BeforeKickOff /\ m.nextKickOff \in Sides
       /\ TeamOn(m, m.nextKickOff) # st /\ m.time < 2 * HalfTime

(* The team names are no words of the histories.                           *)
NamesApart == "none" \notin Teams /\ "named" \notin Teams

LEMMA SameHalves ==
  ASSUME NEW m, NEW n, NEW st, Same(m, n), Halves(m, st) PROVE Halves(n, st)
BY DEF Same, Keeps, Halves, Opener, TeamOn

LEMMA KickHalves ==
  ASSUME NamesApart, NEW m, Sound(m), NEW st \in Teams \union {"none", "named"}, Halves(m, st),
         NEW o \in KickOffs(m, "none"), NEW next,
         next = IF st = "none" /\ m.half = "first" THEN TeamOn(o, o.mode[2]) ELSE st
  PROVE  /\ Halves(o, next)
         /\ next \in Teams /\ m.half = "second" /\ m.lastKickOffHalf = "first" =>
              TeamOn(o, o.mode[2]) # next
<1>1. PICK c \in Sides :
        /\ Follows(m, o) /\ o.half = m.half /\ o.left = m.left /\ o.lastKickOffHalf = m.half
        /\ o.mode = Mode("KickOff", c)
        /\ \/ m.half = m.lastKickOffHalf /\ o.nextKickOff = m.nextKickOff
           \/ /\ m.half # m.lastKickOffHalf
              /\ m.nextKickOff = "none" \/ c = m.nextKickOff
              /\ o.nextKickOff = IF ChangeSides THEN c ELSE Opponent(c)
  BY KickOffsOk DEF Sides
<1>2. o.mode[2] = c /\ o.time = m.time /\ m.left \in Teams /\ m.half \in {"first", "second"}
  BY <1>1 DEF Mode, Follows, Sound, Matches
<1>3. \A s : TeamOn(o, s) = TeamOn(m, s)
  BY <1>1 DEF TeamOn
<1>4. CASE st = "none"
  <2>1. m.half = "first" /\ m.lastKickOffHalf = "none" /\ next = TeamOn(o, c)
    BY <1>2, <1>4 DEF Halves
  <2>2. o.nextKickOff \in Sides /\ Opener(o) = c
    BY <1>1, <2>1, OpponentSide, <1>2, TwoTeams DEF Opener
  <2>3. next \in Teams
    BY <1>2, <1>3, <2>1, TwoTeams
  <2> QED BY <1>1, <1>2, <1>4, <2>1, <2>2, <2>3 DEF Halves, NamesApart
<1>5. CASE st \in Teams /\ m.half = "first"
  <2>1. next = st /\ o.nextKickOff = m.nextKickOff /\ o.lastKickOffHalf = "first"
    BY <1>1, <1>5 DEF Halves, NamesApart
  <2>2. Opener(o) = Opener(m)
    BY <2>1 DEF Opener
  <2> QED BY <1>1, <1>2, <1>3, <1>5, <2>1, <2>2 DEF Halves, NamesApart
<1>6. CASE st \in Teams /\ m.half = "second"
  <2>1. next = st /\ o.lastKickOffHalf = "second" /\ o.half = "second"
    BY <1>1, <1>6
  <2>2. m.lastKickOffHalf = "first" => c = m.nextKickOff /\ TeamOn(m, c) # st
    BY <1>1, <1>6 DEF Halves, Sides
  <2> QED BY <1>1, <1>2, <1>3, <1>6, <2>1, <2>2 DEF Halves, NamesApart
<1>7. CASE st = "named"
  BY <1>1, <1>2, <1>7 DEF Halves, NamesApart
<1> QED BY <1>2, <1>4, <1>5, <1>6, <1>7

(* A kick-off for a named side, after a goal.                              *)
LEMMA GoalHalves ==
  ASSUME NamesApart, NEW m, Sound(m), NEW st, Halves(m, st), m.mode[1] = "Goal", NEW s \in Sides,
         NEW o \in KickOffs(m, s)
  PROVE  /\ Halves(o, st) /\ st # "none"
         /\ ~(st \in Teams /\ m.half = "second" /\ m.lastKickOffHalf = "first")
<1>1. m.mode # BeforeKickOff
  BY DEF BeforeKickOff, Mode
<1>2. o = KickOffBy(m, s)
  BY DEF KickOffs, Sides
<1>3. /\ Follows(m, o) /\ o.half = m.half /\ o.left = m.left
      /\ o.lastKickOffHalf = m.half /\ o.nextKickOff = m.nextKickOff
  BY <1>2, KickOffByOk
<1> QED BY <1>1, <1>3 DEF Halves, Follows, Opener, TeamOn

(* When somebody named what to play there is nothing to remember.          *)
LEMMA NamedHalves ==
  ASSUME NamesApart, NEW m, NEW n, NEW st, Halves(m, st), Follows(m, n), n.half = m.half
  PROVE  Halves(n, "named")
BY DEF NamesApart, Halves, Follows

(* The ball is in play, or the match is over.                              *)
LEMMA PlayHalves ==
  ASSUME NEW m, NEW n, NEW st, Plays(m, n), Halves(m, st), m.mode # BeforeKickOff
  PROVE  /\ Halves(n, st) /\ st # "none"
         /\ ~(st \in Teams /\ m.half = "second" /\ m.lastKickOffHalf = "first")
BY DEF Plays, Keeps, Halves, Follows, Opener, TeamOn

LEMMA TimeHalves ==
  ASSUME NamesApart, HalfTime > 0, NEW k, NEW m, NEW n, NEW st, Sound(k), Halves(k, st),
         m = UpdateTime(k), n = CheckTime(m)
  PROVE  /\ Halves(n, st)
         /\ k.half = "second" => n.half = "second"
         /\ n.lastKickOffHalf = k.lastKickOffHalf
<1>1. /\ Sound(m) /\ m.mode = k.mode /\ m.time \in {k.time, k.time + 1} /\ Keeps(k, m)
      /\ k.mode = BeforeKickOff => m.time = k.time
      /\ k.time \in Nat /\ k.left \in Teams /\ k.half \in {"first", "second"}
      /\ HalfTime \in Nat
  BY TimeOk, NumbersOk DEF Sound, Matches, Numbers
<1>2. n.time = m.time
  BY <1>1, CheckTimeOk DEF Follows
<1>3. \A s : TeamOn(m, s) = TeamOn(k, s)
  BY <1>1 DEF TeamOn, Keeps
<1>4. CASE Turns(m, n)
  <2>1. st # "none" /\ k.half = "first" /\ ~SingleHalfTime
    BY <1>1, <1>4 DEF Turns, Halves, Keeps
  <2>2. n.half = "second" /\ n.mode = BeforeKickOff /\ n.time < 2 * HalfTime
    BY <1>1, <1>2, <1>4, <2>1 DEF Turns, Halves
  <2>3. n.lastKickOffHalf = k.lastKickOffHalf /\ n.nextKickOff = k.nextKickOff
    BY <1>1, <1>4 DEF Turns, Keeps
  <2>4. ASSUME st \in Teams PROVE n.nextKickOff \in Sides /\ TeamOn(n, n.nextKickOff) # st
    <3> DEFINE c == k.nextKickOff
    <3>1. c \in Sides /\ st = TeamOn(k, Opener(k))
      BY <2>1, <2>4 DEF Halves
    <3>2. CASE ChangeSides
      <4>1. n.left = TeamOn(k, "right") /\ st = TeamOn(k, c)
        BY <1>3, <1>4, <3>1, <3>2 DEF Turns, Opener
      <4>2. TeamOn(n, c) = TeamOn(k, Opponent(c)) /\ TeamOn(k, Opponent(c)) # TeamOn(k, c)
        BY <1>1, <3>1, <4>1, TwoTeams
      <4> QED BY <2>3, <3>1, <4>1, <4>2
    <3>3. CASE ~ChangeSides
      <4>1. n.left = k.left /\ st = TeamOn(k, Opponent(c))
        BY <1>1, <1>4, <3>1, <3>3 DEF Turns, Opener, Keeps
      <4>2. TeamOn(n, c) = TeamOn(k, c) /\ TeamOn(k, Opponent(c)) # TeamOn(k, c)
        BY <1>1, <3>1, <4>1, TwoTeams DEF TeamOn
      <4> QED BY <2>3, <3>1, <4>1, <4>2
    <3> QED BY <3>2, <3>3
  <2> QED BY <1>1, <2>1, <2>2, <2>3, <2>4 DEF Halves
<1>5. CASE OverOrOn(m, n)
  <2>1. Keeps(k, n)
    BY <1>1, <1>5 DEF Keeps, OverOrOn
  <2>2. st = "none" => n.mode = BeforeKickOff /\ n.time < HalfTime
    BY <1>1, <1>2, <1>5 DEF Halves, OverOrOn, Keeps
  <2>3. ~SingleHalfTime /\ n.half = "first" => n.time < HalfTime
    BY <1>1, <1>2, <1>5, <2>1 DEF OverOrOn, Keeps
  <2>4. st \in Teams /\ n.half = "second" /\ n.lastKickOffHalf = "first" =>
          n.mode = BeforeKickOff /\ n.time < 2 * HalfTime
    BY <1>1, <1>2, <1>5, <2>1 DEF OverOrOn, Keeps, Halves
  <2>5. Opener(n) = Opener(k) /\ \A s : TeamOn(n, s) = TeamOn(k, s)
    BY <2>1 DEF Opener, TeamOn, Keeps
  <2> QED BY <1>1, <2>1, <2>2, <2>3, <2>4, <2>5 DEF Halves, Keeps
<1> QED BY <1>1, <1>4, <1>5, CheckTimeOk

(* The switch over the play mode, by what it may do to the kick-offs.      *)
LEMMA ModePlays ==
  ASSUME NEW m, Sound(m), NEW b \in Balls, NEW h \in Hits, NEW place \in Places,
         NEW away \in BOOLEAN, NEW o \in UpdateMode(m, b, h, place, away),
         m.mode # BeforeKickOff, m.mode[1] # "Goal"
  PROVE  Plays(m, o)
<1> DEFINE Take(i) == TakeKick(ResetKickChecks(m), b, i)
<1>1. m.mode \in Modes /\ Plays(m, m)
  BY DEF Sound, Matches, Plays, Follows, Keeps
<1>2. CASE o = UpdatePlayOn(m, b, h, place, away) \/ o = UpdateKickOff(m, b) \/ o = UpdateGameOver(m)
  BY <1>2, PlayOnOk, KickOffModeOk, GameOverOk
<1>3. CASE \E waits \in BOOLEAN, next \in {Take(TRUE), Take(FALSE), ResetKickChecks(m)} :
             o = UpdatePlacedKick(m, b, waits, next)
  <2>1. PICK waits \in BOOLEAN, next \in {Take(TRUE), Take(FALSE), ResetKickChecks(m)} :
          o = UpdatePlacedKick(m, b, waits, next)
    BY <1>3
  <2>2. Plays(m, next)
    BY <2>1, ResetTakeOk
  <2> QED BY <2>1, <2>2, PlacedOk
<1>4. CASE o = UpdateFreeKick(m, b, TRUE) \/ o = UpdateFreeKick(m, b, FALSE) \/ o = UpdateKickIn(m, b)
  <2>1. o = UpdatePlacedKick(m, b, FALSE, Take(TRUE)) \/ o = UpdatePlacedKick(m, b, FALSE, Take(FALSE))
    BY <1>4 DEF UpdateFreeKick, UpdateKickIn
  <2> HIDE DEF Take
  <2> QED BY <1>3, <2>1
<1>5. CASE o = UpdateGoalKick(m, b, place) \/ o = UpdateCornerKick(m, b)
  <2> DEFINE waits == b.toucher = NoPlayer
             next == IF place = InArea THEN ResetKickChecks(m) ELSE Take(FALSE)
  <2>1. o = UpdatePlacedKick(m, b, waits, next) \/ o = UpdatePlacedKick(m, b, waits, Take(FALSE))
    BY <1>5 DEF UpdateGoalKick, UpdateCornerKick
  <2>2. waits \in BOOLEAN /\ next \in {Take(TRUE), Take(FALSE), ResetKickChecks(m)}
    OBVIOUS
  <2> HIDE DEF Take, waits, next
  <2> QED BY <1>3, <2>1, <2>2
<1>6. CASE m.mode[1] = "Pass" /\ o = UpdatePassMode(m, m.mode[2], b, h, place, away)
  <2>1. m.mode[2] \in Sides
    BY <1>1, <1>6 DEF Modes, Mode, BeforeKickOff, PlayOn, GameOver, Restarts, PlacedKicks
  <2> QED BY <1>6, <2>1, PassModeOk
<1>7. CASE o = m
  BY <1>1, <1>7
<1> QED BY <1>2, <1>4, <1>5, <1>6, <1>7 DEF UpdateMode

LEMMA ModeHalves ==
  ASSUME NamesApart, NEW n, Sound(n), NEW b \in Balls, NEW h \in Hits, NEW place \in Places,
         NEW away \in BOOLEAN, NEW o \in UpdateMode(n, b, h, place, away),
         NEW st \in Teams \union {"none", "named"}, Halves(n, st), NEW next,
         next = IF st = "none" /\ o.half = "first" /\ o.mode[1] = "KickOff"
                THEN TeamOn(o, o.mode[2]) ELSE st
  PROVE  /\ Halves(o, next)
         /\ next \in Teams /\ n.half = "second" /\ n.lastKickOffHalf = "first"
              /\ o.lastKickOffHalf = "second" => TeamOn(o, o.mode[2]) # next
<1>1. n.mode \in Modes /\ n.half \in {"first", "second"}
  BY DEF Sound, Matches
<1>2. CASE n.mode = BeforeKickOff
  <2>1. o \in UpdateBeforeKickOff(n)
    BY <1>2 DEF UpdateMode, BeforeKickOff, PlayOn, GameOver, Mode
  <2>2. CASE Same(n, o)
    <3>1. next = st
      BY <1>2, <2>2 DEF Same, BeforeKickOff, Mode
    <3> QED BY <2>2, <3>1, SameHalves DEF Same, Keeps
  <2>3. CASE \E k : Same(n, k) /\ Sound(k) /\ o \in KickOffs(k, "none")
    <3>1. PICK k : Same(n, k) /\ Sound(k) /\ o \in KickOffs(k, "none")
      BY <2>3
    <3>2. Halves(k, st) /\ k.half = n.half /\ k.lastKickOffHalf = n.lastKickOffHalf
      BY <3>1, SameHalves DEF Same, Keeps
    <3>3. o.half = k.half /\ o.mode[1] = "KickOff"
      BY <3>1, KickOffsOk DEF Mode
    <3>4. next = IF st = "none" /\ k.half = "first" THEN TeamOn(o, o.mode[2]) ELSE st
      BY <3>3
    <3> QED BY <3>1, <3>2, <3>4, KickHalves
  <2> QED BY <2>1, <2>2, <2>3, BeforeOk
<1>3. CASE n.mode # BeforeKickOff
  <2>1. st # "none" /\ next = st
    BY <1>3 DEF Halves
  <2>2. CASE n.mode[1] = "Goal"
    <3>1. n.mode[2] \in Sides
      BY <1>1, <2>2 DEF Modes, Mode, BeforeKickOff, PlayOn, GameOver, Restarts, PlacedKicks
    <3>2. o \in UpdateGoal(n)
      BY <1>3, <2>2 DEF UpdateMode, BeforeKickOff, PlayOn, GameOver, Mode
    <3>3. o = n \/ o \in KickOffs(n, Opponent(n.mode[2]))
      BY <3>2 DEF UpdateGoal
    <3>4. Opponent(n.mode[2]) \in Sides
      BY <3>1, OpponentSide
    <3> QED BY <2>1, <2>2, <3>3, <3>4, GoalHalves
  <2>3. CASE n.mode[1] # "Goal"
    <3>1. Plays(n, o)
      BY <1>1, <1>3, <2>3, ModePlays
    <3> QED BY <1>3, <2>1, <3>1, PlayHalves
  <2> QED BY <2>2, <2>3
<1> QED BY <1>2, <1>3

HalvesInv == Halves(match, starter)

(* What the step must not do: the action of OtherTeamStartsSecondHalf.     *)
OtherTeam ==
  (/\ starter' \in Teams
   /\ match.half = "second" /\ match.lastKickOffHalf = "first"
   /\ match'.lastKickOffHalf = "second")
    => TeamOn(match', match'.mode[2]) # starter'

LEMMA HalvesStep ==
  ASSUME NamesApart, HalfTime > 0, IInv, HalvesInv, [Next]_vars
  PROVE  HalvesInv' /\ OtherTeam
<1>1. TypeOK /\ ClockInv /\ Sound(match) /\ Halves(match, starter)
      /\ starter \in Teams \union {"none", "named"}
  BY DEF IInv, TypeOK, ClockInv, Sound, HalvesInv
<1>2. CASE Update
  <2>1. PICK h \in Hits, place \in Places, away \in BOOLEAN :
          \E m, b, n, o : Updated(h, place, away, m, b, n, o)
    BY <1>2, UpdateSplits
  <2>2. PICK m, b, n, o : Updated(h, place, away, m, b, n, o)
    BY <2>1
  <2>3. Sound(m) /\ Sound(n) /\ b \in Balls
    BY <1>1, <2>2, UpdateSound
  <2>4. /\ m = UpdateTime(match) /\ n = AllowKickOffTeam(CheckTime(m), b, place)
        /\ o \in UpdateMode(n, b, h, place, away) /\ match' = o
        /\ starter' = IF /\ starter = "none" /\ o.half = "first" /\ o.mode[1] = "KickOff"
                      THEN TeamOn(o, o.mode[2]) ELSE starter
    BY <2>2 DEF Updated
  <2> DEFINE k == CheckTime(m)
  <2>5. /\ Halves(k, starter)
        /\ match.half = "second" => k.half = "second"
        /\ k.lastKickOffHalf = match.lastKickOffHalf
    BY <1>1, <2>4, TimeHalves
  <2>6. Sound(k)
    BY <2>3, CheckTimeOk DEF Follows
  <2>7. Same(k, n)
    BY <2>4, <2>6, AllowOk
  <2> HIDE DEF k
  <2>8. Halves(n, starter) /\ n.half = k.half /\ n.lastKickOffHalf = k.lastKickOffHalf
    BY <2>5, <2>7, SameHalves DEF Same, Keeps
  <2>9. /\ Halves(o, starter')
        /\ starter' \in Teams /\ n.half = "second" /\ n.lastKickOffHalf = "first"
             /\ o.lastKickOffHalf = "second" => TeamOn(o, o.mode[2]) # starter'
    BY <1>1, <2>3, <2>4, <2>8, ModeHalves
  <2> QED BY <2>4, <2>5, <2>8, <2>9 DEF HalvesInv, OtherTeam
<1>3. ASSUME NEW p \in Players, StartPassMode(p) PROVE HalvesInv' /\ OtherTeam
  <2>1. match.mode = PlayOn /\ match' = SetPlayMode(match, Mode("Pass", SideOf(match, p))) /\ starter' = starter
    BY <1>3 DEF StartPassMode
  <2>2. Plays(match, match') /\ match.mode # BeforeKickOff
    BY <1>1, <2>1, SetPlayModeOk, ModeKinds, SideOfSide DEF PlayOn, BeforeKickOff, Mode
  <2> QED BY <1>1, <2>1, <2>2, PlayHalves DEF HalvesInv, OtherTeam
<1>4. CASE TrainerPlayMode
  <2>1. PICK mode \in Modes : match' = SetPlayMode(match, mode) /\ starter' = "named"
    BY <1>4, TrainerAssumption DEF TrainerPlayMode
  <2>2. Plays(match, match')
    BY <1>1, <2>1, SetPlayModeOk
  <2> QED BY <1>1, <2>1, <2>2, NamedHalves DEF HalvesInv, OtherTeam, NamesApart, Plays, Keeps
<1>5. CASE TrainerKickOff
  <2>1. PICK s \in Sides \union {"none"} :
          /\ match' \in KickOffs(match, s)
          /\ starter' = IF s # "none" THEN "named"
                        ELSE IF starter = "none" /\ match.half = "first"
                        THEN TeamOn(match', match'.mode[2]) ELSE starter
    BY <1>5 DEF TrainerKickOff
  <2>2. CASE s = "none"
    BY <1>1, <2>1, <2>2, KickHalves DEF HalvesInv, OtherTeam
  <2>3. CASE s # "none"
    <3>1. Follows(match, match') /\ match'.half = match.half /\ starter' = "named"
      BY <1>1, <2>1, <2>3, KickOffsOk
    <3> QED BY <1>1, <3>1, NamedHalves DEF HalvesInv, OtherTeam, NamesApart, Follows
  <2> QED BY <2>2, <2>3
<1>6. CASE TrainerDropBall
  <2>1. match' = DropBall(match) /\ starter' = IF match.mode = BeforeKickOff THEN "named" ELSE starter
    BY <1>6 DEF TrainerDropBall
  <2>2. Plays(match, match')
    BY <1>1, <2>1, DropOk
  <2>3. CASE match.mode = BeforeKickOff
    BY <1>1, <2>1, <2>2, <2>3, NamedHalves DEF HalvesInv, OtherTeam, NamesApart, Plays, Keeps, Follows
  <2>4. CASE match.mode # BeforeKickOff
    BY <1>1, <2>1, <2>2, <2>4, PlayHalves DEF HalvesInv, OtherTeam
  <2> QED BY <2>3, <2>4
<1>7. CASE UNCHANGED vars
  BY <1>1, <1>7 DEF vars, HalvesInv, OtherTeam, Halves
<1> QED BY <1>2, <1>3, <1>4, <1>5, <1>6, <1>7 DEF Next

(* The team that did not kick off the match kicks off the second half, for *)
(* every length of a half and with or without a change of sides, if no     *)
(* trainer names a side, a mode or a ball to drop before it                *)
(* (GameStateAspect::KickOff, SwapTeamSides, SoccerRuleAspect::CheckTime). *)
THEOREM OtherTeamStarts ==
  ASSUME NamesApart, HalfTime > 0 PROVE Spec => OtherTeamStartsSecondHalf
<1>1. Init => HalvesInv
  BY NumbersOk DEF Init, HalvesInv, Halves, NamesApart, Numbers
<1>2. IInv /\ HalvesInv /\ [Next]_vars => HalvesInv' /\ [OtherTeam]_vars
  BY HalvesStep
<1>3. OtherTeamStartsSecondHalf <=> [][OtherTeam]_vars
  BY DEF OtherTeamStartsSecondHalf, OtherTeam
<1> QED BY <1>1, <1>2, <1>3, AlwaysInv, PTL DEF Spec
-----------------------------------------------------------------------------
(* The second touch of the taker.                                          *)

InPlay(m) == m.mode = PlayOn \/ m.mode[1] = "Pass"

(* What CheckFreeKickTakerFoul looks at is left alone.                     *)
Takes(m, n) ==
  /\ n.checkFoul = m.checkFoul /\ n.taker = m.taker /\ n.kickTime = m.kickTime
  /\ n.indirect = m.indirect

LEMMA PlayModes ==
  /\ \A m : InPlay(m) => m.mode # BeforeKickOff /\ m.mode # GameOver /\ m.mode[1] \notin Restarts
  /\ \A m : InPlay(m) => m.mode[1] \notin {"Goal", "Offside", "KickOff"}
BY DEF InPlay, PlayOn, BeforeKickOff, GameOver, Mode, Restarts, PlacedKicks

LEMMA SetPlayModeTakes ==
  ASSUME NEW m, Sound(m), NEW mode \in Modes PROVE Takes(m, SetPlayMode(m, mode))
<1> DEFINE n == [m EXCEPT !.mode = mode, !.lastChange = m.time, !.lead = 0, !.fup = 0]
<1>1. Takes(m, n) /\ Takes(m, m)
  BY DEF Takes, Sound, Matches
<1>2. SetPlayMode(m, mode) = m \/ SetPlayMode(m, mode) = n
  BY DEF SetPlayMode
<1> HIDE DEF n
<1> QED BY <1>1, <1>2

LEMMA TimeTakes == ASSUME NEW m, Sound(m) PROVE Takes(m, UpdateTime(m))
BY DEF UpdateTime, Takes, Sound, Matches

LEMMA CheckTimeTakes ==
  ASSUME NEW m, Sound(m)
  PROVE  /\ Takes(m, CheckTime(m))
         /\ Turns(m, CheckTime(m)) /\ m.mode # BeforeKickOff => CheckTime(m).lead = 0
<1> DEFINE n == SetPlayMode(m, BeforeKickOff)
           t == IF ChangeSides THEN TeamOn(m, "right") ELSE n.left
           o == [n EXCEPT !.half = "second", !.left = t]
<1>1. /\ Takes(m, n) /\ Takes(m, SetPlayMode(m, GameOver)) /\ Takes(m, m)
      /\ n \in Matches
  BY SetPlayModeTakes, SetPlayModeOk, ModeKinds DEF Takes, Plays, Follows, Sound
<1>2. m.mode # BeforeKickOff => n.lead = 0
  BY DEF SetPlayMode, Sound, Matches
<1>3. CheckTime(m) \in {o, SetPlayMode(m, GameOver), m}
  BY DEF CheckTime
<1>4. Turns(m, CheckTime(m)) => CheckTime(m) = o
  BY NumbersOk DEF CheckTime, Turns, Numbers
<1> HIDE DEF n
<1>5. Takes(n, o) /\ o.lead = n.lead
  BY <1>1 DEF Takes, Matches
<1> QED BY <1>1, <1>2, <1>3, <1>4, <1>5 DEF Takes

LEMMA AllowTakes ==
  ASSUME NEW m, Sound(m), NEW b, NEW place
  PROVE  LET n == AllowKickOffTeam(m, b, place) IN Takes(m, n) /\ n.lead = m.lead
<1> DEFINE s == SideOf(m, m.koTaker)
           v == Opponent(s) \in b.sides \/ (s \in b.sides /\ place # InCircle)
<1>1. AllowKickOffTeam(m, b, place) = IF m.allow THEN m ELSE [m EXCEPT !.allow = v]
  BY Zenon DEF AllowKickOffTeam
<1> HIDE DEF v
<1>2. LET n == [m EXCEPT !.allow = v] IN Takes(m, n) /\ n.lead = m.lead
  BY DEF Takes, Sound, Matches
<1> QED BY <1>1, <1>2 DEF Takes

LEMMA PassChecksTake ==
  ASSUME NEW m, Sound(m), NEW h, NEW away PROVE Takes(m, UpdatePassChecks(m, h, away))
<1> DEFINE s      == IF WaitsToScore(m, "left") THEN "left" ELSE "right"
           own    == {i \in DOMAIN h : SideOf(m, h[i]) = s}
           first  == h[CHOOSE i \in own : \A j \in own : i <= j]
           last   == m.touched[s]
           passed == /\ own # {}
                     /\ \/ \E i, j \in own : i # j
                        \/ last # NoPlayer /\ (first # last \/ m.several[s])
           left   == m.leftCircle[s] \/ away
           c      == IF own = {} \/ last # NoPlayer THEN last ELSE first
           d      == m.several[s] \/ passed
           t      == TeamOn(m, s)
           e      == m.cleared[t] \/ (passed /\ left)
           n      == [m EXCEPT !.leftCircle[s] = left, !.touched[s] = c,
                               !.several[s] = d, !.cleared[t] = e]
<1>1. UpdatePassChecks(m, h, away) = m \/ UpdatePassChecks(m, h, away) = n
  BY Zenon DEF UpdatePassChecks
<1> HIDE DEF left, c, d, e, t, s
<1>2. Takes(m, n) /\ Takes(m, m)
  BY DEF Takes, Sound, Matches
<1> QED BY <1>1, <1>2

(* A ball that leaves the field or lies in a goal ends the play.           *)
LEMMA GoalModes ==
  ASSUME NEW m, Sound(m), NEW b, NEW s \in Sides
  PROVE  \E kind \in {"CornerKick", "GoalKick", "Goal"}, c \in Sides :
           CheckGoal(m, b, s).mode = Mode(kind, c)
<1> DEFINE n == [m EXCEPT !.indirect = FALSE]
<1>1. Same(m, n)
  BY DEF Same, Keeps, Sound, Matches
<1>2. /\ Mode("GoalKick", s) \in Modes /\ Mode("Goal", Opponent(s)) \in Modes
      /\ Mode("CornerKick", Opponent(s)) \in Modes /\ Opponent(s) \in Sides
  BY ModeKinds, OpponentSide DEF Restarts, PlacedKicks
<1>3. CheckGoal(m, b, s) \in
        {Award(n, Mode("CornerKick", Opponent(s))), Award(n, Mode("GoalKick", s)),
         Award(m, Mode("GoalKick", s)), SetPlayMode(m, Mode("Goal", Opponent(s)))}
  <2>1. \A p : PunishIndirectKickGoal(m, p, s) \in
          {Award(n, Mode("CornerKick", Opponent(s))), Award(n, Mode("GoalKick", s))}
    BY DEF PunishIndirectKickGoal
  <2>2. CheckGoal(m, b, s) \in
        {PunishIndirectKickGoal(m, m.koTaker, s), PunishIndirectKickGoal(m, b.toucher, s),
         Award(m, Mode("GoalKick", s)), SetPlayMode(m, Mode("Goal", Opponent(s)))}
    BY Zenon DEF CheckGoal
  <2> HIDE DEF n
  <2> QED BY <2>1, <2>2
<1> HIDE DEF n
<1>4. Sound(n)
  BY <1>1, SamePlays
<1>5. CheckGoal(m, b, s).mode \in
        {Mode("CornerKick", Opponent(s)), Mode("GoalKick", s), Mode("Goal", Opponent(s))}
  BY <1>2, <1>3, <1>4, AwardOk, SetPlayModeOk
<1> QED BY <1>2, <1>5

LEMMA LeftModes ==
  ASSUME NEW m, Sound(m), NEW b, NEW place \in Places, CheckBallLeftField(m, b, place) # m
  PROVE  \E kind \in {"KickIn", "CornerKick", "GoalKick"}, c \in Sides :
           CheckBallLeftField(m, b, place).mode = Mode(kind, c)
<1> DEFINE s == SideOf(m, b.toucher)
<1>1. s \in Sides /\ Opponent(s) \in Sides
  BY SideOfSide, OpponentSide
<1>2. place[1] = "end" => place[2] \in Sides
  BY DEF Places, InCircle, Beside, InArea, At, Sides
<1>3. /\ Mode("KickIn", Opponent(s)) \in Modes /\ Mode("CornerKick", Opponent(s)) \in Modes
      /\ place[1] = "end" => Mode("GoalKick", place[2]) \in Modes
  BY <1>1, <1>2, ModeKinds DEF Restarts, PlacedKicks
<1>4. \/ CheckBallLeftField(m, b, place) = Award(m, Mode("KickIn", Opponent(s)))
      \/ CheckBallLeftField(m, b, place) = Award(m, Mode("CornerKick", Opponent(s)))
      \/ place[1] = "end" /\ CheckBallLeftField(m, b, place) = Award(m, Mode("GoalKick", place[2]))
  BY DEF CheckBallLeftField
<1> HIDE DEF s
<1>5. \/ CheckBallLeftField(m, b, place).mode = Mode("KickIn", Opponent(s))
      \/ CheckBallLeftField(m, b, place).mode = Mode("CornerKick", Opponent(s))
      \/ place[1] = "end" /\ CheckBallLeftField(m, b, place).mode = Mode("GoalKick", place[2])
  BY <1>3, <1>4, AwardOk
<1> QED BY <1>1, <1>2, <1>5

(* The ball in play: the taker's second touch is punished, and while there *)
(* is no second touch nothing is forgotten.                                *)
LEMMA PlayOnTakes ==
  ASSUME NEW m, Sound(m), NEW b, NEW h \in Hits, NEW place \in Places, NEW away \in BOOLEAN,
         m.checkFoul, m.taker # NoPlayer, b.toucher = m.taker
  PROVE  LET o == UpdatePlayOn(m, b, h, place, away)
         IN  /\ SecondKick(m, b) => o.mode = Mode("FreeKick", Opponent(SideOf(o, m.taker)))
             /\ InPlay(o) => Takes(m, o)
<1> DEFINE n == UpdatePassChecks(m, h, away)
           f == CheckFreeKickTakerFoul(n, b)
           r == [n EXCEPT !.checkFoul = FALSE, !.indirect = FALSE]
           k == Mode("FreeKick", Opponent(SideOf(n, n.taker)))
           o == UpdatePlayOn(m, b, h, place, away)
<1>1. Plays(m, n) /\ Sound(n) /\ Takes(m, n)
  BY PassChecksOk, PassChecksTake DEF Plays, Follows
<1>2. n.taker = m.taker /\ n.checkFoul /\ b.toucher = n.taker
  BY <1>1 DEF Takes
<1>3. SecondKick(m, b) <=> SecondKick(n, b)
  <2> HIDE DEF n
  <2> QED BY <1>1, <1>2 DEF SecondKick, WasLastKickFromFreeKick, Takes
<1>4. CASE SecondKick(n, b)
  <2>1. o = Award(r, k)
    BY <1>2, <1>4 DEF UpdatePlayOn, CheckFreeKickTakerFoul
  <2>2. Same(n, r)
    BY <1>1 DEF Same, Keeps, Sound, Matches
  <2>3. k \in Modes
    BY ModeKinds, OpponentSide, SideOfSide DEF Restarts, PlacedKicks
  <2>4. k[1] = "FreeKick" /\ "FreeKick" \in Restarts
    BY DEF Mode, Restarts, PlacedKicks
  <2> HIDE DEF n, r, o
  <2>5. Sound(r) /\ Plays(n, r)
    BY <1>1, <2>2, SamePlays
  <2>6. Plays(r, o) /\ o.mode = k
    BY <2>1, <2>3, <2>5, AwardOk
  <2>7. o.left = n.left
    BY <2>5, <2>6 DEF Plays, Keeps
  <2>8. SideOf(o, m.taker) = SideOf(n, n.taker)
    BY <1>2, <2>7 DEF SideOf
  <2>9. ~InPlay(o)
    BY <2>4, <2>6, PlayModes
  <2> QED BY <2>6, <2>8, <2>9 DEF o
<1>5. CASE ~SecondKick(n, b)
  <2>1. f = n
    BY <1>5 DEF CheckFreeKickTakerFoul
  <2>2. \/ o = n
        \/ place[1] = "goal" /\ o = CheckGoal(n, b, place[2])
        \/ o = CheckBallLeftField(n, b, place)
    BY <1>5, <2>1 DEF UpdatePlayOn
  <2> HIDE DEF n, o
  <2>3. place[1] \in {"goal", "end"} => place[2] \in Sides
    BY DEF Places, InCircle, Beside, InArea, At, Sides
  <2>4. CASE o = n
    BY <1>1, <1>3, <1>5, <2>4 DEF o
  <2>5. ASSUME NEW kind \in {"KickIn", "CornerKick", "GoalKick", "Goal"}, NEW s, o.mode = Mode(kind, s)
        PROVE  ~InPlay(o)
    BY <2>5 DEF InPlay, PlayOn, Mode
  <2>6. CASE place[1] = "goal" /\ o = CheckGoal(n, b, place[2])
    <3>1. \E kind \in {"CornerKick", "GoalKick", "Goal"}, s \in Sides : o.mode = Mode(kind, s)
      BY <1>1, <2>3, <2>6, GoalModes
    <3>2. ~InPlay(o)
      BY <2>5, <3>1
    <3> QED BY <1>3, <1>5, <3>2 DEF o
  <2>7. CASE o = CheckBallLeftField(n, b, place) /\ o # n
    <3>1. \E kind \in {"KickIn", "CornerKick", "GoalKick"}, s \in Sides : o.mode = Mode(kind, s)
      BY <1>1, <2>7, LeftModes
    <3>2. ~InPlay(o)
      BY <2>5, <3>1
    <3> QED BY <1>3, <1>5, <3>2 DEF o
  <2> QED BY <2>2, <2>4, <2>6, <2>7
<1> QED BY <1>4, <1>5

LEMMA PassModeTakes ==
  ASSUME NEW m, Sound(m), NEW s \in Sides, NEW b, NEW h \in Hits,
         NEW place \in Places, NEW away \in BOOLEAN,
         m.checkFoul, m.taker # NoPlayer, b.toucher = m.taker
  PROVE  LET o == UpdatePassMode(m, s, b, h, place, away) IN InPlay(o) => Takes(m, o)
<1> DEFINE t == TeamOn(m, s)
           r == [u \in Teams |-> IF u = t THEN m.time ELSE Never]
           n == [m EXCEPT !.passTime = r,
                          !.touched[s] = NoPlayer, !.several[s] = FALSE,
                          !.leftCircle[s] = FALSE, !.cleared[t] = FALSE]
           k == SetPlayMode(n, PlayOn)
           o == UpdatePassMode(m, s, b, h, place, away)
<1>1. m.left \in Teams /\ m.time \in Nat
  BY DEF Sound, Matches
<1>2. t \in Teams /\ r \in [Teams -> Int]
  BY <1>1, TeamOnTeam DEF Never
<1>3. o = UpdatePlayOn(n, b, h, place, away) \/ o = UpdatePlayOn(k, b, h, place, away)
  BY Zenon DEF UpdatePassMode
<1> HIDE DEF t, r, o
<1>4. Same(m, n) /\ Takes(m, n)
  BY <1>2 DEF Same, Keeps, Sound, Matches, MaybePlayer, Takes
<1> HIDE DEF n
<1>5. Sound(n)
  BY <1>4, SamePlays
<1>6. Takes(n, k) /\ Sound(k)
  BY <1>5, SetPlayModeOk, SetPlayModeTakes, ModeKinds DEF Plays, Follows
<1> HIDE DEF k
<1>7. Takes(m, k)
  BY <1>4, <1>6 DEF Takes
<1>8. ASSUME NEW q, Sound(q), Takes(m, q), o = UpdatePlayOn(q, b, h, place, away), InPlay(o)
      PROVE  Takes(m, o)
  <2>1. q.checkFoul /\ q.taker # NoPlayer /\ b.toucher = q.taker
    BY <1>8 DEF Takes
  <2>2. Takes(q, o)
    BY <1>8, <2>1, PlayOnTakes
  <2> QED BY <1>8, <2>2 DEF Takes
<1>9. InPlay(o) => Takes(m, o)
  BY <1>3, <1>4, <1>5, <1>6, <1>7, <1>8
<1> QED BY <1>9 DEF o

(* A restart that is taken makes its taker the one to watch, and is        *)
(* indirect or not.                                                        *)
Watched(o, b, i) ==
  o.checkFoul /\ o.taker = b.toucher /\ o.kickTime = b.time /\ o.indirect = i

Indirect(m) == m.mode[1] \in {"KickOff", "KickIn", "FreeKick"}

LEMMA TakeWatches ==
  ASSUME NEW m, Sound(m), NEW b \in Balls, NEW i \in BOOLEAN PROVE Watched(TakeKick(m, b, i), b, i)
<1> DEFINE n == SetKickTakenValues(m, b, i)
<1>1. Same(m, n) /\ Watched(n, b, i)
  BY DEF SetKickTakenValues, Same, Keeps, Sound, Matches, Balls, Watched
<1>2. TakeKick(m, b, i) = SetPlayMode(n, PlayOn)
  BY DEF TakeKick
<1> HIDE DEF n
<1>3. Takes(n, SetPlayMode(n, PlayOn))
  BY <1>1, SamePlays, SetPlayModeTakes, ModeKinds
<1> QED BY <1>1, <1>2, <1>3 DEF Takes, Watched

LEMMA KickOffWatches ==
  ASSUME Cardinality(Players) > 2, NEW m, Sound(m), ~InPlay(m), NEW b \in Balls,
         ~TooOld(m), InPlay(UpdateKickOff(m, b))
  PROVE  Watched(UpdateKickOff(m, b), b, TRUE)
<1> DEFINE r == ResetKickChecks(m)
           n == [r EXCEPT !.allow = TRUE]
           k == TakeKick(n, b, TRUE)
           w == [k EXCEPT !.koTaker = b.toucher, !.allow = FALSE]
<1>1. Same(m, r)
  BY ResetOk
<1>2. Same(m, n)
  <2> HIDE DEF r
  <2> QED BY <1>1 DEF Same, Keeps, Sound, Matches
<1>3. UpdateKickOff(m, b) \in {n, w}
  BY DEF UpdateKickOff
<1> HIDE DEF n
<1>4. Sound(n) /\ ~InPlay(n)
  BY <1>2, SamePlays DEF InPlay, Same
<1>5. Watched(k, b, TRUE) /\ k \in Matches
  BY <1>4, TakeWatches, TakeOk DEF Plays, Follows, Sound
<1> HIDE DEF k
<1>6. Watched(w, b, TRUE)
  BY <1>5 DEF Watched, Matches
<1> HIDE DEF w
<1> QED BY <1>3, <1>4, <1>6

LEMMA PlacedWatches ==
  ASSUME NEW m, Sound(m), ~InPlay(m), NEW b \in Balls, NEW waits \in BOOLEAN, NEW next,
         NEW i \in BOOLEAN, next \in {ResetKickChecks(m), TakeKick(ResetKickChecks(m), b, i)},
         ~TooOld(m), InPlay(UpdatePlacedKick(m, b, waits, next))
  PROVE  Watched(UpdatePlacedKick(m, b, waits, next), b, i)
<1> DEFINE r == ResetKickChecks(m)
           n == [m EXCEPT !.repel = TRUE]
           w == [r EXCEPT !.repel = FALSE]
           o == UpdatePlacedKick(m, b, waits, next)
<1>1. o \in {n, next, r, w}
  BY DEF UpdatePlacedKick
<1>2. Same(m, n) /\ Same(m, r)
  BY ResetOk DEF Same, Keeps, Sound, Matches
<1>3. Same(m, w)
  <2> HIDE DEF r
  <2> QED BY <1>2 DEF Same, Keeps, Sound, Matches
<1> HIDE DEF r, n, w, o
<1>4. \A q : Same(m, q) => ~InPlay(q)
  BY DEF Same, InPlay
<1>5. Sound(r)
  BY <1>2, SamePlays
<1>6. Watched(TakeKick(r, b, i), b, i)
  BY <1>5, TakeWatches
<1>7. InPlay(o) => Watched(o, b, i)
  BY <1>1, <1>2, <1>3, <1>4, <1>6 DEF r
<1> QED BY <1>7 DEF o

LEMMA KickOffGoes ==
  ASSUME NEW m, Sound(m), NEW b \in Balls
  PROVE  UpdateKickOff(m, b).mode \in {m.mode, PlayOn}
<1> DEFINE r == ResetKickChecks(m)
           n == [r EXCEPT !.allow = TRUE]
           k == TakeKick(n, b, TRUE)
           w == [k EXCEPT !.koTaker = b.toucher, !.allow = FALSE]
<1>1. Same(m, r)
  BY ResetOk
<1>2. Same(m, n)
  <2> HIDE DEF r
  <2> QED BY <1>1 DEF Same, Keeps, Sound, Matches
<1>3. UpdateKickOff(m, b) \in {DropBall(n), n, w, SetPlayMode(n, PlayOn)}
  BY DEF UpdateKickOff
<1> HIDE DEF n
<1>4. Sound(n) /\ n.mode = m.mode
  BY <1>2, SamePlays DEF Same
<1>5. k.mode = PlayOn /\ k \in Matches
  BY <1>4, TakeOk DEF Plays, Follows, Sound
<1> HIDE DEF k
<1>6. w.mode = PlayOn
  BY <1>5 DEF Matches
<1>7. DropBall(n).mode = PlayOn /\ SetPlayMode(n, PlayOn).mode = PlayOn
  BY <1>4, DropOk, SetPlayModeOk, ModeKinds
<1> HIDE DEF w
<1> QED BY <1>3, <1>4, <1>6, <1>7

(* The four kicks from a place are one.                                    *)
LEMMA PlacedIs ==
  ASSUME NEW m, m.mode[1] \in PlacedKicks, NEW b, NEW h, NEW place, NEW away,
         NEW o \in UpdateMode(m, b, h, place, away)
  PROVE  \E waits \in BOOLEAN,
            next \in {ResetKickChecks(m), TakeKick(ResetKickChecks(m), b, Indirect(m))} :
              o = UpdatePlacedKick(m, b, waits, next)
<1>1. \/ m.mode[1] = "FreeKick" /\ o = UpdateFreeKick(m, b, TRUE)
      \/ m.mode[1] = "KickIn" /\ o = UpdateKickIn(m, b)
      \/ m.mode[1] = "DirectFreeKick" /\ o = UpdateFreeKick(m, b, FALSE)
      \/ m.mode[1] = "CornerKick" /\ o = UpdateCornerKick(m, b)
      \/ m.mode[1] = "GoalKick" /\ o = UpdateGoalKick(m, b, place)
  <2>1. m.mode # BeforeKickOff /\ m.mode # PlayOn /\ m.mode # GameOver
    BY DEF PlacedKicks, BeforeKickOff, PlayOn, GameOver, Mode
  <2>2. CASE m.mode[1] = "FreeKick"
    BY <2>1, <2>2 DEF UpdateMode
  <2>3. CASE m.mode[1] = "KickIn"
    BY <2>1, <2>3 DEF UpdateMode
  <2>4. CASE m.mode[1] = "DirectFreeKick"
    BY <2>1, <2>4 DEF UpdateMode
  <2>5. CASE m.mode[1] = "CornerKick"
    BY <2>1, <2>5 DEF UpdateMode
  <2>6. CASE m.mode[1] = "GoalKick"
    BY <2>1, <2>6 DEF UpdateMode
  <2> QED BY <2>2, <2>3, <2>4, <2>5, <2>6 DEF PlacedKicks
<1> DEFINE Take(i) == TakeKick(ResetKickChecks(m), b, i)
           waits == b.toucher = NoPlayer
           next == IF place = InArea THEN ResetKickChecks(m) ELSE Take(FALSE)
<1>2. CASE m.mode[1] \in {"FreeKick", "KickIn"}
  <2>1. Indirect(m) = TRUE
    BY <1>2 DEF Indirect
  <2>2. o = UpdatePlacedKick(m, b, FALSE, Take(TRUE))
    BY <1>1, <1>2 DEF UpdateFreeKick, UpdateKickIn
  <2> QED BY <2>1, <2>2
<1>3. CASE m.mode[1] \in {"DirectFreeKick", "CornerKick", "GoalKick"}
  <2>1. Indirect(m) = FALSE
    BY <1>3 DEF Indirect
  <2>2. o \in {UpdatePlacedKick(m, b, FALSE, Take(FALSE)), UpdatePlacedKick(m, b, waits, Take(FALSE)),
               UpdatePlacedKick(m, b, waits, next)}
    BY <1>1, <1>3 DEF UpdateFreeKick, UpdateCornerKick, UpdateGoalKick
  <2>3. waits \in BOOLEAN /\ next \in {ResetKickChecks(m), Take(FALSE)}
    OBVIOUS
  <2> HIDE DEF Take, waits, next
  <2>4. \E w \in BOOLEAN, e \in {ResetKickChecks(m), Take(FALSE)} : o = UpdatePlacedKick(m, b, w, e)
    BY <2>2, <2>3
  <2> QED BY <2>1, <2>4 DEF Take
<1> QED BY <1>2, <1>3 DEF PlacedKicks

LEMMA PlacedGoes ==
  ASSUME NEW m, Sound(m), NEW b \in Balls, NEW waits \in BOOLEAN, NEW next, NEW i \in BOOLEAN,
         next \in {ResetKickChecks(m), TakeKick(ResetKickChecks(m), b, i)}
  PROVE  UpdatePlacedKick(m, b, waits, next).mode \in {m.mode, PlayOn}
<1> DEFINE r == ResetKickChecks(m)
           n == [m EXCEPT !.repel = TRUE]
           w == [r EXCEPT !.repel = FALSE]
           o == UpdatePlacedKick(m, b, waits, next)
<1>1. o \in {n, DropBall(m), next, r, w}
  BY DEF UpdatePlacedKick
<1>2. Same(m, n) /\ Same(m, r)
  BY ResetOk DEF Same, Keeps, Sound, Matches
<1>3. Same(m, w)
  <2> HIDE DEF r
  <2> QED BY <1>2 DEF Same, Keeps, Sound, Matches
<1> HIDE DEF r, n, w, o
<1>4. Sound(r)
  BY <1>2, SamePlays
<1>5. DropBall(m).mode = PlayOn /\ TakeKick(r, b, i).mode = PlayOn
  BY <1>4, TakeOk, DropOk
<1>6. o.mode \in {m.mode, PlayOn}
  BY <1>1, <1>2, <1>3, <1>5 DEF r, Same
<1> QED BY <1>6 DEF o

(* What may follow a restart, and a break.                                 *)
LEMMA ModeGoes ==
  ASSUME NEW m, Sound(m), ~InPlay(m), NEW b \in Balls, NEW h, NEW place, NEW away,
         NEW o \in UpdateMode(m, b, h, place, away)
  PROVE  IF m.mode[1] \in Restarts THEN o.mode \in {m.mode, PlayOn}
         ELSE o.mode = m.mode \/ \E c \in Sides : o.mode = Mode("KickOff", c)
<1>1. m.mode \in Modes
  BY DEF Sound, Matches
<1>2. CASE m.mode = BeforeKickOff
  <2>1. o \in UpdateBeforeKickOff(m) /\ m.mode[1] \notin Restarts
    BY <1>2, ModeKinds DEF UpdateMode, BeforeKickOff, PlayOn, GameOver, Mode
  <2>2. CASE Same(m, o)
    BY <2>1, <2>2 DEF Same
  <2>3. CASE \E n : Same(m, n) /\ Sound(n) /\ o \in KickOffs(n, "none")
    BY <2>1, <2>3, KickOffsOk
  <2> QED BY <2>1, <2>2, <2>3, BeforeOk
<1>3. CASE m.mode[1] = "Goal"
  <2>1. m.mode[2] \in Sides /\ m.mode[1] \notin Restarts
    BY <1>1, <1>3 DEF Modes, Mode, BeforeKickOff, PlayOn, GameOver, Restarts, PlacedKicks
  <2>2. o \in UpdateGoal(m)
    BY <1>3 DEF UpdateMode, BeforeKickOff, PlayOn, GameOver, Mode
  <2>3. o = m \/ o \in KickOffs(m, Opponent(m.mode[2]))
    BY <2>2 DEF UpdateGoal
  <2> QED BY <2>1, <2>3, KickOffsOk, OpponentSide
<1>4. CASE m.mode = GameOver
  <2>1. o = UpdateGameOver(m) /\ m.mode[1] \notin Restarts
    BY <1>4, ModeKinds DEF UpdateMode, BeforeKickOff, PlayOn, GameOver, Mode
  <2>2. o.mode = m.mode
    BY <2>1 DEF UpdateGameOver, Sound, Matches
  <2> QED BY <2>1, <2>2
<1>5. CASE m.mode[1] = "Offside"
  <2>1. o = m
    BY <1>5 DEF UpdateMode, BeforeKickOff, PlayOn, GameOver, Mode
  <2> QED BY <1>5, <2>1 DEF Restarts, PlacedKicks
<1>6. CASE m.mode[1] = "KickOff"
  <2>1. o = UpdateKickOff(m, b)
    BY <1>6 DEF UpdateMode, BeforeKickOff, PlayOn, GameOver, Mode
  <2> QED BY <1>6, <2>1, KickOffGoes DEF Restarts
<1>7. CASE m.mode[1] \in PlacedKicks
  <2>1. PICK waits \in BOOLEAN,
             next \in {ResetKickChecks(m), TakeKick(ResetKickChecks(m), b, Indirect(m))} :
               o = UpdatePlacedKick(m, b, waits, next)
    BY <1>7, PlacedIs
  <2>2. Indirect(m) \in BOOLEAN
    BY DEF Indirect
  <2> QED BY <1>7, <2>1, <2>2, PlacedGoes DEF Restarts
<1> QED BY <1>1, <1>2, <1>3, <1>4, <1>5, <1>6, <1>7 DEF Modes, InPlay, Restarts

(* The switch over the play mode: what of the kick is remembered when the  *)
(* ball is in play afterwards.                                             *)
LEMMA ModeTakes ==
  ASSUME Cardinality(Players) > 2, NEW m, Sound(m), NEW b \in Balls, NEW h \in Hits,
         NEW place \in Places, NEW away \in BOOLEAN,
         NEW o \in UpdateMode(m, b, h, place, away), InPlay(o)
  PROVE  \/ InPlay(m) /\ (m.checkFoul /\ m.taker # NoPlayer /\ b.toucher = m.taker => Takes(m, o))
         \/ m.mode[1] \in Restarts /\ o.mode = PlayOn /\ (~TooOld(m) => Watched(o, b, Indirect(m)))
<1>1. m.mode \in Modes
  BY DEF Sound, Matches
<1>2. CASE m.mode = PlayOn
  <2>1. o = UpdatePlayOn(m, b, h, place, away)
    BY <1>2 DEF UpdateMode, BeforeKickOff, PlayOn, GameOver, Mode
  <2> QED BY <1>2, <2>1, PlayOnTakes DEF InPlay
<1>3. CASE m.mode[1] = "Pass"
  <2>1. m.mode[2] \in Sides
    BY <1>1, <1>3 DEF Modes, Mode, BeforeKickOff, PlayOn, GameOver, Restarts, PlacedKicks
  <2>2. o = UpdatePassMode(m, m.mode[2], b, h, place, away)
    BY <1>3 DEF UpdateMode, BeforeKickOff, PlayOn, GameOver, Mode
  <2> QED BY <1>3, <2>1, <2>2, PassModeTakes DEF InPlay
<1>4. CASE ~InPlay(m)
  <2>1. m.mode[1] \in Restarts /\ o.mode = PlayOn
    <3>1. \A c \in Sides : Mode("KickOff", c) # PlayOn /\ Mode("KickOff", c)[1] # "Pass"
      BY DEF Mode, PlayOn
    <3> QED BY <1>4, <3>1, ModeGoes DEF InPlay
  <2>2. CASE m.mode[1] = "KickOff"
    <3>1. o = UpdateKickOff(m, b) /\ Indirect(m) = TRUE
      BY <2>2 DEF UpdateMode, BeforeKickOff, PlayOn, GameOver, Mode, Indirect
    <3> QED BY <1>4, <2>1, <3>1, KickOffWatches
  <2>3. CASE m.mode[1] \in PlacedKicks
    <3>1. PICK waits \in BOOLEAN,
               next \in {ResetKickChecks(m), TakeKick(ResetKickChecks(m), b, Indirect(m))} :
                 o = UpdatePlacedKick(m, b, waits, next)
      BY <2>3, PlacedIs
    <3>2. Indirect(m) \in BOOLEAN
      BY DEF Indirect
    <3> QED BY <1>4, <2>1, <3>1, <3>2, PlacedWatches
  <2> QED BY <2>1, <2>2, <2>3 DEF Restarts
<1> QED BY <1>2, <1>3, <1>4 DEF InPlay

(* While nobody else has touched the ball since a restart, its taker is    *)
(* the one CheckFreeKickTakerFoul watches, and the last to have touched it.*)
Guards(m, k, b) ==
  InPlay(m) /\ k.taker # NoPlayer /\ ~k.others =>
    /\ m.checkFoul /\ m.taker = k.taker /\ m.kickTime = k.at
    /\ m.indirect = k.indirect
    /\ b.toucher = k.taker

TouchInv == Guards(match, kick, ball)

(* The update up to the switch: either the ball stays in play, or time is  *)
(* up and stays so.                                                        *)
LEMMA BeforeSwitch ==
  ASSUME IInv, NEW h \in Hits, NEW place \in Places, NEW away \in BOOLEAN,
         NEW m, NEW b, NEW n, NEW o, Updated(h, place, away, m, b, n, o)
  PROVE  /\ Takes(match, n)
         /\ InPlay(n) => n.mode = match.mode
         /\ InPlay(match) =>
              n.mode = match.mode \/ n.mode = GameOver \/ (n.mode = BeforeKickOff /\ n.lead = 0)
<1> DEFINE k == CheckTime(m)
<1>1. /\ Sound(match) /\ Sound(m) /\ Sound(n) /\ m.mode = match.mode
      /\ Sound(k) /\ (Turns(m, k) \/ OverOrOn(m, k))
  BY UpdateSound, CheckTimeOk DEF IInv, Follows
<1>2. Takes(match, m)
  BY <1>1, TimeTakes DEF Updated
<1>3. Takes(m, k) /\ (Turns(m, k) /\ m.mode # BeforeKickOff => k.lead = 0)
  BY <1>1, CheckTimeTakes
<1>4. Takes(k, n) /\ n.lead = k.lead /\ Same(k, n)
  BY <1>1, AllowTakes, AllowOk DEF Updated
<1> HIDE DEF k
<1>5. Takes(match, n)
  BY <1>2, <1>3, <1>4 DEF Takes
<1>6. n.mode = k.mode
  BY <1>4 DEF Same
<1>7. k.mode \in {m.mode, GameOver} \/ (k.mode = BeforeKickOff /\ (m.mode # BeforeKickOff => k.lead = 0))
  BY <1>1, <1>3 DEF Turns, OverOrOn
<1>8. ~(GameOver = PlayOn) /\ GameOver[1] # "Pass" /\ BeforeKickOff # PlayOn /\ BeforeKickOff[1] # "Pass"
  BY DEF GameOver, PlayOn, BeforeKickOff, Mode
<1> QED BY <1>1, <1>4, <1>5, <1>6, <1>7, <1>8 DEF InPlay

(* The history of the kick while the ball is in play.                      *)
LEMMA KickGoesOn ==
  ASSUME kick \in Kicks, NEW n, NEW o, NEW b, NEW h, NEW place, n.mode[1] \notin Restarts
  PROVE  LET k == KickAfter(n, o, b, h, place)
         IN  /\ k.taker = kick.taker /\ k.at = kick.at /\ k.indirect = kick.indirect
             /\ ~k.others => ~kick.others /\ Hitters(h) \subseteq {kick.taker}
<1> DEFINE oth == kick.others \/ Hitters(h) \ {kick.taker} # {}
           fre == \/ kick.free \/ (\E p \in Hitters(h) : Team[p] # kick.byTeam)
                  \/ h # <<>> /\ place # InCircle
           e == [kick EXCEPT !.others = oth, !.free = fre]
<1>1. KickAfter(n, o, b, h, place) = [kick EXCEPT
         !.others = @ \/ Hitters(h) \ {kick.taker} # {},
         !.free = @ \/ (\E p \in Hitters(h) : Team[p] # kick.byTeam) \/ (h # <<>> /\ place # InCircle)]
  BY Zenon DEF KickAfter
<1>2. KickAfter(n, o, b, h, place) = e
  BY <1>1, Zenon
<1>3. ~oth => ~kick.others /\ Hitters(h) \subseteq {kick.taker}
  OBVIOUS
<1> HIDE DEF oth, fre
<1>4. /\ e.taker = kick.taker /\ e.at = kick.at /\ e.indirect = kick.indirect
      /\ e.others = oth
  BY DEF Kicks
<1> HIDE DEF e
<1> QED BY <1>2, <1>3, <1>4

LEMMA HeadHits == ASSUME NEW h \in Hits, h # <<>> PROVE Head(h) \in Hitters(h)
<1>1. h \in Seq(Players)
  BY HitsSeq
<1>2. 1 \in DOMAIN h /\ Head(h) = h[1]
  BY <1>1
<1> QED BY <1>2 DEF Hitters

(* Before the update: the taker is watched and the last to touch the ball, *)
(* also after the collisions of this one.                                  *)
LEMMA StillWatched ==
  ASSUME IInv, TouchInv, NEW h \in Hits, NEW place \in Places, NEW away \in BOOLEAN,
         NEW m, NEW b, NEW n, NEW o, Updated(h, place, away, m, b, n, o),
         InPlay(n), kick.taker # NoPlayer, ~kick'.others
  PROVE  /\ n.checkFoul /\ n.taker = kick.taker /\ n.kickTime = kick.at
         /\ n.indirect = kick.indirect /\ b.toucher = kick.taker
         /\ kick'.taker = kick.taker /\ kick'.at = kick.at /\ kick'.indirect = kick.indirect
<1>1. Takes(match, n) /\ n.mode = match.mode
  BY BeforeSwitch
<1>2. n.mode[1] \notin Restarts
  BY PlayModes
<1>3. kick \in Kicks /\ kick' = KickAfter(n, o, b, h, place)
  BY DEF IInv, TypeOK, Kicks, Updated
<1>4. /\ kick'.taker = kick.taker /\ kick'.at = kick.at /\ kick'.indirect = kick.indirect
      /\ ~kick.others /\ Hitters(h) \subseteq {kick.taker}
  BY <1>2, <1>3, KickGoesOn
<1>5. InPlay(match)
  BY <1>1 DEF InPlay
<1>6. /\ match.checkFoul /\ match.taker = kick.taker /\ match.kickTime = kick.at
      /\ match.indirect = kick.indirect /\ ball.toucher = kick.taker
  BY <1>4, <1>5 DEF TouchInv, Guards
<1>7. b.toucher = kick.taker
  <2>1. b.toucher = IF h = <<>> THEN ball.toucher ELSE Head(h)
    BY DEF Updated, UpdateBall
  <2> QED BY <2>1, <1>4, <1>6, HeadHits
<1> QED BY <1>1, <1>4, <1>6, <1>7 DEF Takes

LEMMA TouchStep ==
  ASSUME Cardinality(Players) > 2, IInv, TouchInv, [Next]_vars PROVE TouchInv'
<1>1. CASE Update
  <2>1. PICK h \in Hits, place \in Places, away \in BOOLEAN :
          \E m, b, n, o : Updated(h, place, away, m, b, n, o)
    BY <1>1, UpdateSplits
  <2>2. PICK m, b, n, o : Updated(h, place, away, m, b, n, o)
    BY <2>1
  <2>3. Sound(n) /\ b \in Balls /\ o \in UpdateMode(n, b, h, place, away)
    BY <2>2, UpdateSound DEF IInv, Updated
  <2>4. match' = o /\ ball' = b /\ kick' = KickAfter(n, o, b, h, place)
    BY <2>2 DEF Updated
  <2> SUFFICES ASSUME InPlay(o), kick'.taker # NoPlayer, ~kick'.others
               PROVE  /\ o.checkFoul /\ o.taker = kick'.taker /\ o.kickTime = kick'.at
                      /\ o.indirect = kick'.indirect /\ b.toucher = kick'.taker
    BY <2>4 DEF TouchInv, Guards, InPlay
  <2>5. CASE InPlay(n) /\ (n.checkFoul /\ n.taker # NoPlayer /\ b.toucher = n.taker => Takes(n, o))
    <3>1. kick'.taker = kick.taker
      BY <2>4, <2>5, KickGoesOn, PlayModes DEF IInv, TypeOK, Kicks
    <3>2. /\ n.checkFoul /\ n.taker = kick.taker /\ n.kickTime = kick.at
          /\ n.indirect = kick.indirect /\ b.toucher = kick.taker
          /\ kick'.at = kick.at /\ kick'.indirect = kick.indirect
      BY <2>2, <2>5, <3>1, StillWatched
    <3> QED BY <2>5, <3>1, <3>2 DEF Takes
  <2>6. CASE n.mode[1] \in Restarts /\ o.mode = PlayOn /\ (~TooOld(n) => Watched(o, b, Indirect(n)))
    <3>1. CASE TooOld(n)
      <4> DEFINE fre == \/ kick.free
                        \/ \E p \in Hitters(h) : Team[p] # kick.byTeam
                        \/ h # <<>> /\ place # InCircle
      <4>1. kick' = NoKick \/ kick' = [NoKick EXCEPT !.byTeam = kick.byTeam, !.free = fre]
        <5>1. KickAfter(n, o, b, h, place) =
                IF n.mode[1] = "KickOff" THEN NoKick
                ELSE [NoKick EXCEPT !.byTeam = kick.byTeam, !.free = fre]
          BY <2>6, <3>1, Zenon DEF KickAfter
        <5> HIDE DEF fre
        <5> QED BY <2>4, <5>1
      <4> HIDE DEF fre
      <4>2. NoKick.taker = NoPlayer
        BY DEF NoKick
      <4>3. \A u, v : [NoKick EXCEPT !.byTeam = u, !.free = v].taker = NoPlayer
        BY DEF NoKick
      <4>4. kick'.taker = NoPlayer
        BY <4>1, <4>2, <4>3
      <4> QED BY <4>4
    <3>2. CASE ~TooOld(n)
      <4>1. kick'.taker = b.toucher /\ kick'.at = b.time /\ kick'.indirect = Indirect(n)
        <5>1. KickAfter(n, o, b, h, place) =
                [taker |-> b.toucher, at |-> b.time,
                 indirect |-> n.mode[1] \in {"KickOff", "KickIn", "FreeKick"},
                 others |-> FALSE,
                 byTeam |-> IF n.mode[1] = "KickOff" THEN TeamOn(n, n.mode[2]) ELSE kick.byTeam,
                 free |-> IF n.mode[1] = "KickOff"
                          THEN Team[b.toucher] # TeamOn(n, n.mode[2])
                          ELSE \/ kick.free \/ (\E p \in Hitters(h) : Team[p] # kick.byTeam)
                               \/ h # <<>> /\ place # InCircle]
          BY <2>6, <3>2, Zenon DEF KickAfter
        <5> QED BY <2>4, <5>1 DEF Indirect
      <4> QED BY <2>6, <3>2, <4>1 DEF Watched
    <3> QED BY <3>1, <3>2
  <2> QED BY <2>3, <2>5, <2>6, ModeTakes
<1>2. ASSUME NEW p \in Players, StartPassMode(p) PROVE TouchInv'
  <2>1. Sound(match) /\ match.mode = PlayOn /\ match' = SetPlayMode(match, Mode("Pass", SideOf(match, p)))
    BY <1>2 DEF StartPassMode, IInv, TypeOK, ClockInv, Sound
  <2>2. Takes(match, match')
    BY <2>1, SetPlayModeTakes, ModeKinds, SideOfSide
  <2>3. kick' = kick /\ ball' = ball
    BY <1>2 DEF StartPassMode
  <2> QED BY <2>1, <2>2, <2>3 DEF TouchInv, Guards, Takes, InPlay
<1>3. CASE TrainerPlayMode \/ TrainerKickOff \/ TrainerDropBall
  <2>1. kick' = NoKick
    BY <1>3 DEF TrainerPlayMode, TrainerKickOff, TrainerDropBall, Command
  <2> QED BY <2>1 DEF TouchInv, Guards, NoKick
<1>4. CASE UNCHANGED vars
  BY <1>4 DEF vars, TouchInv, Guards, InPlay
<1> QED BY <1>1, <1>2, <1>3, <1>4 DEF Next

(* The action of SecondTouchPunished.                                      *)
TouchPunished ==
  (/\ UNCHANGED requests /\ match'.time > match.time
   /\ match.mode = PlayOn
   /\ kick.taker # NoPlayer /\ ~kick'.others
   /\ ball'.toucher = kick.taker /\ ball'.time = match'.time
   /\ ball'.time - kick.at >= KickDuration
   /\ match'.mode \notin {BeforeKickOff, GameOver})
    => match'.mode = Mode("FreeKick", Opponent(SideOf(match', kick.taker)))

LEMMA PunishStep == IInv /\ TouchInv /\ [Next]_vars => TouchPunished
<1> SUFFICES ASSUME IInv, TouchInv, [Next]_vars,
                    UNCHANGED requests, match'.time > match.time, match.mode = PlayOn,
                    kick.taker # NoPlayer, ~kick'.others, ball'.toucher = kick.taker,
                    ball'.time - kick.at >= KickDuration,
                    match'.mode \notin {BeforeKickOff, GameOver}
             PROVE  match'.mode = Mode("FreeKick", Opponent(SideOf(match', kick.taker)))
  BY DEF TouchPunished
<1>1. Update
  <2>1. requests \in Nat /\ match.time \in Nat
    BY NumbersOk DEF IInv, TypeOK, Matches, Numbers
  <2>2. ~Request /\ match' # match
    BY <2>1 DEF Request
  <2> QED BY <2>2 DEF Next, vars, StartPassMode, TrainerPlayMode, TrainerKickOff, TrainerDropBall, Command
<1>2. PICK h \in Hits, place \in Places, away \in BOOLEAN :
        \E m, b, n, o : Updated(h, place, away, m, b, n, o)
  BY <1>1, UpdateSplits
<1>3. PICK m, b, n, o : Updated(h, place, away, m, b, n, o)
  BY <1>2
<1>4. Sound(n) /\ b \in Balls /\ o \in UpdateMode(n, b, h, place, away)
  BY <1>3, UpdateSound DEF IInv, Updated
<1>5. match' = o /\ ball' = b
  BY <1>3 DEF Updated
<1>6. n.mode = PlayOn \/ n.mode = GameOver \/ (n.mode = BeforeKickOff /\ n.lead = 0)
  BY <1>3, BeforeSwitch DEF InPlay
<1>7. n.mode = PlayOn
  <2>1. n.mode # GameOver
    <3>1. SUFFICES ASSUME n.mode = GameOver PROVE FALSE
      OBVIOUS
    <3>2. o = UpdateGameOver(n)
      BY <1>4, <3>1 DEF UpdateMode, BeforeKickOff, PlayOn, GameOver, Mode
    <3>3. o.mode = GameOver
      BY <1>4, <3>1, <3>2 DEF UpdateGameOver, Sound, Matches
    <3> QED BY <1>5, <3>3
  <2>2. ~(n.mode = BeforeKickOff /\ n.lead = 0)
    <3>1. SUFFICES ASSUME n.mode = BeforeKickOff, n.lead = 0 PROVE FALSE
      OBVIOUS
    <3>2. o \in UpdateBeforeKickOff(n)
      BY <1>4, <3>1 DEF UpdateMode, BeforeKickOff, PlayOn, GameOver, Mode
    <3> DEFINE q == [n EXCEPT !.origin = IF @ > n.lead THEN n.lead ELSE @]
    <3>3. o = q
      <4>1. n.origin \in Nat /\ WaitBeforeKickOff \in Nat
        BY <1>4, NumbersOk DEF Sound, Matches, Numbers
      <4>2. ~((IF n.origin > n.lead THEN 0 ELSE n.lead - n.origin) > WaitBeforeKickOff)
        BY <3>1, <4>1
      <4> HIDE DEF q
      <4>3. UpdateBeforeKickOff(n) = {q}
        BY <4>2, Zenon DEF UpdateBeforeKickOff, q
      <4> QED BY <3>2, <4>3
    <3>4. o.mode = BeforeKickOff
      BY <1>4, <3>1, <3>3 DEF Sound, Matches
    <3> QED BY <1>5, <3>4
  <2> QED BY <1>6, <2>1, <2>2
<1>8. /\ n.checkFoul /\ n.taker = kick.taker /\ n.kickTime = kick.at /\ b.toucher = kick.taker
  BY <1>3, <1>7, StillWatched DEF InPlay
<1>9. SecondKick(n, b)
  <2>1. b.time - n.kickTime >= KickDuration
    BY <1>5, <1>8
  <2>2. b.time \in Nat /\ n.kickTime \in Nat /\ KickDuration \in Nat
    BY <1>4, NumbersOk DEF Balls, Sound, Matches, Numbers
  <2> QED BY <1>8, <2>1, <2>2 DEF SecondKick, WasLastKickFromFreeKick
<1>10. o = UpdatePlayOn(n, b, h, place, away)
  BY <1>4, <1>7 DEF UpdateMode, BeforeKickOff, PlayOn, GameOver, Mode
<1> QED BY <1>4, <1>5, <1>8, <1>9, <1>10, PlayOnTakes

(* Whoever takes a kick-off or a placed kick and touches the ball again,   *)
(* before any other player has, loses the ball to a free kick, in a match  *)
(* of more than two players (SoccerRuleAspect::CheckFreeKickTakerFoul and  *)
(* SetKickTakenValues).                                                    *)
THEOREM SecondTouchLoses ==
  ASSUME Cardinality(Players) > 2 PROVE Spec => SecondTouchPunished
<1>1. Init => TouchInv
  BY DEF Init, TouchInv, Guards, NoKick
<1>2. IInv /\ TouchInv /\ [Next]_vars => TouchInv'
  BY TouchStep
<1>3. IInv /\ TouchInv /\ [Next]_vars => [TouchPunished]_vars
  BY PunishStep
<1>4. SecondTouchPunished <=> [][TouchPunished]_vars
  BY DEF SecondTouchPunished, TouchPunished
<1> QED BY <1>1, <1>2, <1>3, <1>4, AlwaysInv, PTL DEF Spec
-----------------------------------------------------------------------------
(* Goals.  The side that kicked off must not score at once.                *)

Running(m) == InPlay(m) \/ m.mode[1] \in PlacedKicks

(* What CheckGoal asks of the kick-off is left alone.                      *)
OpenerKept(m, n) == n.allow = m.allow /\ n.koTaker = m.koTaker

LEMMA SetPlayModeOpener ==
  ASSUME NEW m, Sound(m), NEW mode PROVE OpenerKept(m, SetPlayMode(m, mode))
<1> DEFINE n == [m EXCEPT !.mode = mode, !.lastChange = m.time, !.lead = 0, !.fup = 0]
<1>1. OpenerKept(m, n) /\ OpenerKept(m, m)
  BY DEF OpenerKept, Sound, Matches
<1>2. SetPlayMode(m, mode) = m \/ SetPlayMode(m, mode) = n
  BY DEF SetPlayMode
<1> HIDE DEF n
<1> QED BY <1>1, <1>2

LEMMA AwardOpener ==
  ASSUME NEW m, Sound(m), NEW mode \in Modes PROVE OpenerKept(m, Award(m, mode))
<1> DEFINE n == SetPlayMode(m, mode)
<1>1. OpenerKept(m, n) /\ n \in Matches
  BY SetPlayModeOpener, SetPlayModeOk DEF Plays, Follows, Sound
<1>2. Award(m, mode) = [n EXCEPT !.repel = TRUE]
  BY DEF Award
<1> HIDE DEF n
<1> QED BY <1>1, <1>2 DEF OpenerKept, Matches

LEMMA PassChecksOpener ==
  ASSUME NEW m, Sound(m), NEW h, NEW away PROVE OpenerKept(m, UpdatePassChecks(m, h, away))
<1> DEFINE s      == IF WaitsToScore(m, "left") THEN "left" ELSE "right"
           own    == {i \in DOMAIN h : SideOf(m, h[i]) = s}
           first  == h[CHOOSE i \in own : \A j \in own : i <= j]
           last   == m.touched[s]
           passed == /\ own # {}
                     /\ \/ \E i, j \in own : i # j
                        \/ last # NoPlayer /\ (first # last \/ m.several[s])
           left   == m.leftCircle[s] \/ away
           c      == IF own = {} \/ last # NoPlayer THEN last ELSE first
           d      == m.several[s] \/ passed
           t      == TeamOn(m, s)
           e      == m.cleared[t] \/ (passed /\ left)
           n      == [m EXCEPT !.leftCircle[s] = left, !.touched[s] = c,
                               !.several[s] = d, !.cleared[t] = e]
<1>1. UpdatePassChecks(m, h, away) = m \/ UpdatePassChecks(m, h, away) = n
  BY Zenon DEF UpdatePassChecks
<1> HIDE DEF left, c, d, e, t, s
<1>2. OpenerKept(m, n) /\ OpenerKept(m, m)
  BY DEF OpenerKept, Sound, Matches
<1>3. OpenerKept(m, UpdatePassChecks(m, h, away))
  <2> HIDE DEF n
  <2> QED BY <1>1, <1>2
<1> QED BY <1>3

(* In play, CheckFreeKickTakerFoul forgets the taker or awards a kick.     *)
LEMMA TakerFoulIs ==
  ASSUME NEW m, Sound(m), NEW b
  PROVE  LET f == CheckFreeKickTakerFoul(m, b)
             r == [m EXCEPT !.checkFoul = FALSE, !.indirect = FALSE]
         IN  /\ Same(m, r) /\ Sound(r) /\ OpenerKept(m, r)
             /\ ~SecondKick(m, b) => f = m
             /\ SecondKick(m, b) /\ b.toucher # m.taker => f = r
             /\ SecondKick(m, b) /\ b.toucher = m.taker =>
                  \E k \in Modes : f = Award(r, k) /\ k[1] = "FreeKick"
<1> DEFINE r == [m EXCEPT !.checkFoul = FALSE, !.indirect = FALSE]
           k == Mode("FreeKick", Opponent(SideOf(m, m.taker)))
<1>1. Same(m, r) /\ OpenerKept(m, r)
  BY DEF Same, Keeps, Sound, Matches, OpenerKept
<1>2. k \in Modes /\ k[1] = "FreeKick"
  BY ModeKinds, OpponentSide, SideOfSide DEF Restarts, PlacedKicks
<1>3. CheckFreeKickTakerFoul(m, b) =
        IF ~SecondKick(m, b) THEN m ELSE IF b.toucher # m.taker THEN r ELSE Award(r, k)
  BY DEF CheckFreeKickTakerFoul
<1>4. Sound(r)
  BY <1>1, SamePlays
<1> HIDE DEF r, k
<1>5. \E q \in Modes : Award(r, k) = Award(r, q) /\ q[1] = "FreeKick"
  BY <1>2
<1> QED BY <1>1, <1>2, <1>3, <1>4, <1>5 DEF r

LEMMA GoalOpener ==
  ASSUME NEW m, Sound(m), NEW b, NEW s \in Sides PROVE OpenerKept(m, CheckGoal(m, b, s))
<1> DEFINE n == [m EXCEPT !.indirect = FALSE]
<1>1. Same(m, n) /\ OpenerKept(m, n)
  BY DEF Same, Keeps, Sound, Matches, OpenerKept
<1>2. /\ Mode("GoalKick", s) \in Modes /\ Mode("Goal", Opponent(s)) \in Modes
      /\ Mode("CornerKick", Opponent(s)) \in Modes
  BY ModeKinds, OpponentSide DEF Restarts, PlacedKicks
<1>3. CheckGoal(m, b, s) \in
        {Award(n, Mode("CornerKick", Opponent(s))), Award(n, Mode("GoalKick", s)),
         Award(m, Mode("GoalKick", s)), SetPlayMode(m, Mode("Goal", Opponent(s)))}
  <2>1. \A p : PunishIndirectKickGoal(m, p, s) \in
          {Award(n, Mode("CornerKick", Opponent(s))), Award(n, Mode("GoalKick", s))}
    BY DEF PunishIndirectKickGoal
  <2>2. CheckGoal(m, b, s) \in
        {PunishIndirectKickGoal(m, m.koTaker, s), PunishIndirectKickGoal(m, b.toucher, s),
         Award(m, Mode("GoalKick", s)), SetPlayMode(m, Mode("Goal", Opponent(s)))}
    BY Zenon DEF CheckGoal
  <2> HIDE DEF n
  <2> QED BY <2>1, <2>2
<1> HIDE DEF n
<1>4. Sound(n)
  BY <1>1, SamePlays
<1>5. \A mode \in Modes : OpenerKept(m, Award(n, mode))
  BY <1>1, <1>4, AwardOpener DEF OpenerKept
<1> QED BY <1>2, <1>3, <1>5, AwardOpener, SetPlayModeOpener

LEMMA LeftFieldOpener ==
  ASSUME NEW m, Sound(m), NEW b, NEW place \in Places
  PROVE  OpenerKept(m, CheckBallLeftField(m, b, place))
<1> DEFINE s == SideOf(m, b.toucher)
<1>1. s \in Sides /\ Opponent(s) \in Sides
  BY SideOfSide, OpponentSide
<1>2. place[1] = "end" => place[2] \in Sides
  BY DEF Places, InCircle, Beside, InArea, At, Sides
<1>3. /\ Mode("KickIn", Opponent(s)) \in Modes /\ Mode("CornerKick", Opponent(s)) \in Modes
      /\ place[1] = "end" => Mode("GoalKick", place[2]) \in Modes
  BY <1>1, <1>2, ModeKinds DEF Restarts, PlacedKicks
<1>4. \/ CheckBallLeftField(m, b, place) \in
           {m, Award(m, Mode("KickIn", Opponent(s))), Award(m, Mode("CornerKick", Opponent(s)))}
      \/ place[1] = "end" /\ CheckBallLeftField(m, b, place) = Award(m, Mode("GoalKick", place[2]))
  BY DEF CheckBallLeftField
<1>5. OpenerKept(m, m)
  BY DEF OpenerKept
<1> HIDE DEF s
<1> QED BY <1>3, <1>4, <1>5, AwardOpener

(* An update in play, in terms of its three checks.                        *)
LEMMA PlayOnIs ==
  ASSUME NEW m, Sound(m), NEW b, NEW h \in Hits, NEW place \in Places, NEW away \in BOOLEAN
  PROVE  LET n == UpdatePassChecks(m, h, away)
             f == CheckFreeKickTakerFoul(n, b)
             o == UpdatePlayOn(m, b, h, place, away)
         IN  /\ Plays(m, n) /\ Sound(n) /\ OpenerKept(m, n) /\ Takes(m, n)
             /\ Sound(f) /\ Plays(n, f) /\ OpenerKept(m, f)
             /\ \/ o = f
                \/ ~(SecondKick(n, b) /\ b.toucher = n.taker) /\ o # f
                   /\ \/ place[2] \in Sides /\ o = CheckGoal(f, b, place[2])
                      \/ o = CheckBallLeftField(f, b, place)
<1> DEFINE n == UpdatePassChecks(m, h, away)
           f == CheckFreeKickTakerFoul(n, b)
           o == UpdatePlayOn(m, b, h, place, away)
<1>1. Plays(m, n) /\ Sound(n) /\ OpenerKept(m, n) /\ Takes(m, n)
  BY PassChecksOk, PassChecksTake, PassChecksOpener DEF Plays, Follows
<1>2. place[1] = "goal" => place[2] \in Sides
  BY DEF Places, InCircle, Beside, InArea, At, Sides
<1>3. \/ o = f
      \/ /\ ~(SecondKick(n, b) /\ b.toucher = n.taker)
         /\ \/ place[1] = "goal" /\ o = CheckGoal(f, b, place[2])
            \/ o = CheckBallLeftField(f, b, place)
  BY DEF UpdatePlayOn
<1> HIDE DEF n, o
<1>4. Plays(n, f) /\ Sound(f)
  BY <1>1, TakerFoulOk DEF Plays, Follows
<1>5. OpenerKept(n, f)
  <2> DEFINE r == [n EXCEPT !.checkFoul = FALSE, !.indirect = FALSE]
  <2>1. Sound(r) /\ OpenerKept(n, r)
    BY <1>1, TakerFoulIs
  <2>2. f \in {n, r} \/ \E k \in Modes : f = Award(r, k)
    BY <1>1, TakerFoulIs
  <2> HIDE DEF r, f
  <2> QED BY <2>1, <2>2, AwardOpener DEF OpenerKept
<1> HIDE DEF f
<1>6. OpenerKept(m, f)
  BY <1>1, <1>5 DEF OpenerKept
<1> QED BY <1>1, <1>2, <1>3, <1>4, <1>6 DEF n, f, o

LEMMA PlayOnOpener ==
  ASSUME NEW m, Sound(m), NEW b, NEW h \in Hits, NEW place \in Places, NEW away \in BOOLEAN
  PROVE  OpenerKept(m, UpdatePlayOn(m, b, h, place, away))
<1> DEFINE f == CheckFreeKickTakerFoul(UpdatePassChecks(m, h, away), b)
           o == UpdatePlayOn(m, b, h, place, away)
<1>1. /\ Sound(f) /\ OpenerKept(m, f)
      /\ \/ o = f
         \/ place[2] \in Sides /\ o = CheckGoal(f, b, place[2])
         \/ o = CheckBallLeftField(f, b, place)
  BY PlayOnIs
<1> HIDE DEF f, o
<1>2. OpenerKept(m, o)
  BY <1>1, GoalOpener, LeftFieldOpener DEF OpenerKept
<1> QED BY <1>2 DEF o

(* A team's pass mode starts its checks anew.                              *)
LEMMA PassModeIs ==
  ASSUME NEW m, Sound(m), NEW s \in Sides, NEW b, NEW h \in Hits,
         NEW place \in Places, NEW away \in BOOLEAN
  PROVE  LET t == TeamOn(m, s)
         IN  \E q : /\ Sound(q) /\ Takes(m, q) /\ OpenerKept(m, q)
                    /\ Keeps(m, q) /\ q.time = m.time
                    /\ q.mode = m.mode \/ q.mode = PlayOn
                    /\ t \in Teams /\ q.passTime[t] = m.time /\ ~q.cleared[t]
                    /\ q.touched[s] = NoPlayer /\ ~q.several[s]
                    /\ UpdatePassMode(m, s, b, h, place, away) = UpdatePlayOn(q, b, h, place, away)
<1> DEFINE t == TeamOn(m, s)
           r == [u \in Teams |-> IF u = t THEN m.time ELSE Never]
           n == [m EXCEPT !.passTime = r,
                          !.touched[s] = NoPlayer, !.several[s] = FALSE,
                          !.leftCircle[s] = FALSE, !.cleared[t] = FALSE]
           k == SetPlayMode(n, PlayOn)
           o == UpdatePassMode(m, s, b, h, place, away)
<1>1. m.left \in Teams /\ m.time \in Nat
  BY DEF Sound, Matches
<1>2. t \in Teams /\ r \in [Teams -> Int] /\ (t \in Teams => r[t] = m.time)
  BY <1>1, TeamOnTeam DEF Never
<1>3. o = UpdatePlayOn(n, b, h, place, away) \/ o = UpdatePlayOn(k, b, h, place, away)
  BY Zenon DEF UpdatePassMode
<1> HIDE DEF t, r, o
<1>4. Same(m, n) /\ Takes(m, n) /\ OpenerKept(m, n)
  BY <1>2 DEF Same, Keeps, Sound, Matches, MaybePlayer, Takes, OpenerKept
<1>5. n.passTime = r /\ ~n.cleared[t] /\ n.touched[s] = NoPlayer /\ ~n.several[s]
  BY <1>2 DEF Sound, Matches
<1> HIDE DEF n
<1>6. Sound(n)
  BY <1>4, SamePlays
<1>7. Takes(n, k) /\ Plays(n, k) /\ k.mode = PlayOn /\ OpenerKept(n, k)
  BY <1>6, SetPlayModeOk, SetPlayModeTakes, SetPlayModeOpener, ModeKinds
<1>8. /\ k.passTime = n.passTime /\ k.cleared = n.cleared
      /\ k.touched = n.touched /\ k.several = n.several
  BY <1>6 DEF SetPlayMode, Sound, Matches
<1> HIDE DEF k
<1>9. CASE o = UpdatePlayOn(n, b, h, place, away)
  BY <1>2, <1>4, <1>5, <1>6, <1>9 DEF o, t, Same
<1>10. CASE o = UpdatePlayOn(k, b, h, place, away)
  <2>1. Sound(k) /\ Takes(m, k) /\ OpenerKept(m, k) /\ Keeps(m, k) /\ k.time = m.time
    BY <1>4, <1>7 DEF Takes, OpenerKept, Plays, Follows, Keeps, Same
  <2>2. k.passTime[t] = m.time /\ ~k.cleared[t] /\ k.touched[s] = NoPlayer /\ ~k.several[s]
    BY <1>2, <1>5, <1>8
  <2> QED BY <1>2, <1>4, <1>7, <1>10, <2>1, <2>2 DEF o, t
<1> QED BY <1>3, <1>9, <1>10

LEMMA PassModeOpener ==
  ASSUME NEW m, Sound(m), NEW s \in Sides, NEW b, NEW h \in Hits,
         NEW place \in Places, NEW away \in BOOLEAN
  PROVE  OpenerKept(m, UpdatePassMode(m, s, b, h, place, away))
<1>1. PICK q : /\ Sound(q) /\ OpenerKept(m, q)
               /\ UpdatePassMode(m, s, b, h, place, away) = UpdatePlayOn(q, b, h, place, away)
  BY PassModeIs
<1> QED BY <1>1, PlayOnOpener DEF OpenerKept

LEMMA PlacedOpener ==
  ASSUME NEW m, Sound(m), NEW b \in Balls, NEW waits \in BOOLEAN, NEW next, NEW i \in BOOLEAN,
         next \in {ResetKickChecks(m), TakeKick(ResetKickChecks(m), b, i)}
  PROVE  OpenerKept(m, UpdatePlacedKick(m, b, waits, next))
<1> DEFINE r == ResetKickChecks(m)
           n == [m EXCEPT !.repel = TRUE]
           w == [r EXCEPT !.repel = FALSE]
           v == SetKickTakenValues(r, b, i)
           o == UpdatePlacedKick(m, b, waits, next)
<1>1. o \in {n, DropBall(m), next, r, w}
  BY DEF UpdatePlacedKick
<1>2. OpenerKept(m, n) /\ OpenerKept(m, r)
  BY DEF OpenerKept, ResetKickChecks, Sound, Matches
<1>3. Sound(r)
  BY ResetOk, SamePlays
<1>4. OpenerKept(m, w)
  <2> HIDE DEF r
  <2> QED BY <1>2, <1>3 DEF OpenerKept, Sound, Matches
<1>5. DropBall(m) = SetPlayMode(r, PlayOn) /\ TakeKick(r, b, i) = SetPlayMode(v, PlayOn)
  BY DEF DropBall, TakeKick
<1>6. OpenerKept(m, DropBall(m))
  <2> HIDE DEF r
  <2> QED BY <1>2, <1>3, <1>5, SetPlayModeOpener DEF OpenerKept
<1>7. OpenerKept(m, TakeKick(r, b, i))
  <2> HIDE DEF r
  <2>1. OpenerKept(r, v) /\ Sound(v)
    BY <1>3 DEF SetKickTakenValues, OpenerKept, Sound, Matches, Balls
  <2> HIDE DEF v
  <2> QED BY <1>2, <1>5, <2>1, SetPlayModeOpener DEF OpenerKept
<1> HIDE DEF n, w, o
<1>8. OpenerKept(m, o)
  BY <1>1, <1>2, <1>4, <1>6, <1>7
<1> QED BY <1>8 DEF o

(* A kick-off that is taken makes its taker the one whose side must wait.  *)
LEMMA KickOffOpener ==
  ASSUME Cardinality(Players) > 2, NEW m, Sound(m), ~Running(m), NEW b \in Balls,
         Running(UpdateKickOff(m, b)), ~TooOld(m)
  PROVE  ~UpdateKickOff(m, b).allow /\ UpdateKickOff(m, b).koTaker = b.toucher
<1> DEFINE r == ResetKickChecks(m)
           n == [r EXCEPT !.allow = TRUE]
           k == TakeKick(n, b, TRUE)
           w == [k EXCEPT !.koTaker = b.toucher, !.allow = FALSE]
<1>1. Same(m, r)
  BY ResetOk
<1>2. Same(m, n)
  <2> HIDE DEF r
  <2> QED BY <1>1 DEF Same, Keeps, Sound, Matches
<1>3. UpdateKickOff(m, b) \in {n, w}
  BY DEF UpdateKickOff
<1> HIDE DEF n
<1>4. Sound(n) /\ ~Running(n)
  BY <1>2, SamePlays DEF Running, InPlay, Same
<1>5. k \in Matches
  BY <1>4, TakeOk DEF Plays, Follows, Sound
<1> HIDE DEF k
<1>6. ~w.allow /\ w.koTaker = b.toucher
  BY <1>5 DEF Matches
<1> HIDE DEF w
<1> QED BY <1>3, <1>4, <1>6

LEMMA RunningModes ==
  /\ \A m : Running(m) => m.mode # BeforeKickOff /\ m.mode # GameOver
  /\ \A m : Running(m) => m.mode[1] \notin {"Goal", "Offside", "KickOff"}
  /\ PlacedKicks \subseteq Restarts
BY PlayModes DEF Running, PlacedKicks, BeforeKickOff, GameOver, Mode, Restarts

(* The switch over the play mode: whether the kick-off side has to wait.   *)
LEMMA ModeOpener ==
  ASSUME Cardinality(Players) > 2, NEW m, Sound(m), NEW b \in Balls, NEW h \in Hits,
         NEW place \in Places, NEW away \in BOOLEAN,
         NEW o \in UpdateMode(m, b, h, place, away), Running(o)
  PROVE  \/ Running(m) /\ OpenerKept(m, o)
         \/ /\ m.mode[1] = "KickOff" /\ o.mode = PlayOn
            /\ ~TooOld(m) => ~o.allow /\ o.koTaker = b.toucher
<1>1. m.mode \in Modes
  BY DEF Sound, Matches
<1>2. CASE m.mode = PlayOn /\ o = UpdatePlayOn(m, b, h, place, away)
  BY <1>2, PlayOnOpener DEF Running, InPlay
<1>3. CASE m.mode[1] = "Pass" /\ o = UpdatePassMode(m, m.mode[2], b, h, place, away)
  <2>1. m.mode[2] \in Sides
    BY <1>1, <1>3 DEF Modes, Mode, BeforeKickOff, PlayOn, GameOver, Restarts, PlacedKicks
  <2> QED BY <1>3, <2>1, PassModeOpener DEF Running, InPlay
<1>4. CASE m.mode[1] = "KickOff" /\ o = UpdateKickOff(m, b)
  <2>1. ~Running(m)
    BY <1>4, RunningModes
  <2>2. m.mode = o.mode \/ o.mode = PlayOn
    BY <1>4, KickOffGoes
  <2>3. o.mode = PlayOn
    BY <2>1, <2>2 DEF Running, InPlay
  <2> QED BY <1>4, <2>1, <2>3, KickOffOpener
<1>5. CASE m.mode[1] \in PlacedKicks
  <2>1. PICK waits \in BOOLEAN,
             next \in {ResetKickChecks(m), TakeKick(ResetKickChecks(m), b, Indirect(m))} :
               o = UpdatePlacedKick(m, b, waits, next)
    BY <1>5, PlacedIs
  <2>2. Indirect(m) \in BOOLEAN
    BY DEF Indirect
  <2> QED BY <1>5, <2>1, <2>2, PlacedOpener DEF Running
<1>6. CASE m.mode \in {BeforeKickOff, GameOver} \/ m.mode[1] \in {"Goal", "Offside"}
  <2>1. ~Running(m) /\ ~InPlay(m) /\ m.mode[1] \notin Restarts
    BY <1>6, RunningModes, ModeKinds DEF Running, Restarts, PlacedKicks
  <2>2. \A c \in Sides : Mode("KickOff", c) # PlayOn /\ Mode("KickOff", c)[1] \notin PlacedKicks \union {"Pass"}
    BY DEF Mode, PlayOn, PlacedKicks
  <2> QED BY <2>1, <2>2, ModeGoes DEF Running, InPlay
<1>7. \/ m.mode \in {BeforeKickOff, PlayOn, GameOver}
      \/ m.mode[1] \in Restarts \union {"Pass", "Goal", "Offside"}
  BY <1>1 DEF Modes
<1> QED BY <1>2, <1>3, <1>4, <1>5, <1>6, <1>7
        DEF UpdateMode, Restarts, PlacedKicks

(* The side that kicked off and is not free to score is made to wait.      *)
OpenerInv == Running(match) /\ ~kick.free => ~match.allow /\ Team[match.koTaker] = kick.byTeam

(* Until the switch nothing but a change of the play mode interferes.      *)
LEMMA StillPlaying ==
  ASSUME IInv, NEW h \in Hits, NEW place \in Places, NEW away \in BOOLEAN,
         NEW m, NEW b, NEW n, NEW o, Updated(h, place, away, m, b, n, o), Running(n)
  PROVE  /\ n = AllowKickOffTeam(m, b, place) /\ Running(match) /\ n.mode = match.mode
         /\ OpenerKept(match, m) /\ m.left = match.left
<1>1. Sound(match) /\ Sound(m) /\ m.mode = match.mode /\ n = AllowKickOffTeam(CheckTime(m), b, place)
  BY UpdateSound DEF IInv, Updated
<1>2. Sound(CheckTime(m))
  BY <1>1, CheckTimeOk DEF Follows
<1>3. n.mode = CheckTime(m).mode
  BY <1>1, <1>2, AllowOk DEF Same
<1>4. CheckTime(m) = m
  <2> DEFINE q == SetPlayMode(m, BeforeKickOff)
             t == IF ChangeSides THEN TeamOn(m, "right") ELSE q.left
             e == [q EXCEPT !.half = "second", !.left = t]
  <2>1. CheckTime(m) \in {e, SetPlayMode(m, GameOver), m}
    BY DEF CheckTime
  <2>2. q.mode = BeforeKickOff /\ q \in Matches
    BY <1>1, SetPlayModeOk, ModeKinds DEF Plays, Follows, Sound
  <2> HIDE DEF q
  <2>3. e.mode = BeforeKickOff
    BY <2>2 DEF Matches
  <2>4. SetPlayMode(m, GameOver).mode = GameOver
    BY <1>1, SetPlayModeOk, ModeKinds
  <2> HIDE DEF e
  <2> QED BY <1>3, <2>1, <2>3, <2>4, RunningModes
<1>5. OpenerKept(match, m) /\ m.left = match.left
  BY <1>1 DEF Updated, UpdateTime, OpenerKept, Sound, Matches
<1> QED BY <1>1, <1>3, <1>4, <1>5 DEF Running, InPlay

(* What the history says of a side that must still wait.                   *)
FreeBy(h, place) ==
  kick.free \/ (\E p \in Hitters(h) : Team[p] # kick.byTeam) \/ (h # <<>> /\ place # InCircle)

LEMMA KickFree ==
  ASSUME kick \in Kicks, NEW n, NEW o, NEW b, NEW h, NEW place,
         ~KickAfter(n, o, b, h, place).free
  PROVE  LET k == KickAfter(n, o, b, h, place)
         IN  \/ /\ n.mode[1] = "KickOff" /\ o.mode = PlayOn /\ ~TooOld(n)
                /\ k.byTeam = Team[b.toucher]
             \/ /\ ~FreeBy(h, place) /\ k.byTeam = kick.byTeam
                /\ ~(n.mode[1] = "KickOff" /\ o.mode = PlayOn)
<1> DEFINE K == KickAfter(n, o, b, h, place)
           fre == FreeBy(h, place)
           restart == n.mode[1] \in Restarts /\ o.mode = PlayOn
           opens == n.mode[1] = "KickOff"
           oth == kick.others \/ Hitters(h) \ {kick.taker} # {}
           u == TeamOn(n, n.mode[2])
           c == [NoKick EXCEPT !.byTeam = kick.byTeam, !.free = fre]
           e == [kick EXCEPT !.others = oth, !.free = fre]
<1>1. opens => n.mode[1] \in Restarts
  BY DEF Restarts
<1>2. NoKick.free = TRUE
  BY DEF NoKick
<1>3. CASE restart /\ TooOld(n)
  <2>1. K = IF opens THEN NoKick ELSE c
    BY <1>3, Zenon DEF KickAfter, FreeBy
  <2> HIDE DEF fre
  <2>2. c.free = fre /\ c.byTeam = kick.byTeam
    BY DEF NoKick
  <2> HIDE DEF c, K
  <2> QED BY <1>2, <2>1, <2>2 DEF K, fre
<1>4. CASE restart /\ ~TooOld(n)
  <2>1. K = [taker |-> b.toucher, at |-> b.time,
             indirect |-> n.mode[1] \in {"KickOff", "KickIn", "FreeKick"}, others |-> FALSE,
             byTeam |-> IF opens THEN u ELSE kick.byTeam,
             free |-> IF opens THEN Team[b.toucher] # u ELSE fre]
    BY <1>4, Zenon DEF KickAfter, FreeBy
  <2>2. /\ K.byTeam = IF opens THEN u ELSE kick.byTeam
        /\ K.free = IF opens THEN Team[b.toucher] # u ELSE fre
    BY <2>1
  <2> HIDE DEF u
  <2>3. CASE opens
    BY <1>4, <2>2, <2>3
  <2>4. CASE ~opens
    <3>1. K.byTeam = kick.byTeam /\ K.free = fre
      BY <2>2, <2>4
    <3> QED BY <2>4, <3>1
  <2> QED BY <2>3, <2>4
<1>5. CASE ~restart
  <2>1. K = e
    <3>1. K = [kick EXCEPT
         !.others = @ \/ Hitters(h) \ {kick.taker} # {},
         !.free = @ \/ (\E p \in Hitters(h) : Team[p] # kick.byTeam) \/ (h # <<>> /\ place # InCircle)]
      BY <1>5, Zenon DEF KickAfter
    <3> QED BY <3>1, Zenon DEF FreeBy
  <2> HIDE DEF fre, oth
  <2>2. e.free = fre /\ e.byTeam = kick.byTeam
    BY DEF Kicks
  <2> HIDE DEF e, K
  <2> QED BY <1>1, <1>5, <2>1, <2>2 DEF K, fre
<1> QED BY <1>3, <1>4, <1>5

(* When the mode is looked at, a side that must wait still has to.         *)
LEMMA OpenerWaits ==
  ASSUME IInv, OpenerInv, NEW h \in Hits, NEW place \in Places, NEW away \in BOOLEAN,
         NEW m, NEW b, NEW n, NEW o, Updated(h, place, away, m, b, n, o), Running(n),
         ~FreeBy(h, place)
  PROVE  ~n.allow /\ Team[n.koTaker] = kick.byTeam
<1>1. /\ n = AllowKickOffTeam(m, b, place) /\ Running(match)
      /\ OpenerKept(match, m) /\ m.left = match.left
  BY StillPlaying
<1>2. ~kick.free
  BY DEF FreeBy
<1>3. ~m.allow /\ Team[m.koTaker] = kick.byTeam
  BY <1>1, <1>2 DEF OpenerInv, OpenerKept
<1>4. b.sides = {SideOf(m, p) : p \in Hitters(h)}
  BY DEF Updated, UpdateBall
<1> DEFINE s == SideOf(m, m.koTaker)
           v == Opponent(s) \in b.sides \/ (s \in b.sides /\ place # InCircle)
<1>5. Opponent(s) \notin b.sides
  <2>1. \A p \in Hitters(h) : Team[p] = kick.byTeam
    BY DEF FreeBy
  <2>2. \A p \in Hitters(h) : SideOf(m, p) = s
    BY <1>3, <2>1 DEF SideOf
  <2>3. Opponent(s) # s
    BY SideOfSide, OpponentSide
  <2> QED BY <1>4, <2>2, <2>3
<1>6. s \in b.sides => place = InCircle
  <2>1. h = <<>> => Hitters(h) = {}
    BY DEF Hitters
  <2> QED BY <1>4, <2>1 DEF FreeBy
<1>7. v = FALSE
  BY <1>5, <1>6
<1>8. n = [m EXCEPT !.allow = v]
  <2> HIDE DEF s
  <2> QED BY <1>1, <1>3, Zenon DEF AllowKickOffTeam, s
<1>9. Sound(m)
  BY UpdateSound DEF IInv
<1> HIDE DEF v
<1> QED BY <1>3, <1>7, <1>8, <1>9 DEF Sound, Matches

LEMMA OpenerStep ==
  ASSUME Cardinality(Players) > 2, IInv, OpenerInv, [Next]_vars PROVE OpenerInv'
<1>1. CASE Update
  <2>1. PICK h \in Hits, place \in Places, away \in BOOLEAN :
          \E m, b, n, o : Updated(h, place, away, m, b, n, o)
    BY <1>1, UpdateSplits
  <2>2. PICK m, b, n, o : Updated(h, place, away, m, b, n, o)
    BY <2>1
  <2>3. Sound(n) /\ b \in Balls /\ o \in UpdateMode(n, b, h, place, away)
    BY <2>2, UpdateSound DEF IInv, Updated
  <2>4. match' = o /\ kick' = KickAfter(n, o, b, h, place) /\ kick \in Kicks
    BY <2>2 DEF Updated, IInv, TypeOK, Kicks
  <2> SUFFICES ASSUME Running(o), ~kick'.free
               PROVE  ~o.allow /\ Team[o.koTaker] = kick'.byTeam
    BY <2>4 DEF OpenerInv, Running, InPlay
  <2>5. \/ /\ n.mode[1] = "KickOff" /\ o.mode = PlayOn /\ ~TooOld(n)
           /\ kick'.byTeam = Team[b.toucher]
        \/ /\ ~FreeBy(h, place) /\ kick'.byTeam = kick.byTeam
           /\ ~(n.mode[1] = "KickOff" /\ o.mode = PlayOn)
    BY <2>4, KickFree
  <2>6. \/ Running(n) /\ OpenerKept(n, o)
        \/ /\ n.mode[1] = "KickOff" /\ o.mode = PlayOn
           /\ ~TooOld(n) => ~o.allow /\ o.koTaker = b.toucher
    BY <2>3, ModeOpener
  <2>7. Running(n) => n.mode[1] # "KickOff"
    BY RunningModes
  <2>8. CASE Running(n) /\ OpenerKept(n, o) /\ ~FreeBy(h, place) /\ kick'.byTeam = kick.byTeam
    <3>1. ~n.allow /\ Team[n.koTaker] = kick.byTeam
      BY <2>2, <2>8, OpenerWaits
    <3> QED BY <2>8, <3>1 DEF OpenerKept
  <2> QED BY <2>5, <2>6, <2>7, <2>8
<1>2. ASSUME NEW p \in Players, StartPassMode(p) PROVE OpenerInv'
  <2>1. Sound(match) /\ match.mode = PlayOn /\ match' = SetPlayMode(match, Mode("Pass", SideOf(match, p)))
    BY <1>2 DEF StartPassMode, IInv, TypeOK, ClockInv, Sound
  <2>2. OpenerKept(match, match')
    BY <2>1, SetPlayModeOpener
  <2>3. kick' = kick
    BY <1>2 DEF StartPassMode
  <2> QED BY <2>1, <2>2, <2>3 DEF OpenerInv, OpenerKept, Running, InPlay
<1>3. CASE TrainerPlayMode \/ TrainerKickOff \/ TrainerDropBall
  <2>1. kick' = NoKick
    BY <1>3 DEF TrainerPlayMode, TrainerKickOff, TrainerDropBall, Command
  <2> QED BY <2>1 DEF OpenerInv, NoKick
<1>4. CASE UNCHANGED vars
  BY <1>4 DEF vars, OpenerInv, Running, InPlay
<1> QED BY <1>1, <1>2, <1>3, <1>4 DEF Next
-----------------------------------------------------------------------------
(* Goals.  A team that has asked for a pass must pass the ball first.      *)

Mates2(M) == \E p, q \in M : p # q

Own(h, t) == {p \in Hitters(h) : Team[p] = t}

(* What the match knows of the passes of team t, its players M having      *)
(* touched the ball.                                                       *)
Fits(m, t, M) ==
  /\ m.cleared[t] => Mates2(M)
  /\ \A s \in Sides : TeamOn(m, s) = t =>
       m.touched[s] \in M \union {NoPlayer} /\ (m.several[s] => Mates2(M))

(* What besides the pass modes only UpdatePassChecks changes.              *)
PassKept(m, n) ==
  /\ n.passTime = m.passTime /\ n.cleared = m.cleared
  /\ n.touched = m.touched /\ n.several = m.several /\ n.left = m.left

LEMMA TeamOfSide ==
  ASSUME NEW m, m.left \in Teams
  PROVE  /\ \A p \in Players : Team[p] = TeamOn(m, SideOf(m, p))
         /\ \A r, s \in Sides : TeamOn(m, r) = TeamOn(m, s) => r = s
<1> DEFINE r == CHOOSE t \in Teams : t # m.left
<1>1. \E t \in Teams : t # m.left
  BY SoccerAssumption DEF Teams
<1>2. r \in Teams /\ r # m.left
  BY <1>1
<1>3. TeamOn(m, "right") = r /\ TeamOn(m, "left") = m.left
  BY DEF TeamOn
<1> HIDE DEF r
<1>4. \A p \in Players : Team[p] \in Teams
  BY SoccerAssumption
<1>5. ASSUME NEW p \in Players PROVE Team[p] = TeamOn(m, SideOf(m, p))
  <2>1. CASE Team[p] = m.left
    BY <2>1, <1>3 DEF SideOf
  <2>2. CASE Team[p] # m.left
    <3>1. Team[p] = r
      BY <2>2, <1>2, <1>4 DEF Teams
    <3> QED BY <2>2, <3>1, <1>3 DEF SideOf
  <2> QED BY <2>1, <2>2
<1> QED BY <1>2, <1>3, <1>5 DEF Sides

LEMMA HitPlayers ==
  ASSUME NEW h \in Hits
  PROVE  /\ \A i \in DOMAIN h : h[i] \in Players /\ h[i] \in Hitters(h)
         /\ \A i, j \in DOMAIN h : i # j => h[i] # h[j]
<1>1. h \in Seq(Players) /\ Len(h) <= 2
  BY HitsSeq
<1>2. \A i \in DOMAIN h : h[i] \in Players /\ h[i] \in Hitters(h)
  BY <1>1 DEF Hitters
<1>3. Len(h) = 2 => h[1] # h[2]
  BY DEF Hits
<1>4. Len(h) \in Nat /\ DOMAIN h = 1..Len(h)
  BY <1>1
<1>5. ASSUME NEW i \in DOMAIN h, NEW j \in DOMAIN h, i # j PROVE h[i] # h[j]
  <2>1. Len(h) = 2 /\ ((i = 1 /\ j = 2) \/ (i = 2 /\ j = 1))
    BY <1>1, <1>4, <1>5
  <2> QED BY <1>3, <2>1
<1> QED BY <1>2, <1>5

LEMMA FitsMore ==
  ASSUME NEW m, NEW t, NEW M, NEW N, Fits(m, t, M), M \subseteq N PROVE Fits(m, t, N)
BY DEF Fits, Mates2

(* The checks of the passes count only players of the team that waits.     *)
LEMMA PassChecksFit ==
  ASSUME NEW m, Sound(m), NEW h \in Hits, NEW away \in BOOLEAN,
         NEW t \in Teams, NEW M, Fits(m, t, M)
  PROVE  LET n == UpdatePassChecks(m, h, away)
         IN  /\ n.passTime = m.passTime /\ n.left = m.left /\ n.time = m.time
             /\ Fits(n, t, M \union Own(h, t))
<1> DEFINE s      == IF WaitsToScore(m, "left") THEN "left" ELSE "right"
           own    == {i \in DOMAIN h : SideOf(m, h[i]) = s}
           first  == h[CHOOSE i \in own : \A j \in own : i <= j]
           last   == m.touched[s]
           passed == /\ own # {}
                     /\ \/ \E i, j \in own : i # j
                        \/ last # NoPlayer /\ (first # last \/ m.several[s])
           left   == m.leftCircle[s] \/ away
           c      == IF own = {} \/ last # NoPlayer THEN last ELSE first
           d      == m.several[s] \/ passed
           u      == TeamOn(m, s)
           e      == m.cleared[u] \/ (passed /\ left)
           n      == [m EXCEPT !.leftCircle[s] = left, !.touched[s] = c,
                               !.several[s] = d, !.cleared[u] = e]
           N      == M \union Own(h, t)
<1>1. UpdatePassChecks(m, h, away) = m \/ UpdatePassChecks(m, h, away) = n
  BY Zenon DEF UpdatePassChecks
<1>2. s \in Sides
  BY DEF Sides
<1>3. m.left \in Teams
  BY DEF Sound, Matches
<1>4. Fits(m, t, N)
  BY FitsMore
<1>5. u = t => \A i \in own : h[i] \in Own(h, t)
  <2>1. \A i \in own : h[i] \in Players /\ h[i] \in Hitters(h)
    BY HitPlayers
  <2> QED BY <1>3, <2>1, TeamOfSide DEF Own
<1>6. own # {} => \E i \in own : first = h[i]
  <2>1. own \in SUBSET DOMAIN h
    OBVIOUS
  <2> HIDE DEF own
  <2> QED BY <2>1, FirstIsOwn
<1>7. u = t => last \in M \union {NoPlayer} /\ (m.several[s] => Mates2(M)) /\ (m.cleared[t] => Mates2(M))
  BY <1>2 DEF Fits
<1>8. u = t => c \in N \union {NoPlayer}
  <2> HIDE DEF own, first, last, s, u
  <2> QED BY <1>5, <1>6, <1>7
<1>9. u = t /\ passed => Mates2(N)
  <2> SUFFICES ASSUME u = t, passed PROVE Mates2(N)
    OBVIOUS
  <2>1. ASSUME NEW i \in own, NEW j \in own, i # j PROVE Mates2(N)
    <3>1. h[i] # h[j] /\ h[i] \in Own(h, t) /\ h[j] \in Own(h, t)
      BY <1>5, <2>1, HitPlayers
    <3> QED BY <3>1 DEF Mates2
  <2>2. CASE last # NoPlayer /\ m.several[s]
    BY <1>7, <2>2 DEF Mates2
  <2>3. CASE last # NoPlayer /\ first # last
    <3> HIDE DEF own, first, last, s, u
    <3>1. first \in Own(h, t) /\ last \in M
      BY <1>5, <1>6, <1>7, <2>3
    <3> QED BY <2>3, <3>1 DEF Mates2
  <2> QED BY <2>1, <2>2, <2>3
<1>10. u = t => (d => Mates2(N)) /\ (e => Mates2(N))
  <2>1. Mates2(M) => Mates2(N)
    BY DEF Mates2
  <2> HIDE DEF s, u, passed
  <2> QED BY <1>7, <1>9, <2>1
<1>11. \A r \in Sides : TeamOn(m, r) = t => (r = s <=> u = t)
  BY <1>2, <1>3, TeamOfSide
<1>12. u \in Teams
  BY <1>3, TeamOnTeam
<1> HIDE DEF left, c, d, e, u, s, N
<1>13. n.passTime = m.passTime /\ n.left = m.left /\ n.time = m.time
  BY DEF Sound, Matches
<1>14. /\ n.cleared[t] = (IF u = t THEN e ELSE m.cleared[t])
       /\ \A r \in Sides : /\ n.touched[r] = (IF r = s THEN c ELSE m.touched[r])
                           /\ n.several[r] = (IF r = s THEN d ELSE m.several[r])
  BY <1>2, <1>12 DEF Sound, Matches
<1>15. \A r : TeamOn(n, r) = TeamOn(m, r)
  BY <1>13 DEF TeamOn
<1> HIDE DEF n
<1>16. Fits(n, t, N)
  <2>1. n.cleared[t] => Mates2(N)
    BY <1>4, <1>10, <1>14 DEF Fits
  <2>2. ASSUME NEW r \in Sides, TeamOn(n, r) = t
        PROVE  n.touched[r] \in N \union {NoPlayer} /\ (n.several[r] => Mates2(N))
    <3>1. TeamOn(m, r) = t
      BY <1>15, <2>2
    <3>2. m.touched[r] \in N \union {NoPlayer} /\ (m.several[r] => Mates2(N))
      BY <1>4, <3>1 DEF Fits
    <3> QED BY <3>1, <3>2, <1>8, <1>10, <1>11, <1>14
  <2> QED BY <2>1, <2>2 DEF Fits
<1> QED BY <1>1, <1>4, <1>13, <1>16 DEF N

LEMMA KeptFits ==
  ASSUME NEW m, NEW n, PassKept(m, n), NEW t, NEW M, Fits(m, t, M) PROVE Fits(n, t, M)
<1>1. \A s : TeamOn(n, s) = TeamOn(m, s)
  BY DEF PassKept, TeamOn
<1> QED BY <1>1 DEF Fits, PassKept

(* What a goal says of the match in which it is scored.                    *)
LEMMA GoalMeans ==
  ASSUME NEW m, Sound(m), NEW b, NEW p \in Sides, NEW s \in Sides,
         CheckGoal(m, b, p).mode = Mode("Goal", s)
  PROVE  /\ p = Opponent(s) /\ CheckGoal(m, b, p).left = m.left
         /\ m.allow \/ SideOf(m, m.koTaker) # s
         /\ WasLastKickFromFreeKick(m, b) /\ Cardinality(Players) > 2 =>
              ~m.indirect /\ SideOf(m, b.toucher) # p
         /\ ~WaitsToScore(m, s)
<1> DEFINE o == Opponent(p)
           i == [m EXCEPT !.indirect = FALSE]
           A == ~m.allow /\ SideOf(m, m.koTaker) = o
           B == /\ WasLastKickFromFreeKick(m, b)
                /\ m.indirect \/ SideOf(m, b.toucher) = p
                /\ Cardinality(Players) > 2
           C == WaitsToScore(m, o)
           g == CheckGoal(m, b, p)
<1>1. /\ A => g = PunishIndirectKickGoal(m, m.koTaker, p)
      /\ ~A /\ B => g = PunishIndirectKickGoal(m, b.toucher, p)
      /\ ~A /\ ~B /\ C => g = Award(m, Mode("GoalKick", p))
      /\ ~A /\ ~B /\ ~C => g = SetPlayMode(m, Mode("Goal", o))
  BY Zenon DEF CheckGoal
<1>2. /\ Mode("GoalKick", p) \in Modes /\ Mode("CornerKick", o) \in Modes
      /\ Mode("Goal", o) \in Modes /\ o \in Sides
  BY ModeKinds, OpponentSide DEF Restarts, PlacedKicks
<1>3. \A q : PunishIndirectKickGoal(m, q, p).mode[1] # "Goal"
  <2>1. \A q : PunishIndirectKickGoal(m, q, p) \in {Award(i, Mode("CornerKick", o)), Award(i, Mode("GoalKick", p))}
    BY DEF PunishIndirectKickGoal
  <2>2. Same(m, i)
    BY DEF Same, Keeps, Sound, Matches
  <2> HIDE DEF i
  <2>3. Sound(i)
    BY <2>2, SamePlays
  <2>4. /\ Award(i, Mode("CornerKick", o)).mode = Mode("CornerKick", o)
        /\ Award(i, Mode("GoalKick", p)).mode = Mode("GoalKick", p)
    BY <1>2, <2>3, AwardOk
  <2>5. Mode("CornerKick", o)[1] # "Goal" /\ Mode("GoalKick", p)[1] # "Goal"
    BY DEF Mode
  <2> QED BY <2>1, <2>4, <2>5
<1>4. Award(m, Mode("GoalKick", p)).mode[1] # "Goal"
  <2>1. Award(m, Mode("GoalKick", p)).mode = Mode("GoalKick", p)
    BY <1>2, AwardOk
  <2> QED BY <2>1 DEF Mode
<1>5. g.mode = Mode("Goal", s) /\ g.mode[1] = "Goal"
  BY DEF Mode
<1> HIDE DEF A, B, C, g, o
<1>6. ~A /\ ~B /\ ~C /\ g = SetPlayMode(m, Mode("Goal", o))
  BY <1>1, <1>3, <1>4, <1>5
<1>7. g.mode = Mode("Goal", o) /\ g.left = m.left
  BY <1>2, <1>6, SetPlayModeOk DEF Plays, Keeps
<1>8. o = s
  BY <1>5, <1>7 DEF Mode
<1>9. p = Opponent(s)
  BY <1>8 DEF o, Sides, Opponent
<1> QED BY <1>6, <1>7, <1>8, <1>9 DEF A, B, C, g

(* The ball in play: what it takes to stay in play, and to score.          *)
LEMMA PlayOnMeans ==
  ASSUME Cardinality(Players) > 2, NEW m, Sound(m), InPlay(m), NEW b, NEW h \in Hits,
         NEW place \in Places, NEW away \in BOOLEAN
  PROVE  LET n == UpdatePassChecks(m, h, away)
             o == UpdatePlayOn(m, b, h, place, away)
         IN  /\ o.mode = PlayOn => PassKept(n, o)
             /\ \A s \in Sides : o.mode = Mode("Goal", s) =>
                  /\ o.left = m.left
                  /\ m.allow \/ SideOf(m, m.koTaker) # s
                  /\ m.checkFoul /\ m.taker # NoPlayer /\ b.toucher = m.taker =>
                       ~m.indirect /\ SideOf(m, m.taker) = s
                  /\ ~WaitsToScore(n, s)
<1> DEFINE n == UpdatePassChecks(m, h, away)
           f == CheckFreeKickTakerFoul(n, b)
           r == [n EXCEPT !.checkFoul = FALSE, !.indirect = FALSE]
           o == UpdatePlayOn(m, b, h, place, away)
           second == SecondKick(n, b) /\ b.toucher = n.taker
<1>1. /\ Same(m, n) /\ Sound(n) /\ Takes(m, n)
      /\ Sound(f) /\ OpenerKept(m, f) /\ Plays(n, f)
      /\ \/ o = f
         \/ /\ ~second /\ o # f
            /\ \/ place[2] \in Sides /\ o = CheckGoal(f, b, place[2])
               \/ o = CheckBallLeftField(f, b, place)
  BY PlayOnIs, PassChecksOk
<1>2. /\ Same(n, r) /\ Sound(r)
      /\ ~SecondKick(n, b) => f = n
      /\ SecondKick(n, b) /\ b.toucher # n.taker => f = r
      /\ second => \E k \in Modes : f = Award(r, k) /\ k[1] = "FreeKick"
  BY <1>1, TakerFoulIs
<1> HIDE DEF n, f, o
<1>3. PassKept(n, r) /\ r.time = n.time
  BY <1>1 DEF PassKept, Sound, Matches
<1> HIDE DEF r
<1>4. n.mode = m.mode /\ r.mode = m.mode
  BY <1>1, <1>2 DEF Same
<1>5. second => f.mode[1] = "FreeKick"
  BY <1>2, AwardOk
<1>6. ~second => f \in {n, r}
  BY <1>2
<1>7. PassKept(n, n)
  BY DEF PassKept
<1>8. ~second => PassKept(n, f) /\ f.mode = m.mode /\ f.time = n.time
  BY <1>3, <1>4, <1>6, <1>7
<1> HIDE DEF second
<1>9. ASSUME o # f, o = CheckBallLeftField(f, b, place)
      PROVE  o.mode # PlayOn /\ o.mode[1] # "Goal"
  BY <1>1, <1>9, LeftModes DEF Mode, PlayOn
<1>10. ASSUME NEW p \in Sides, o = CheckGoal(f, b, p) PROVE o.mode # PlayOn
  BY <1>1, <1>10, GoalModes DEF Mode, PlayOn
<1>11. ASSUME o.mode = PlayOn PROVE PassKept(n, o)
  <2>1. o = f
    BY <1>1, <1>9, <1>10, <1>11
  <2>2. ~second
    BY <1>5, <1>11, <2>1 DEF PlayOn, Mode
  <2> QED BY <1>8, <2>1, <2>2
<1>12. ASSUME NEW s \in Sides, o.mode = Mode("Goal", s)
       PROVE  /\ o.left = m.left
              /\ m.allow \/ SideOf(m, m.koTaker) # s
              /\ m.checkFoul /\ m.taker # NoPlayer /\ b.toucher = m.taker =>
                   ~m.indirect /\ SideOf(m, m.taker) = s
              /\ ~WaitsToScore(n, s)
  <2>1. o.mode[1] = "Goal"
    BY <1>12 DEF Mode
  <2>2. f.mode[1] # "Goal"
    BY <1>5, <1>8, PlayModes
  <2>3. ~second /\ place[2] \in Sides /\ o = CheckGoal(f, b, place[2])
    BY <1>1, <1>9, <2>1, <2>2
  <2>4. /\ place[2] = Opponent(s) /\ o.left = f.left
        /\ f.allow \/ SideOf(f, f.koTaker) # s
        /\ WasLastKickFromFreeKick(f, b) => ~f.indirect /\ SideOf(f, b.toucher) # place[2]
        /\ ~WaitsToScore(f, s)
    BY <1>1, <1>12, <2>3, GoalMeans
  <2>5. f.left = n.left /\ n.left = m.left
    BY <1>1 DEF Plays, Keeps, Same
  <2>6. \A p : SideOf(f, p) = SideOf(m, p) /\ SideOf(n, p) = SideOf(m, p)
    BY <2>5 DEF SideOf
  <2>7. ~WaitsToScore(n, s)
    <3>1. f.passTime = n.passTime /\ f.cleared = n.cleared /\ f.time = n.time
      BY <1>8, <2>3 DEF PassKept
    <3>2. TeamOn(f, s) = TeamOn(n, s)
      BY <2>5 DEF TeamOn
    <3> QED BY <2>4, <3>1, <3>2 DEF WaitsToScore
  <2>8. ASSUME m.checkFoul, m.taker # NoPlayer, b.toucher = m.taker
        PROVE  ~m.indirect /\ SideOf(m, m.taker) = s
    <3>1. ~SecondKick(n, b)
      BY <1>1, <2>3, <2>8 DEF second, Takes
    <3>2. WasLastKickFromFreeKick(n, b) /\ f = n
      BY <1>1, <1>2, <2>8, <3>1 DEF SecondKick, Takes
    <3>3. ~n.indirect /\ SideOf(m, m.taker) # Opponent(s)
      BY <2>4, <2>6, <2>8, <3>2
    <3>4. SideOf(m, m.taker) = s
      BY <3>3, SideOfSide DEF Sides, Opponent
    <3> QED BY <1>1, <3>3, <3>4 DEF Takes
  <2>9. m.allow \/ SideOf(m, m.koTaker) # s
    BY <1>1, <2>4, <2>6 DEF OpenerKept
  <2> QED BY <2>4, <2>5, <2>7, <2>8, <2>9
<1> QED BY <1>11, <1>12 DEF n, o

(* Where the ball is in play UpdatePlayOn decides, in the pass modes from  *)
(* a match q in which the team's checks start anew.                        *)
LEMMA PlayStarts ==
  ASSUME NEW m, Sound(m), InPlay(m), NEW b, NEW h \in Hits, NEW place \in Places,
         NEW away \in BOOLEAN, NEW o \in UpdateMode(m, b, h, place, away)
  PROVE  \E q : /\ Sound(q) /\ InPlay(q) /\ Takes(m, q) /\ OpenerKept(m, q)
                /\ q.left = m.left /\ q.time = m.time
                /\ o = UpdatePlayOn(q, b, h, place, away)
                /\ m.mode = PlayOn => q = m
                /\ m.mode[1] = "Pass" =>
                     LET t == TeamOn(m, m.mode[2])
                     IN  t \in Teams /\ q.passTime[t] = m.time /\ Fits(q, t, {})
<1>1. CASE m.mode = PlayOn
  <2>1. o = UpdatePlayOn(m, b, h, place, away)
    BY <1>1 DEF UpdateMode, BeforeKickOff, PlayOn, GameOver, Mode
  <2>2. Takes(m, m) /\ OpenerKept(m, m) /\ m.mode[1] # "Pass"
    BY <1>1 DEF Takes, OpenerKept, PlayOn, Mode
  <2> QED BY <2>1, <2>2
<1>2. CASE m.mode[1] = "Pass"
  <2>1. m.mode[2] \in Sides /\ m.mode # PlayOn
    BY <1>2 DEF Sound, Matches, Modes, Mode, BeforeKickOff, PlayOn, GameOver, Restarts, PlacedKicks
  <2>2. o = UpdatePassMode(m, m.mode[2], b, h, place, away)
    BY <1>2 DEF UpdateMode, BeforeKickOff, PlayOn, GameOver, Mode
  <2> DEFINE s == m.mode[2]
             t == TeamOn(m, s)
  <2>3. PICK q : /\ Sound(q) /\ Takes(m, q) /\ OpenerKept(m, q)
                 /\ Keeps(m, q) /\ q.time = m.time
                 /\ q.mode = m.mode \/ q.mode = PlayOn
                 /\ t \in Teams /\ q.passTime[t] = m.time /\ ~q.cleared[t]
                 /\ q.touched[s] = NoPlayer /\ ~q.several[s]
                 /\ UpdatePassMode(m, s, b, h, place, away) = UpdatePlayOn(q, b, h, place, away)
    BY <2>1, PassModeIs
  <2>4. q.left = m.left /\ m.left \in Teams
    BY <2>3 DEF Keeps, Sound, Matches
  <2>5. \A r \in Sides : TeamOn(q, r) = t => r = s
    <3>1. \A r : TeamOn(q, r) = TeamOn(m, r)
      BY <2>4 DEF TeamOn
    <3> QED BY <2>1, <2>4, <3>1, TeamOfSide
  <2>6. Fits(q, t, {})
    BY <2>3, <2>5 DEF Fits
  <2> QED BY <2>1, <2>2, <2>3, <2>4, <2>6 DEF InPlay
<1> QED BY <1>1, <1>2 DEF InPlay

(* What the history says of the passes.                                    *)
LEMMA PassIs ==
  ASSUME pass \in Passes, NEW n, NEW o, NEW h, PassAfter(n, o, h).team # "none"
  PROVE  LET P == PassAfter(n, o, h)
             t == TeamOn(n, n.mode[2])
         IN  \/ n.mode[1] = "Pass" /\ P.team = t /\ P.at = n.time /\ P.mates = Own(h, t)
             \/ /\ n.mode = PlayOn /\ ~(n.time - pass.at >= ScoreWait)
                /\ P.team = pass.team /\ P.at = pass.at
                /\ P.mates = pass.mates \union Own(h, pass.team)
<1> DEFINE P == PassAfter(n, o, h)
           t == TeamOn(n, n.mode[2])
           a == [team |-> t, at |-> n.time, mates |-> Own(h, t)]
           M == pass.mates \union Own(h, pass.team)
           c == [pass EXCEPT !.mates = M]
<1>1. \/ P = NoPass
      \/ n.mode[1] = "Pass" /\ P = a
      \/ n.mode = PlayOn /\ ~(n.time - pass.at >= ScoreWait) /\ P = c
  <2>1. P = IF o.mode # PlayOn /\ o.mode[1] \notin {"Pass", "Goal"} THEN NoPass
            ELSE IF n.mode[1] = "Pass" THEN a
            ELSE IF n.mode # PlayOn \/ n.time - pass.at >= ScoreWait THEN NoPass
            ELSE [pass EXCEPT !.mates = @ \union Own(h, pass.team)]
    BY Zenon DEF PassAfter, Own
  <2>2. [pass EXCEPT !.mates = @ \union Own(h, pass.team)] = c
    BY Zenon
  <2> HIDE DEF P, a, c
  <2> QED BY <2>1, <2>2
<1>2. NoPass.team = "none"
  BY DEF NoPass
<1>3. c.team = pass.team /\ c.at = pass.at /\ c.mates = M
  <2> HIDE DEF M
  <2> QED BY DEF Passes
<1>4. a.team = t /\ a.at = n.time /\ a.mates = Own(h, t)
  OBVIOUS
<1> HIDE DEF P, a, c, t
<1> QED BY <1>1, <1>2, <1>3, <1>4 DEF P, t, M

(* After a pass mode the match counts the passes of the team that asked    *)
(* for it, of those who touched the ball since.                            *)
PassInv ==
  match.mode = PlayOn /\ pass.team # "none" =>
    /\ pass.team \in Teams /\ match.passTime[pass.team] = pass.at
    /\ Fits(match, pass.team, pass.mates)

LEMMA TimePasses == ASSUME NEW m, Sound(m) PROVE PassKept(m, UpdateTime(m))
<1> DEFINE a == [m EXCEPT !.lead = @ + 1]
           f == [m EXCEPT !.fup = @ + 1]
           t == [m EXCEPT !.time = @ + 1]
<1>1. UpdateTime(m) \in {a, f, t}
  BY DEF UpdateTime
<1>2. PassKept(m, a) /\ PassKept(m, f) /\ PassKept(m, t)
  BY DEF PassKept, Sound, Matches
<1> HIDE DEF a, f, t
<1> QED BY <1>1, <1>2

LEMMA AllowPasses ==
  ASSUME NEW m, Sound(m), NEW b, NEW place
  PROVE  LET n == AllowKickOffTeam(m, b, place) IN PassKept(m, n)
<1> DEFINE s == SideOf(m, m.koTaker)
           v == Opponent(s) \in b.sides \/ (s \in b.sides /\ place # InCircle)
<1>1. AllowKickOffTeam(m, b, place) = IF m.allow THEN m ELSE [m EXCEPT !.allow = v]
  BY Zenon DEF AllowKickOffTeam
<1> HIDE DEF v
<1>2. PassKept(m, m) /\ PassKept(m, [m EXCEPT !.allow = v])
  BY DEF PassKept, Sound, Matches
<1> QED BY <1>1, <1>2

(* An update in play whose history knows a pass: the match in which        *)
(* UpdatePlayOn starts, and what UpdatePassChecks makes of it.             *)
LEMMA PassStands ==
  ASSUME IInv, PassInv, ScoreWait > 0,
         NEW h \in Hits, NEW place \in Places, NEW away \in BOOLEAN,
         NEW m, NEW b, NEW n, NEW o, Updated(h, place, away, m, b, n, o),
         InPlay(n), pass'.team # "none",
         NEW q, Sound(q), q.time = n.time, q.left = n.left, n.mode = PlayOn => q = n,
         n.mode[1] = "Pass" =>
           LET t == TeamOn(n, n.mode[2])
           IN  t \in Teams /\ q.passTime[t] = n.time /\ Fits(q, t, {})
  PROVE  LET c == UpdatePassChecks(q, h, away)
         IN  /\ pass'.team \in Teams /\ c.passTime[pass'.team] = pass'.at
             /\ Fits(c, pass'.team, pass'.mates)
             /\ c.time - c.passTime[pass'.team] < ScoreWait /\ c.left = n.left
<1> DEFINE c == UpdatePassChecks(q, h, away)
           t == TeamOn(n, n.mode[2])
<1>1. /\ Sound(match) /\ Sound(m) /\ Sound(n) /\ pass \in Passes
      /\ pass' = PassAfter(n, o, h)
  BY UpdateSound DEF IInv, TypeOK, Updated, Passes
<1>2. n.time \in Nat /\ pass.at \in Nat /\ ScoreWait \in Nat
  BY <1>1, NumbersOk DEF Numbers, Passes, Sound, Matches
<1>3. \/ n.mode[1] = "Pass" /\ pass'.team = t /\ pass'.at = n.time /\ pass'.mates = Own(h, t)
      \/ /\ n.mode = PlayOn /\ ~(n.time - pass.at >= ScoreWait)
         /\ pass'.team = pass.team /\ pass'.at = pass.at
         /\ pass'.mates = pass.mates \union Own(h, pass.team)
  BY <1>1, PassIs
<1>4. ASSUME NEW u \in Teams, NEW M, Fits(q, u, M)
      PROVE  /\ c.passTime = q.passTime /\ c.left = n.left /\ c.time = n.time
             /\ Fits(c, u, M \union Own(h, u))
  BY <1>4, PassChecksFit
<1> HIDE DEF c
<1>5. CASE n.mode[1] = "Pass" /\ pass'.team = t /\ pass'.at = n.time /\ pass'.mates = Own(h, t)
  <2>1. t \in Teams /\ q.passTime[t] = n.time /\ Fits(q, t, {})
    BY <1>5
  <2> HIDE DEF t
  <2>2. c.passTime = q.passTime /\ c.left = n.left /\ c.time = n.time /\ Fits(c, t, {} \union Own(h, t))
    BY <1>4, <2>1
  <2>3. {} \union Own(h, t) = Own(h, t)
    OBVIOUS
  <2>4. c.time - c.passTime[t] < ScoreWait
    BY <1>2, <2>1, <2>2
  <2> QED BY <1>5, <2>1, <2>2, <2>3, <2>4 DEF c
<1>6. CASE /\ n.mode = PlayOn /\ ~(n.time - pass.at >= ScoreWait)
           /\ pass'.team = pass.team /\ pass'.at = pass.at
           /\ pass'.mates = pass.mates \union Own(h, pass.team)
  <2>1. /\ n = AllowKickOffTeam(m, b, place) /\ n.mode = match.mode
    BY StillPlaying DEF Running
  <2>2. PassKept(match, m)
    BY <1>1, TimePasses DEF Updated
  <2>3. PassKept(m, n)
    BY <1>1, <2>1, AllowPasses
  <2>4. PassKept(match, n)
    BY <2>2, <2>3 DEF PassKept
  <2>5. /\ pass.team \in Teams /\ match.passTime[pass.team] = pass.at
        /\ Fits(match, pass.team, pass.mates)
    BY <1>6, <2>1 DEF PassInv
  <2>6. q.passTime[pass.team] = pass.at /\ Fits(q, pass.team, pass.mates)
    BY <1>6, <2>4, <2>5, KeptFits DEF PassKept
  <2>7. /\ c.passTime = q.passTime /\ c.left = n.left /\ c.time = n.time
        /\ Fits(c, pass.team, pass.mates \union Own(h, pass.team))
    BY <1>4, <2>5, <2>6
  <2>8. c.time - c.passTime[pass.team] < ScoreWait
    BY <1>2, <1>6, <2>6, <2>7
  <2> QED BY <1>6, <2>5, <2>6, <2>7, <2>8 DEF c
<1> QED BY <1>3, <1>5, <1>6

LEMMA PassStep ==
  ASSUME Cardinality(Players) > 2, ScoreWait > 0, IInv, PassInv, [Next]_vars PROVE PassInv'
<1>1. CASE Update
  <2>1. PICK h \in Hits, place \in Places, away \in BOOLEAN :
          \E m, b, n, o : Updated(h, place, away, m, b, n, o)
    BY <1>1, UpdateSplits
  <2>2. PICK m, b, n, o : Updated(h, place, away, m, b, n, o)
    BY <2>1
  <2>3. /\ Sound(n) /\ o \in UpdateMode(n, b, h, place, away) /\ match' = o
        /\ pass' = PassAfter(n, o, h) /\ pass \in Passes
    BY <2>2, UpdateSound DEF IInv, Updated, TypeOK, Passes
  <2> SUFFICES ASSUME o.mode = PlayOn, pass'.team # "none"
               PROVE  /\ pass'.team \in Teams /\ o.passTime[pass'.team] = pass'.at
                      /\ Fits(o, pass'.team, pass'.mates)
    BY <2>3 DEF PassInv
  <2>4. InPlay(n)
    BY <2>3, PassIs DEF InPlay
  <2>5. PICK q : /\ Sound(q) /\ InPlay(q) /\ q.left = n.left /\ q.time = n.time
                 /\ o = UpdatePlayOn(q, b, h, place, away)
                 /\ n.mode = PlayOn => q = n
                 /\ n.mode[1] = "Pass" =>
                      LET t == TeamOn(n, n.mode[2])
                      IN  t \in Teams /\ q.passTime[t] = n.time /\ Fits(q, t, {})
    BY <2>3, <2>4, PlayStarts
  <2> DEFINE c == UpdatePassChecks(q, h, away)
  <2>6. /\ pass'.team \in Teams /\ c.passTime[pass'.team] = pass'.at
        /\ Fits(c, pass'.team, pass'.mates)
    BY <2>2, <2>4, <2>5, PassStands
  <2>7. PassKept(c, o)
    BY <2>5, PlayOnMeans
  <2> HIDE DEF c
  <2> QED BY <2>6, <2>7, KeptFits DEF PassKept
<1>2. ASSUME NEW p \in Players, StartPassMode(p) PROVE PassInv'
  <2>1. Sound(match) /\ match' = SetPlayMode(match, Mode("Pass", SideOf(match, p)))
    BY <1>2 DEF StartPassMode, IInv, TypeOK, ClockInv, Sound
  <2>2. match'.mode = Mode("Pass", SideOf(match, p))
    BY <2>1, SetPlayModeOk, ModeKinds, SideOfSide
  <2> QED BY <2>2 DEF PassInv, PlayOn, Mode
<1>3. CASE TrainerPlayMode \/ TrainerKickOff \/ TrainerDropBall
  <2>1. pass' = NoPass
    BY <1>3 DEF TrainerPlayMode, TrainerKickOff, TrainerDropBall, Command
  <2> QED BY <2>1 DEF PassInv, NoPass
<1>4. CASE UNCHANGED vars
  BY <1>4 DEF vars, PassInv
<1> QED BY <1>1, <1>2, <1>3, <1>4 DEF Next

LEMMA TwoMates ==
  ASSUME NEW M \in SUBSET Players, Mates2(M) PROVE Cardinality(M) > 1
<1>1. PICK p \in M, q \in M : p # q
  BY DEF Mates2
<1>2. IsFiniteSet(M)
  BY SoccerAssumption, FS_Subset
<1>3. IsFiniteSet({p, q}) /\ Cardinality({p, q}) = 2
  <2>1. IsFiniteSet({p}) /\ Cardinality({p}) = 1
    BY FS_Singleton
  <2>2. {p, q} = {p} \union {q} /\ q \notin {p}
    BY <1>1
  <2> QED BY <2>1, <2>2, FS_AddElement
<1>4. Cardinality({p, q}) <= Cardinality(M)
  BY <1>1, <1>2, FS_Subset
<1>5. Cardinality(M) \in Nat
  BY <1>2, FS_CardinalityType
<1> QED BY <1>3, <1>4, <1>5

(* The action of GoalsAreEarned.                                           *)
GoalEarned ==
  \A s \in Sides : Scores(s) =>
       /\ \/ kick'.taker = NoPlayer
          \/ kick'.others
          \/ ~kick'.indirect /\ SideOf(match', kick'.taker) = s
       /\ kick'.byTeam = TeamOn(match', s) => kick'.free
       /\ pass'.team = TeamOn(match', s) => Cardinality(pass'.mates) > 1

(* A goal is only scored from play.                                        *)
LEMMA GoalFromPlay ==
  ASSUME IInv, NEW h \in Hits, NEW place \in Places, NEW away \in BOOLEAN,
         NEW m, NEW b, NEW n, NEW o, Updated(h, place, away, m, b, n, o),
         NEW s, o.mode = Mode("Goal", s), match.mode # o.mode
  PROVE  InPlay(n)
<1>1. /\ Sound(m) /\ Sound(n) /\ b \in Balls /\ m.mode = match.mode
      /\ o \in UpdateMode(n, b, h, place, away) /\ Sound(CheckTime(m))
      /\ n = AllowKickOffTeam(CheckTime(m), b, place)
  BY UpdateSound DEF IInv, Updated, Follows
<1>2. n.mode = CheckTime(m).mode
  BY <1>1, AllowOk DEF Same
<1>3. CheckTime(m).mode \in {m.mode, BeforeKickOff, GameOver}
  BY <1>1, CheckTimeOk DEF Turns, OverOrOn
<1>4. /\ BeforeKickOff # Mode("Goal", s) /\ GameOver # Mode("Goal", s) /\ PlayOn # Mode("Goal", s)
      /\ \A c : Mode("KickOff", c) # Mode("Goal", s)
  BY DEF BeforeKickOff, GameOver, PlayOn, Mode
<1>5. ~InPlay(n) => o.mode = n.mode
  BY <1>1, <1>4, ModeGoes
<1> QED BY <1>1, <1>2, <1>3, <1>4, <1>5

LEMMA EarnStep ==
  ASSUME Cardinality(Players) > 2, ScoreWait > 0, "none" \notin Teams,
         IInv, TouchInv, OpenerInv, PassInv, [Next]_vars
  PROVE  GoalEarned
<1> SUFFICES ASSUME NEW s \in Sides, Scores(s)
             PROVE  /\ \/ kick'.taker = NoPlayer
                       \/ kick'.others
                       \/ ~kick'.indirect /\ SideOf(match', kick'.taker) = s
                    /\ kick'.byTeam = TeamOn(match', s) => kick'.free
                    /\ pass'.team = TeamOn(match', s) => Cardinality(pass'.mates) > 1
  BY DEF GoalEarned
<1>1. Update
  <2>1. requests \in Nat
    BY NumbersOk DEF IInv, TypeOK, Numbers
  <2>2. ~Request /\ match' # match
    BY <2>1 DEF Request, Scores
  <2> QED BY <2>2 DEF Next, vars, StartPassMode, TrainerPlayMode, TrainerKickOff, TrainerDropBall, Command
<1>2. PICK h \in Hits, place \in Places, away \in BOOLEAN :
        \E m, b, n, o : Updated(h, place, away, m, b, n, o)
  BY <1>1, UpdateSplits
<1>3. PICK m, b, n, o : Updated(h, place, away, m, b, n, o)
  BY <1>2
<1>4. /\ Sound(n) /\ o \in UpdateMode(n, b, h, place, away) /\ match' = o
      /\ kick' = KickAfter(n, o, b, h, place) /\ pass' = PassAfter(n, o, h)
      /\ kick \in Kicks /\ pass \in Passes
  BY <1>3, UpdateSound DEF IInv, Updated, TypeOK, Passes, Kicks
<1>5. o.mode = Mode("Goal", s) /\ match.mode # o.mode
  BY <1>4 DEF Scores
<1>6. InPlay(n)
  BY <1>3, <1>5, GoalFromPlay
<1>7. PICK q : /\ Sound(q) /\ InPlay(q) /\ Takes(n, q) /\ OpenerKept(n, q)
               /\ q.left = n.left /\ q.time = n.time
               /\ o = UpdatePlayOn(q, b, h, place, away)
               /\ n.mode = PlayOn => q = n
               /\ n.mode[1] = "Pass" =>
                    LET t == TeamOn(n, n.mode[2])
                    IN  t \in Teams /\ q.passTime[t] = n.time /\ Fits(q, t, {})
  BY <1>4, <1>6, PlayStarts
<1> DEFINE c == UpdatePassChecks(q, h, away)
<1>8. /\ o.left = q.left
      /\ q.allow \/ SideOf(q, q.koTaker) # s
      /\ q.checkFoul /\ q.taker # NoPlayer /\ b.toucher = q.taker =>
           ~q.indirect /\ SideOf(q, q.taker) = s
      /\ ~WaitsToScore(c, s)
  <2> DEFINE x == UpdatePlayOn(q, b, h, place, away)
  <2>1. \A u \in Sides : x.mode = Mode("Goal", u) =>
          /\ x.left = q.left
          /\ q.allow \/ SideOf(q, q.koTaker) # u
          /\ q.checkFoul /\ q.taker # NoPlayer /\ b.toucher = q.taker =>
               ~q.indirect /\ SideOf(q, q.taker) = u
          /\ ~WaitsToScore(c, u)
    BY <1>7, PlayOnMeans
  <2>2. o = x
    BY <1>7
  <2> HIDE DEF c, x
  <2> QED BY <1>5, <2>1, <2>2
<1> HIDE DEF c
<1>9. \A p : SideOf(q, p) = SideOf(o, p)
  BY <1>8 DEF SideOf
<1>10. ASSUME kick'.taker # NoPlayer, ~kick'.others
       PROVE  ~kick'.indirect /\ SideOf(o, kick'.taker) = s
  <2>1. kick'.taker = kick.taker
    BY <1>4, <1>6, KickGoesOn, PlayModes
  <2>2. /\ n.checkFoul /\ n.taker = kick.taker /\ n.indirect = kick.indirect
        /\ b.toucher = kick.taker /\ kick'.indirect = kick.indirect
    BY <1>3, <1>6, <1>10, <2>1, StillWatched
  <2> QED BY <1>7, <1>8, <1>9, <1>10, <2>1, <2>2 DEF Takes
<1>11. ASSUME kick'.byTeam = TeamOn(o, s) PROVE kick'.free
  <2> SUFFICES ASSUME ~kick'.free PROVE FALSE
    OBVIOUS
  <2>1. n.mode[1] # "KickOff"
    BY <1>6, PlayModes
  <2>2. ~FreeBy(h, place) /\ kick'.byTeam = kick.byTeam
    BY <1>4, <2>1, KickFree
  <2>3. ~n.allow /\ Team[n.koTaker] = kick.byTeam
    BY <1>3, <1>6, <2>2, OpenerWaits DEF Running
  <2>4. SideOf(q, q.koTaker) # s
    BY <1>7, <1>8, <2>3 DEF OpenerKept
  <2>5. Team[q.koTaker] = TeamOn(o, s)
    BY <1>7, <1>11, <2>2, <2>3 DEF OpenerKept
  <2>6. o.left = q.left /\ q.left \in Teams
    BY <1>7, <1>8 DEF Sound, Matches
  <2>7. TeamOn(q, s) = TeamOn(o, s)
    BY <2>6 DEF TeamOn
  <2>8. SideOf(q, q.koTaker) = s
    <3>1. CASE s = "left"
      BY <2>5, <2>7, <3>1 DEF SideOf, TeamOn
    <3>2. CASE s = "right"
      <4>1. TeamOn(q, "left") = q.left /\ TeamOn(q, "left") # TeamOn(q, "right")
        BY <2>6, TeamOfSide DEF TeamOn, Sides
      <4> QED BY <2>5, <2>7, <3>2, <4>1 DEF SideOf
    <3> QED BY <3>1, <3>2 DEF Sides
  <2> QED BY <2>4, <2>8
<1>12. ASSUME pass'.team = TeamOn(o, s) PROVE Cardinality(pass'.mates) > 1
  <2>1. o.left \in Teams
    BY <1>7, <1>8 DEF Sound, Matches
  <2>2. pass'.team # "none"
    BY <1>12, <2>1, TeamOnTeam
  <2>3. /\ pass'.team \in Teams /\ Fits(c, pass'.team, pass'.mates)
        /\ c.time - c.passTime[pass'.team] < ScoreWait /\ c.left = n.left
    BY <1>3, <1>6, <1>7, <2>2, PassStands DEF c
  <2>4. TeamOn(c, s) = pass'.team
    BY <1>7, <1>8, <1>12, <2>3 DEF TeamOn
  <2>5. Mates2(pass'.mates)
    BY <1>8, <2>3, <2>4 DEF WaitsToScore, Fits
  <2>6. pass'.mates \in SUBSET Players
    BY <1>4, PassOk DEF Passes
  <2> QED BY <2>5, <2>6, TwoMates
<1> QED BY <1>4, <1>10, <1>11, <1>12

(* A goal counts only when it is earned, in a match of more than two       *)
(* players: an indirect kick has been played on by another player, the     *)
(* side that kicked off has left the circle or met the other side, and a   *)
(* side after its pass mode has passed the ball                            *)
(* (SoccerRuleAspect::CheckGoal, with what UpdateKickOff,                  *)
(* SetKickTakenValues, UpdatePassModeScoringCheckValues and                *)
(* CheckFreeKickTakerFoul have kept for it).                               *)
THEOREM NoGoalUnearned ==
  ASSUME Cardinality(Players) > 2, ScoreWait > 0, "none" \notin Teams
  PROVE  Spec => GoalsAreEarned
<1>1. Init => TouchInv /\ OpenerInv /\ PassInv
  BY DEF Init, TouchInv, Guards, OpenerInv, PassInv, NoKick, NoPass
<1>2. IInv /\ TouchInv /\ [Next]_vars => TouchInv'
  BY TouchStep
<1>3. IInv /\ OpenerInv /\ [Next]_vars => OpenerInv'
  BY OpenerStep
<1>4. IInv /\ PassInv /\ [Next]_vars => PassInv'
  BY PassStep
<1>5. IInv /\ TouchInv /\ OpenerInv /\ PassInv /\ [Next]_vars => [GoalEarned]_vars
  BY EarnStep
<1>6. GoalsAreEarned <=> [][GoalEarned]_vars
  BY DEF GoalsAreEarned, GoalEarned
<1> QED BY <1>1, <1>2, <1>3, <1>4, <1>5, <1>6, AlwaysInv, PTL DEF Spec
=============================================================================
