----------------------------- MODULE SoccerGame -----------------------------
(***************************************************************************)
(* The play modes of a soccer match: GameStateAspect, BallStateAspect and  *)
(* SoccerRuleAspect, the control aspects that GameControlServer::Update    *)
(* calls in this order after every physics step, with what players (pass   *)
(* effector) and trainer (kickOff, playMode, dropBall) do in between.      *)
(*                                                                         *)
(* Abstracted: where the ball is and who collides with it are inputs of    *)
(* every update, so no position is kept; moving players and ball changes   *)
(* nothing here, and a goal is counted by the mode it leads to.  Left out: *)
(* keepaway and penalty shootout (both off unless configured), offside     *)
(* (disabled with #if 0), and the fouls of the automatic referee, which    *)
(* only move players.                                                      *)
(***************************************************************************)
EXTENDS Integers, Sequences, FiniteSets

CONSTANTS
  Players, Team,          \* the connected players and the team of each
  TeamA, TeamB, NoPlayer,
  HalfTime, SingleHalfTime, ChangeSides, AutomaticKickOff,
  WaitBeforeKickOff, GoalPauseTime, KickInPauseTime, DropBallTime,
  KickMargin,             \* the 0.03 s a kick must come after the pause
  KickDuration,           \* the 0.1 s for which touches are one kick
  PassDuration, ScoreWait, RetryWait,     \* mPassMode...
  QuitTime,               \* when a finished match ends the simulation
  TrainerModes,           \* play modes a trainer may set
  MaxTouches,             \* bound on the updates that see a touch of the ball
  MaxRequests             \* bound on the number of trainer commands and passes

Teams == {TeamA, TeamB}
Sides == {"left", "right"}
Opponent(s) == IF s = "left" THEN "right" ELSE "left"

ASSUME SoccerAssumption ==
  /\ Players # {} /\ IsFiniteSet(Players) /\ NoPlayer \notin Players
  /\ TeamA # TeamB /\ Team \in [Players -> Teams]
  /\ SingleHalfTime \in BOOLEAN /\ ChangeSides \in BOOLEAN
  /\ AutomaticKickOff \in BOOLEAN
  /\ {HalfTime, WaitBeforeKickOff, GoalPauseTime, KickInPauseTime,
      DropBallTime, KickMargin, KickDuration, PassDuration, ScoreWait,
      RetryWait, QuitTime, MaxTouches, MaxRequests} \subseteq Nat

Mode(kind, s) == <<kind, s>>
BeforeKickOff == Mode("BeforeKickOff", "none")
PlayOn        == Mode("PlayOn", "none")
GameOver      == Mode("GameOver", "none")
PlacedKicks   == {"KickIn", "FreeKick", "DirectFreeKick", "GoalKick", "CornerKick"}
Restarts      == PlacedKicks \union {"KickOff"}
Modes == {BeforeKickOff, PlayOn, GameOver} \union
         ((Restarts \union {"Pass", "Goal", "Offside"}) \X Sides)

ASSUME TrainerAssumption == TrainerModes \subseteq Modes

(* Where the ball is: in the centre circle, in the penalty area of the     *)
(* side with a goal kick, elsewhere on the field, over a side line, over a *)
(* goal line, or in a goal.                                                *)
At(where, s) == <<where, s>>
InCircle == At("circle", "none")
Beside   == At("beside", "none")
InArea   == At("area", "none")
Places == {InCircle, Beside, InArea, At("field", "none")} \union
          ({"end", "goal"} \X Sides)

(* The players of one list of collisions, in the order of the list: their  *)
(* number is that of the robots that can reach the ball at once.           *)
Collisions == {<<>>} \union {<<p>> : p \in Players} \union
              {<<p, q>> : p, q \in Players}
Hits == {h \in Collisions : Len(h) = 2 => h[1] # h[2]}
Hitters(h) == {h[i] : i \in DOMAIN h}

Never == -1000        \* the pass-mode time of a team without one
NotYet == 1000000     \* mAutoKickOffTimeOrigin at the start

VARIABLES
  match,     \* the fields of GameStateAspect and SoccerRuleAspect, see Matches
  ball,      \* BallStateAspect: last toucher, when, and the sides touching now
  kick,      \* history: the last restart and what has happened since
  pass,      \* history: the last pass mode and the mates touching since
  starter,   \* history: the team that kicked off the first half
  touches,   \* history: number of updates that saw a touch
  requests   \* history: number of trainer commands and pass modes

vars == <<match, ball, kick, pass, starter, touches, requests>>

MaybePlayer == Players \union {NoPlayer}

Matches == [
  (* GameStateAspect *)
  mode : Modes, half : {"first", "second"}, time : Nat, lastChange : Nat,
  lead : Nat, fup : Nat, nextKickOff : Sides \union {"none"},
  lastKickOffHalf : {"none", "first", "second"},
  passTime : [Teams -> Int], cleared : [Teams -> BOOLEAN],
  left : Teams,               \* mInternalIndex and the agents' team index
  quit : BOOLEAN,
  (* SoccerRuleAspect *)
  checkFoul : BOOLEAN, indirect : BOOLEAN, taker : MaybePlayer, kickTime : Nat,
  koTaker : MaybePlayer, allow : BOOLEAN, repel : BOOLEAN, origin : Nat,
  touched : [Sides -> MaybePlayer], several : [Sides -> BOOLEAN],
  leftCircle : [Sides -> BOOLEAN]]

TypeOK ==
  /\ match \in Matches
  /\ ball \in [toucher : MaybePlayer, time : Nat, sides : SUBSET Sides]
  /\ kick \in [taker : MaybePlayer, at : Nat, indirect : BOOLEAN,
               others : BOOLEAN, byTeam : Teams \union {"none"}, free : BOOLEAN]
  /\ pass \in [team : Teams \union {"none"}, at : Nat, mates : SUBSET Players]
  /\ starter \in Teams \union {"none", "named"}
  /\ touches \in 0..MaxTouches /\ requests \in 0..MaxRequests

NoKick == [taker |-> NoPlayer, at |-> 0, indirect |-> FALSE, others |-> FALSE,
           byTeam |-> "none", free |-> TRUE]
NoPass == [team |-> "none", at |-> 0, mates |-> {}]

Init ==
  /\ match = [mode |-> BeforeKickOff, half |-> "first", time |-> 0,
       lastChange |-> 0, lead |-> 0, fup |-> 0, nextKickOff |-> "none",
       lastKickOffHalf |-> "none", passTime |-> [t \in Teams |-> Never],
       cleared |-> [t \in Teams |-> FALSE], left |-> TeamA, quit |-> FALSE,
       checkFoul |-> FALSE, indirect |-> FALSE, taker |-> NoPlayer,
       kickTime |-> 0, koTaker |-> NoPlayer, allow |-> TRUE, repel |-> FALSE,
       origin |-> NotYet, touched |-> [s \in Sides |-> NoPlayer],
       several |-> [s \in Sides |-> FALSE],
       leftCircle |-> [s \in Sides |-> FALSE]]
  /\ ball = [toucher |-> NoPlayer, time |-> 0, sides |-> {}]
  /\ kick = NoKick /\ pass = NoPass /\ starter = "none"
  /\ touches = 0 /\ requests = 0
-----------------------------------------------------------------------------
(* GameStateAspect.                                                        *)

TeamOn(m, s) == IF s = "left" THEN m.left ELSE CHOOSE t \in Teams : t # m.left
SideOf(m, p) == IF Team[p] = m.left THEN "left" ELSE "right"

UpdateTime(m) ==
  CASE m.mode = BeforeKickOff -> [m EXCEPT !.lead = @ + 1]
    [] m.mode = GameOver      -> [m EXCEPT !.fup = @ + 1]
    [] OTHER                  -> [m EXCEPT !.time = @ + 1]

SetPlayMode(m, mode) ==
  IF m.mode = mode THEN m
  ELSE [m EXCEPT !.mode = mode, !.lastChange = m.time, !.lead = 0, !.fup = 0]

ModeTime(m) ==
  CASE m.mode = BeforeKickOff -> m.lead
    [] m.mode = GameOver      -> m.fup
    [] OTHER                  -> m.time - m.lastChange

KickOffBy(m, s) ==
  [SetPlayMode(m, Mode("KickOff", s)) EXCEPT !.lastKickOffHalf = m.half]

(* Mutant: the side is remembered as if the teams stayed where they are.   *)
KickOffsForgetting(m, s) ==
  IF s # "none" THEN {KickOffBy(m, s)}
  ELSE IF m.half = m.lastKickOffHalf THEN {KickOffBy(m, c) : c \in Sides}
  ELSE {[KickOffBy(m, c) EXCEPT !.nextKickOff = Opponent(c)] :
          c \in IF m.nextKickOff = "none" THEN Sides ELSE {m.nextKickOff}}

(* Mutant: nobody is told to kick off when no side is named.               *)
KickOffsUnnamed(m, s) == {KickOffBy(m, s)}

(* KickOff(ti), with the outcomes of the coin.                             *)
KickOffs(m, s) ==
  IF s # "none" THEN {KickOffBy(m, s)}
  ELSE IF m.half = m.lastKickOffHalf THEN {KickOffBy(m, c) : c \in Sides}
  ELSE {[KickOffBy(m, c) EXCEPT
           !.nextKickOff = IF ChangeSides THEN c ELSE Opponent(c)] :
          c \in IF m.nextKickOff = "none" THEN Sides ELSE {m.nextKickOff}}

(* BallStateAspect::UpdateCollidingAgents: the first of the list counts as *)
(* the last agent that touched the ball.                                   *)
UpdateBall(m, h) ==
  [toucher |-> IF h = <<>> THEN ball.toucher ELSE Head(h),
   time    |-> IF h = <<>> THEN ball.time ELSE m.time,
   sides   |-> {SideOf(m, p) : p \in Hitters(h)}]
-----------------------------------------------------------------------------
(* SoccerRuleAspect: what the updates of the modes share.  m is the match  *)
(* as far as the update has taken it, b the updated ball.                  *)

CheckTime(m) ==
  IF m.half = "first" /\ m.time >= HalfTime THEN
    IF SingleHalfTime THEN SetPlayMode(m, GameOver)
    ELSE [SetPlayMode(m, BeforeKickOff) EXCEPT
            !.half = "second",
            !.left = IF ChangeSides THEN TeamOn(m, "right") ELSE @]
  ELSE IF m.half = "second" /\ m.time >= 2 * HalfTime
  THEN SetPlayMode(m, GameOver)
  ELSE m

(* The kick-off team may score once an opponent has touched the ball, or   *)
(* a team member outside the centre circle.                                *)
AllowKickOffTeam(m, b, place) ==
  IF m.allow THEN m
  ELSE LET s == SideOf(m, m.koTaker)
       IN  [m EXCEPT !.allow = \/ Opponent(s) \in b.sides
                               \/ s \in b.sides /\ place # InCircle]

Award(m, mode) == [SetPlayMode(m, mode) EXCEPT !.repel = TRUE]

ResetKickChecks(m) ==
  [m EXCEPT !.checkFoul = FALSE, !.indirect = FALSE,
            !.passTime = [t \in Teams |-> Never]]

DropBall(m) == SetPlayMode(ResetKickChecks(m), PlayOn)

TooOld(m) == DropBallTime > 0 /\ ModeTime(m) > DropBallTime

(* Mutant: whether the kick is indirect is forgotten.                      *)
SetKickTakenForgets(m, b, indirect) ==
  [m EXCEPT !.checkFoul = TRUE, !.kickTime = b.time, !.taker = b.toucher]

SetKickTakenValues(m, b, indirect) ==
  [m EXCEPT !.checkFoul = TRUE, !.kickTime = b.time, !.taker = b.toucher,
            !.indirect = indirect]

TakeKick(m, b, indirect) ==
  SetPlayMode(SetKickTakenValues(m, b, indirect), PlayOn)

(* Mutant: every touch of the taker is the same kick.                      *)
WasLastKickByTaker(m, b) == m.taker # NoPlayer /\ b.toucher = m.taker

WasLastKickFromFreeKick(m, b) ==
  /\ m.taker # NoPlayer /\ b.toucher # NoPlayer
  /\ b.time - m.kickTime < KickDuration
  /\ b.toucher = m.taker

(* The goal of side s is not to count: p, who should not have scored it,   *)
(* gives a corner away, or a goal kick.                                    *)
PunishIndirectKickGoal(m, p, s) ==
  LET n == [m EXCEPT !.indirect = FALSE]
  IN  IF SideOf(m, p) = s THEN Award(n, Mode("CornerKick", Opponent(s)))
      ELSE Award(n, Mode("GoalKick", s))

WaitsToScore(m, s) ==
  /\ m.time - m.passTime[TeamOn(m, s)] < ScoreWait
  /\ ~m.cleared[TeamOn(m, s)]
-----------------------------------------------------------------------------
(* The ball in play.                                                       *)

(* Mates who touch the ball after their pass mode clear their team to      *)
(* score, when two of them have and the ball has left its place.           *)
UpdatePassChecks(m, h, away) ==
  IF \A s \in Sides : ~WaitsToScore(m, s) THEN m
  ELSE LET s      == IF WaitsToScore(m, "left") THEN "left" ELSE "right"
           own    == {i \in DOMAIN h : SideOf(m, h[i]) = s}
           first  == h[CHOOSE i \in own : \A j \in own : i <= j]
           last   == m.touched[s]
           passed == /\ own # {}
                     /\ \/ \E i, j \in own : i # j
                        \/ last # NoPlayer /\ (first # last \/ m.several[s])
           left   == m.leftCircle[s] \/ away
       IN  [m EXCEPT
              !.leftCircle[s] = left,
              !.touched[s] = IF own = {} \/ last # NoPlayer THEN @ ELSE first,
              !.several[s] = @ \/ passed,
              !.cleared[TeamOn(m, s)] = @ \/ (passed /\ left)]

(* The taker touches the ball a second time before anybody else: a free    *)
(* kick for the other side.                                                *)
SecondKick(m, b) == m.checkFoul /\ m.taker # NoPlayer /\ ~WasLastKickFromFreeKick(m, b)

CheckFreeKickTakerFoul(m, b) ==
  LET n == [m EXCEPT !.checkFoul = FALSE, !.indirect = FALSE]
  IN  IF ~SecondKick(m, b) THEN m
      ELSE IF b.toucher # m.taker THEN n
      ELSE Award(n, Mode("FreeKick", Opponent(SideOf(m, m.taker))))

(* The ball is in the goal of side s.                                      *)
CheckGoal(m, b, s) ==
  LET o == Opponent(s)
  IN  IF ~m.allow /\ SideOf(m, m.koTaker) = o
      THEN PunishIndirectKickGoal(m, m.koTaker, s)
      ELSE IF /\ WasLastKickFromFreeKick(m, b)
              /\ m.indirect \/ SideOf(m, b.toucher) = s
              /\ Cardinality(Players) > 2
      THEN PunishIndirectKickGoal(m, b.toucher, s)
      ELSE IF WaitsToScore(m, o) THEN Award(m, Mode("GoalKick", s))
      ELSE SetPlayMode(m, Mode("Goal", o))

CheckBallLeftField(m, b, place) ==
  IF b.toucher = NoPlayer THEN m
  ELSE LET s == SideOf(m, b.toucher)
       IN  CASE place = Beside -> Award(m, Mode("KickIn", Opponent(s)))
             [] place[1] = "end" ->
                  IF s = place[2] THEN Award(m, Mode("CornerKick", Opponent(s)))
                  ELSE Award(m, Mode("GoalKick", place[2]))
             [] OTHER -> m

UpdatePlayOn(m, b, h, place, away) ==
  LET n == UpdatePassChecks(m, h, away)
      f == CheckFreeKickTakerFoul(n, b)
  IN  IF SecondKick(n, b) /\ b.toucher = n.taker THEN f
      ELSE IF place[1] = "goal" THEN CheckGoal(f, b, place[2])
      ELSE CheckBallLeftField(f, b, place)

UpdatePassMode(m, s, b, h, place, away) ==
  LET t == TeamOn(m, s)
      n == [m EXCEPT !.passTime = [u \in Teams |-> IF u = t THEN m.time ELSE Never],
                     !.touched[s] = NoPlayer, !.several[s] = FALSE,
                     !.leftCircle[s] = FALSE, !.cleared[t] = FALSE]
      ends == \/ ModeTime(m) >= PassDuration
              \/ b.toucher # NoPlayer /\ b.time >= m.lastChange
  IN  UpdatePlayOn(IF ends THEN SetPlayMode(n, PlayOn) ELSE n, b, h, place, away)
-----------------------------------------------------------------------------
(* Before the game, between its parts and after it.                        *)

UpdateBeforeKickOff(m) ==
  LET wait == IF m.origin > m.lead THEN 0 ELSE m.lead - m.origin
      n    == [m EXCEPT !.origin = IF @ > m.lead THEN m.lead ELSE @]
  IN  IF AutomaticKickOff /\ wait > WaitBeforeKickOff
      THEN KickOffs(n, "none") ELSE {n}

UpdateKickOff(m, b) ==
  LET n == [ResetKickChecks(m) EXCEPT !.allow = TRUE]
  IN  IF TooOld(m) THEN DropBall(n)
      ELSE IF b.toucher = NoPlayer \/ b.time <= m.lastChange THEN n
      ELSE IF Cardinality(Players) > 2
      THEN [TakeKick(n, b, TRUE) EXCEPT !.koTaker = b.toucher, !.allow = FALSE]
      ELSE SetPlayMode(n, PlayOn)

Touched(m, b) ==
  /\ b.toucher # NoPlayer
  /\ b.time > m.lastChange + KickInPauseTime + KickMargin
  /\ ~m.repel

(* Mutant: a kick that was touched is never called off.                    *)
UpdatePlacedKickOnceTouched(m, b, waits, next) ==
  IF ModeTime(m) < KickInPauseTime THEN [m EXCEPT !.repel = TRUE]
  ELSE IF Touched(m, b) THEN next
  ELSE IF TooOld(m) THEN DropBall(m)
  ELSE IF waits THEN ResetKickChecks(m)
  ELSE [ResetKickChecks(m) EXCEPT !.repel = FALSE]

(* The four kicks from a place share the pause, the wait and the drop.     *)
UpdatePlacedKick(m, b, waits, next) ==
  IF ModeTime(m) < KickInPauseTime THEN [m EXCEPT !.repel = TRUE]
  ELSE IF TooOld(m) THEN DropBall(m)
  ELSE IF Touched(m, b) THEN next
  ELSE IF waits THEN ResetKickChecks(m)
  ELSE [ResetKickChecks(m) EXCEPT !.repel = FALSE]

UpdateKickIn(m, b) ==
  UpdatePlacedKick(m, b, FALSE, TakeKick(ResetKickChecks(m), b, TRUE))

UpdateFreeKick(m, b, indirect) ==
  UpdatePlacedKick(m, b, FALSE, TakeKick(ResetKickChecks(m), b, indirect))

UpdateCornerKick(m, b) ==
  UpdatePlacedKick(m, b, b.toucher = NoPlayer,
                   TakeKick(ResetKickChecks(m), b, FALSE))

(* Nothing happens until the ball leaves the penalty area.                 *)
UpdateGoalKick(m, b, place) ==
  UpdatePlacedKick(m, b, b.toucher = NoPlayer,
    IF place = InArea THEN ResetKickChecks(m)
    ELSE TakeKick(ResetKickChecks(m), b, FALSE))

UpdateGoal(m) ==
  IF ModeTime(m) < GoalPauseTime THEN {m}
  ELSE KickOffs(m, Opponent(m.mode[2]))

UpdateGameOver(m) == [m EXCEPT !.quit = m.fup >= QuitTime]

(* The switch over the play mode in SoccerRuleAspect::Update.              *)
UpdateMode(m, b, h, place, away) ==
  LET s == m.mode[2]
  IN CASE m.mode = BeforeKickOff       -> UpdateBeforeKickOff(m)
       [] m.mode = PlayOn              -> {UpdatePlayOn(m, b, h, place, away)}
       [] m.mode[1] = "KickOff"        -> {UpdateKickOff(m, b)}
       [] m.mode[1] = "FreeKick"       -> {UpdateFreeKick(m, b, TRUE)}
       [] m.mode[1] = "DirectFreeKick" -> {UpdateFreeKick(m, b, FALSE)}
       [] m.mode[1] = "KickIn"         -> {UpdateKickIn(m, b)}
       [] m.mode[1] = "GoalKick"       -> {UpdateGoalKick(m, b, place)}
       [] m.mode[1] = "CornerKick"     -> {UpdateCornerKick(m, b)}
       [] m.mode[1] = "Pass"           -> {UpdatePassMode(m, s, b, h, place, away)}
       [] m.mode[1] = "Goal"           -> UpdateGoal(m)
       [] m.mode = GameOver            -> {UpdateGameOver(m)}
       [] OTHER                        -> {m}       \* offside
-----------------------------------------------------------------------------
(* History.  m is the match when its mode was looked at, n afterwards.     *)

KickAfter(m, n, b, h, place) ==
  LET restart == m.mode[1] \in Restarts /\ n.mode = PlayOn
      others  == Hitters(h) \ {kick.taker} # {}
      byOther == \E p \in Hitters(h) : Team[p] # kick.byTeam
      free    == kick.free \/ byOther \/ (h # <<>> /\ place # InCircle)
  IN  CASE restart /\ TooOld(m) ->
             IF m.mode[1] = "KickOff" THEN NoKick
             ELSE [NoKick EXCEPT !.byTeam = kick.byTeam, !.free = free]
        [] restart /\ ~TooOld(m) ->
             [taker |-> b.toucher, at |-> b.time,
              indirect |-> m.mode[1] \in {"KickOff", "KickIn", "FreeKick"},
              others |-> FALSE,
              byTeam |-> IF m.mode[1] = "KickOff" THEN TeamOn(m, m.mode[2])
                         ELSE kick.byTeam,
              free |-> IF m.mode[1] = "KickOff"
                       THEN Team[b.toucher] # TeamOn(m, m.mode[2]) ELSE free]
        [] OTHER -> [kick EXCEPT !.others = @ \/ others, !.free = free]

PassAfter(m, n, h) ==
  LET own(t) == {p \in Hitters(h) : Team[p] = t}
  IN  IF n.mode # PlayOn /\ n.mode[1] \notin {"Pass", "Goal"} THEN NoPass
      ELSE IF m.mode[1] = "Pass"
      THEN [team |-> TeamOn(m, m.mode[2]), at |-> m.time,
            mates |-> own(TeamOn(m, m.mode[2]))]
      ELSE IF m.mode # PlayOn \/ m.time - pass.at >= ScoreWait THEN NoPass
      ELSE [pass EXCEPT !.mates = @ \union own(pass.team)]
-----------------------------------------------------------------------------
(* The actions.                                                            *)

(* Whether the ball is out of the pass mode circle now: only a team that   *)
(* waits asks.                                                             *)
Aways == IF match.mode[1] = "Pass" \/ \E s \in Sides : WaitsToScore(match, s)
         THEN BOOLEAN ELSE {FALSE}

(* Lines and goals matter in play only.                                    *)
SeenPlaces == IF match.mode[1] \in {"PlayOn", "Pass"} THEN Places
              ELSE {InCircle, InArea, At("field", "none")}

Update ==
  /\ ~match.quit
  /\ \E h \in Hits, place \in SeenPlaces, away \in Aways :
       \E m \in {UpdateTime(match)} :
       \E b \in {UpdateBall(m, h)} :
       \E n \in {AllowKickOffTeam(CheckTime(m), b, place)} :
       \E o \in UpdateMode(n, b, h, place, away) :
         /\ touches' = IF h = <<>> THEN touches ELSE touches + 1
         /\ touches' <= MaxTouches
         /\ match' = o /\ ball' = b
         /\ kick' = KickAfter(n, o, b, h, place)
         /\ pass' = PassAfter(n, o, h)
         /\ starter' = IF /\ starter = "none" /\ o.half = "first"
                          /\ o.mode[1] = "KickOff"
                       THEN TeamOn(o, o.mode[2]) ELSE starter
         /\ UNCHANGED requests

Request ==
  /\ ~match.quit
  /\ requests < MaxRequests
  /\ requests' = requests + 1

(* PassEffector::PrePhysicsUpdateInternal of a player near the ball, with  *)
(* CanActivatePassMode.                                                    *)
StartPassMode(p) ==
  LET s == SideOf(match, p)
  IN  /\ Request
      /\ match.mode = PlayOn
      /\ match.time - match.passTime[Team[p]] >= RetryWait
      /\ s \notin ball.sides
      /\ match' = SetPlayMode(match, Mode("Pass", s))
      /\ UNCHANGED <<ball, kick, pass, starter, touches>>

Command ==
  /\ Request
  /\ kick' = NoKick /\ pass' = NoPass
  /\ UNCHANGED <<ball, touches>>

TrainerPlayMode ==
  /\ Command
  /\ \E mode \in TrainerModes : match' = SetPlayMode(match, mode)
  /\ starter' = "named"

TrainerKickOff ==
  /\ Command
  /\ \E s \in Sides \union {"none"} :
       /\ match' \in KickOffs(match, s)
       /\ starter' = IF s # "none" THEN "named"
                     ELSE IF starter = "none" /\ match.half = "first"
                     THEN TeamOn(match', match'.mode[2]) ELSE starter

TrainerDropBall ==
  /\ Command
  /\ match' = DropBall(match)
  /\ starter' = IF match.mode = BeforeKickOff THEN "named" ELSE starter

Next ==
  \/ Update
  \/ \E p \in Players : StartPassMode(p)
  \/ TrainerPlayMode
  \/ TrainerKickOff
  \/ TrainerDropBall

Spec == Init /\ [][Next]_vars
-----------------------------------------------------------------------------
(* Properties.                                                             *)

(* Update makes the mode a goal for side s.                                *)
Scores(s) ==
  /\ match'.mode = Mode("Goal", s) /\ match.mode # match'.mode
  /\ UNCHANGED requests

(* No goal counts that its scorers have not earned: after an indirect kick *)
(* somebody besides the taker has touched the ball, after a direct one the *)
(* taker has not put it into the own goal; the side that kicked off has    *)
(* had the ball out of the centre circle or the other side has touched it; *)
(* and a side in its wait after pass mode has played the ball between two  *)
(* of its players.  (SoccerRuleAspect::CheckGoal and what it relies on.)   *)
GoalsAreEarned ==
  [][\A s \in Sides : Scores(s) =>
       /\ \/ kick'.taker = NoPlayer
          \/ kick'.others
          \/ ~kick'.indirect /\ SideOf(match', kick'.taker) = s
       /\ kick'.byTeam = TeamOn(match', s) => kick'.free
       /\ pass'.team = TeamOn(match', s) => Cardinality(pass'.mates) > 1]_vars

(* A taker who touches the ball again when nobody else has is punished     *)
(* with a free kick for the other side, unless time is up.                 *)
(* (SoccerRuleAspect::CheckFreeKickTakerFoul.)                             *)
SecondTouchPunished ==
  [][(/\ UNCHANGED requests /\ match'.time > match.time
      /\ match.mode = PlayOn
      /\ kick.taker # NoPlayer /\ ~kick'.others
      /\ ball'.toucher = kick.taker /\ ball'.time = match'.time
      /\ ball'.time - kick.at >= KickDuration
      /\ match'.mode \notin {BeforeKickOff, GameOver})
     => match'.mode = Mode("FreeKick", Opponent(SideOf(match', kick.taker)))]_vars

(* No restart keeps the match waiting longer than mDropBallTime: whatever  *)
(* the players do the ball is in play again by then.                       *)
RestartsAreShort ==
  match.mode[1] \in Restarts /\ DropBallTime > 0 =>
    ModeTime(match) <= DropBallTime

(* The team that did not kick off the match kicks off the second half, if  *)
(* no trainer names another.  (GameStateAspect::KickOff and SwapTeamSides.)*)
OtherTeamStartsSecondHalf ==
  [][(/\ starter' \in Teams
      /\ match.half = "second" /\ match.lastKickOffHalf = "first"
      /\ match'.lastKickOffHalf = "second")
     => TeamOn(match', match'.mode[2]) # starter']_vars
=============================================================================
