------------------------------ MODULE SPLGame -------------------------------
(***************************************************************************)
(* A match under the Standard Platform League rules: SPLState (with the    *)
(* parts of GameStateAspect it inherits) and SPLRule, the control aspects  *)
(* that GameControlServer::Update calls in this order after every physics  *)
(* step, and the trainer commands that change the same state in between.   *)
(*                                                                         *)
(* The SPL state (Initial, Ready, Set, Playing, Finished) and the soccer   *)
(* play mode (KickOff_Left, Goal_Right, PlayOn...) are two state machines  *)
(* that share one time stamp, mLastModeChange.                             *)
(*                                                                         *)
(* Abstracted: positions of ball and robots are regions; the physics and   *)
(* the players move both at will; the random delay before a ball that left *)
(* the field is put back is a free choice.  CheckGoal always awards a goal *)
(* here, because what makes it refuse one (kick-off and free-kick takers,  *)
(* pass mode) is set by SoccerRuleAspect::Update, which SPLRule overrides. *)
(***************************************************************************)
EXTENDS Integers

CONSTANTS
  Robots,             \* the players, all of them of two teams
  Goalies,            \* those with number 1
  Deltas,             \* simulated time between two updates
  ReadyDuration, SetDuration, PenaltyDuration,
  HalfTime, SingleHalfTime,
  AutomaticKickOff, WaitBeforeKickOff, CoinTossForKickOff,
  ChangeSides,        \* ChangeSidesInSecondHalf
  TrainerTimes,       \* times a trainer may set
  TrainerModes,       \* play modes a trainer may set
  TrainerScores,      \* scores a trainer may set
  MaxCommands         \* bound on the number of trainer commands

ASSUME SPLAssumption ==
  /\ Goalies \subseteq Robots
  /\ Deltas \subseteq Nat
  /\ ReadyDuration \in Nat /\ SetDuration \in Nat /\ PenaltyDuration \in Nat
  /\ HalfTime \in Nat /\ WaitBeforeKickOff \in Nat /\ MaxCommands \in Nat
  /\ SingleHalfTime \in BOOLEAN /\ AutomaticKickOff \in BOOLEAN
  /\ CoinTossForKickOff \in BOOLEAN /\ ChangeSides \in BOOLEAN
  /\ TrainerTimes \subseteq Nat /\ TrainerScores \subseteq Nat

Sides == {"left", "right"}
Opponent(s) == IF s = "left" THEN "right" ELSE "left"

States == {"Unknown", "Initial", "Ready", "Set", "Playing", "Finished"}
Modes == {"BeforeKickOff", "KickOff_Left", "KickOff_Right", "Goal_Left",
          "Goal_Right", "PlayOn", "GameOver"}   \* PlayOn stands for the rest
Halves == {"none", "first", "second"}

ASSUME TrainerModesAssumption == TrainerModes \subseteq Modes

VARIABLES
  game,        \* the SPLState, see Games
  ball,        \* where the ball is; a side when it lies in that side's goal
  dropForced,  \* mdropBallForced
  place,       \* where every robot is
  till,        \* tillPenalized of penalised robots, NoPenalty of the others
  commands,    \* history: trainer commands so far
  spent,       \* history: game time since the SPL state was entered
  served,      \* history: game time each robot has spent penalised
  clockSet,    \* history: the trainer has set the clock
  restarted,   \* history: the ball was at the kick-off spot since the last goal
  dropped,     \* history: the trainer dropped the ball in this break
  starter      \* history: the side that had the first kick-off

history == <<commands, spent, served, clockSet, restarted, dropped, starter>>
robots == <<place, till>>
vars == <<game, ball, dropForced, robots, history>>

Games == [state : States, mode : Modes, time : Nat, lead : Nat,
          lastChange : Nat, half : Halves, lastKickOffHalf : Halves,
          nextKickOff : Sides \union {"none"}, score : [Sides -> Nat]]

(* "side": beside the lines; "away": beyond the margin around the field;   *)
(* "area": inside the penalty area of the own team.                        *)
Places == {"field", "area", "side", "away"}
NoPenalty == -1

TypeOK ==
  /\ game \in Games
  /\ ball \in {"field", "out", "hidden"} \union Sides
  /\ dropForced \in BOOLEAN
  /\ place \in [Robots -> Places]
  /\ till \in [Robots -> Nat \union {NoPenalty}]
  /\ commands \in 0..MaxCommands
  /\ spent \in Nat /\ served \in [Robots -> Nat]
  /\ clockSet \in BOOLEAN /\ restarted \in BOOLEAN /\ dropped \in BOOLEAN
  /\ starter \in Sides \union {"none"}

Init ==
  /\ game = [state |-> "Unknown", mode |-> "BeforeKickOff", time |-> 0,
             lead |-> 0, lastChange |-> 0, half |-> "first",
             lastKickOffHalf |-> "none",
             nextKickOff |-> IF CoinTossForKickOff THEN "none" ELSE "left",
             score |-> [s \in Sides |-> 0]]
  /\ ball = "field" /\ dropForced = FALSE
  /\ place = [r \in Robots |-> "field"]
  /\ till = [r \in Robots |-> NoPenalty]
  /\ commands = 0 /\ spent = 0 /\ clockSet = FALSE
  /\ served = [r \in Robots |-> 0]
  /\ restarted = TRUE /\ dropped = FALSE /\ starter = "none"
-----------------------------------------------------------------------------
(* Operations on the game state.                                           *)

(* Mutant: the new state inherits the old one's time stamp.                *)
SetStateUnstamped(g, s) == [g EXCEPT !.state = s]

SetState(g, s) ==
  IF g.state = s THEN g
  ELSE [g EXCEPT !.state = s, !.lastChange = g.time]

SetPlayMode(g, m) ==
  IF g.mode = m THEN g
  ELSE [g EXCEPT !.mode = m, !.lastChange = g.time, !.lead = 0]

KickOffMode(s) == IF s = "left" THEN "KickOff_Left" ELSE "KickOff_Right"

(* KickOff(ti) with the outcomes of the coin.                              *)
NewHalf(g) == g.half # g.lastKickOffHalf

KickOffTakers(g, ti) ==
  IF ti # "none" THEN {ti}
  ELSE IF NewHalf(g) /\ g.nextKickOff # "none" THEN {g.nextKickOff} ELSE Sides

KickOffBy(g, ti, taker) ==
  LET next == IF ti # "none" \/ ~NewHalf(g) THEN g.nextKickOff
              ELSE IF ChangeSides THEN taker ELSE Opponent(taker)
      k == [SetPlayMode(g, KickOffMode(taker)) EXCEPT
              !.nextKickOff = next, !.lastKickOffHalf = g.half]
  IN IF k.state = "Initial" THEN SetState(k, "Ready") ELSE k

KickOffs(g, ti) == {KickOffBy(g, ti, taker) : taker \in KickOffTakers(g, ti)}

(* Mutant: the clock counts down.                                          *)
UpdateTimeDown(g, d) ==
  CASE g.state = "Initial" ->
         [g EXCEPT !.lead = IF @ > WaitBeforeKickOff THEN @ ELSE @ + d]
    [] g.state = "Finished" -> g
    [] OTHER -> [g EXCEPT !.time = @ - d]

(* SPLState::UpdateTime; mLeadTime counts only up to its limit here.       *)
UpdateTime(g, d) ==
  CASE g.state = "Initial" ->
         [g EXCEPT !.lead = IF @ > WaitBeforeKickOff THEN @ ELSE @ + d]
    [] g.state = "Finished" -> g
    [] OTHER -> [g EXCEPT !.time = @ + d]

StateTime(g) == IF g.state = "Initial" THEN g.lead ELSE g.time - g.lastChange

(* Mutant: the first half goes on under the second's number.               *)
CheckTimePlaysOn(g) ==
  IF g.half = "first" /\ g.time >= HalfTime
  THEN IF SingleHalfTime THEN SetState(g, "Finished") ELSE [g EXCEPT !.half = "second"]
  ELSE IF g.half = "second" /\ g.time >= 2 * HalfTime THEN SetState(g, "Finished")
  ELSE g

CheckTime(g) ==
  IF g.half = "first" /\ g.time >= HalfTime
  THEN IF SingleHalfTime THEN SetState(g, "Finished")
       ELSE [SetState(g, "Initial") EXCEPT !.half = "second"]
  ELSE IF g.half = "second" /\ g.time >= 2 * HalfTime THEN SetState(g, "Finished")
  ELSE g

(* SPLState::UpdateKickOff: who takes the kick-off, by the play mode.      *)
UpdateKickOff(g) ==
  [g EXCEPT !.nextKickOff =
     CASE g.mode \in {"KickOff_Left", "Goal_Right"} -> "left"
       [] g.mode \in {"KickOff_Right", "Goal_Left"} -> "right"
       [] OTHER -> @]

(* The part of CheckGoal that awards the goal.                             *)
ScoreGoal(g, goal) ==
  LET scorer == Opponent(goal)
  IN SetPlayMode([g EXCEPT !.score[scorer] = @ + 1],
                 IF scorer = "left" THEN "Goal_Left" ELSE "Goal_Right")
-----------------------------------------------------------------------------
(* SPLRule::Update: the handler of the SPL state, CheckTime, UpdateKickOff. *)

Finish(g) == game' = UpdateKickOff(CheckTime(g))

HideBall == ball' = IF dropForced THEN ball ELSE "hidden"

UpdateUnknown(g) ==
  /\ g.state = "Unknown"
  /\ Finish(SetState(g, "Initial"))
  /\ UNCHANGED <<ball, dropForced, robots>>

(* Mutant: an automatic kick-off that waits for the game clock.            *)
UpdateInitialByClock(g) ==
  /\ g.state = "Initial"
  /\ HideBall
  /\ \E h \in IF AutomaticKickOff /\ g.time - g.lastChange > WaitBeforeKickOff
             THEN KickOffs(g, "none") ELSE {g} : Finish(h)
  /\ UNCHANGED <<dropForced, robots>>

UpdateInitial(g) ==
  /\ g.state = "Initial"
  /\ HideBall
  /\ \E h \in IF AutomaticKickOff /\ StateTime(g) > WaitBeforeKickOff
             THEN KickOffs(g, "none") ELSE {g} : Finish(h)
  /\ UNCHANGED <<dropForced, robots>>

UpdateReady(g) ==
  /\ g.state = "Ready"
  /\ HideBall
  /\ Finish(IF StateTime(g) > ReadyDuration THEN SetState(g, "Set") ELSE g)
  /\ UNCHANGED <<dropForced, robots>>

(* IsIllegalPosition and ManualPlaceRobot; which half of the field a robot *)
(* is in is abstracted.  In a play mode that tells nobody's kick-off the   *)
(* assertion of IsIllegalPosition fails; the default (Release) build goes  *)
(* on to IsIllegalDefender.                                                *)
KickOffModes == {"KickOff_Left", "KickOff_Right", "Goal_Left", "Goal_Right"}

Placed(g, r) ==
  IF r \in Goalies THEN "area"
  ELSE IF g.mode \in KickOffModes \/ place[r] = "area" THEN "field"
  ELSE place[r]

UpdateSet(g) ==
  /\ g.state = "Set"
  /\ dropForced' = FALSE
  /\ place' = [r \in Robots |-> Placed(g, r)]
  /\ ball' = "field"
  /\ Finish(IF StateTime(g) > SetDuration THEN SetState(g, "Playing") ELSE g)
  /\ UNCHANGED till

(* Mutant: the goal does not interrupt play.                               *)
GoalPlaysOn(g) ==
  /\ g.state = "Playing" /\ ball \in Sides
  /\ dropForced' = FALSE
  /\ Finish(ScoreGoal(g, ball))
  /\ UNCHANGED <<ball, robots>>

(* UpdatePlaying when CheckGoal finds the ball in a goal: it returns before *)
(* it looks at the robots.                                                 *)
Goal(g) ==
  /\ g.state = "Playing" /\ ball \in Sides
  /\ dropForced' = FALSE
  /\ Finish(SetState(ScoreGoal(g, ball), "Ready"))
  /\ UNCHANGED <<ball, robots>>

Offends(r) == place[r] = "away" \/ (r \notin Goalies /\ place[r] = "area")

(* Mutant: the penalty ends when half of it is served.                     *)
PenalisedUntilEarly(g, r) ==
  IF till[r] = NoPenalty
  THEN IF Offends(r) THEN g.time + PenaltyDuration ELSE NoPenalty
  ELSE IF g.time > till[r] - PenaltyDuration THEN NoPenalty ELSE till[r]

PenalisedUntil(g, r) ==
  IF till[r] = NoPenalty
  THEN IF Offends(r) THEN g.time + PenaltyDuration ELSE NoPenalty
  ELSE IF g.time > till[r] THEN NoPenalty ELSE till[r]

(* Mutant: a ball drop asked for in play is remembered.                    *)
PlayKeepsDrop(g) ==
  /\ g.state = "Playing" /\ ball \notin Sides
  /\ ball' \in IF ball = "out" THEN {"out", "field"} ELSE {ball}
  /\ till' = [r \in Robots |-> PenalisedUntil(g, r)]
  /\ place' = [r \in Robots |-> IF till'[r] = till[r] THEN place[r] ELSE "side"]
  /\ Finish(g)
  /\ UNCHANGED dropForced

(* UpdatePlaying otherwise.  RemoveRobot and UnpenalizeRobot both put the  *)
(* robot beside the field.                                                 *)
Play(g) ==
  /\ g.state = "Playing" /\ ball \notin Sides
  /\ dropForced' = FALSE
  /\ ball' \in IF ball = "out" THEN {"out", "field"} ELSE {ball}
  /\ till' = [r \in Robots |-> PenalisedUntil(g, r)]
  /\ place' = [r \in Robots |-> IF till'[r] = till[r] THEN place[r] ELSE "side"]
  /\ Finish(g)

(* AutomaticQuit then stops the server, see SimulationThreads.             *)
UpdateFinish(g) ==
  /\ g.state = "Finished"
  /\ dropForced' = FALSE
  /\ Finish(g)
  /\ UNCHANGED <<ball, robots>>

Break == {"Unknown", "Initial", "Ready"}

Starts(g, h) == g.lastKickOffHalf = "none" /\ h.lastKickOffHalf = "first"

(* What the histories remember of a step from game to game'.               *)
Remember ==
  /\ spent' = IF game'.state # game.state THEN 0
              ELSE spent + game'.time - game.time
  /\ starter' = IF ~Starts(game, game') THEN starter
                ELSE IF game'.mode = "KickOff_Left" THEN "left" ELSE "right"

Update(d) ==
  LET g == UpdateTime(game, d)
  IN /\ \/ UpdateUnknown(g) \/ UpdateInitial(g) \/ UpdateReady(g) \/ UpdateSet(g)
        \/ Goal(g) \/ Play(g) \/ UpdateFinish(g)
     /\ Remember
     /\ served' = [r \in Robots |-> IF till[r] = NoPenalty THEN 0
                                    ELSE served[r] + game'.time - game.time]
     /\ restarted' = IF game.state = "Set" THEN TRUE
                     ELSE IF game'.score # game.score THEN FALSE ELSE restarted
     /\ dropped' = (dropped /\ game.state \in Break)
     /\ UNCHANGED <<commands, clockSet>>
-----------------------------------------------------------------------------
(* The ball rolls and the robots walk; a hidden ball lies 500 m away.      *)

Roll ==
  /\ ball # "hidden"
  /\ ball' \in {"field", "out"} \union Sides
  /\ UNCHANGED <<game, dropForced, robots, history>>

Walk(r, p) ==
  /\ place' = [place EXCEPT ![r] = p]
  /\ UNCHANGED <<game, ball, dropForced, till, history>>

(* Commands of the trainer.                                                *)
Command ==
  /\ commands < MaxCommands /\ commands' = commands + 1
  /\ UNCHANGED <<robots, served, restarted>>

PlayModeCommand(m) ==
  /\ Command /\ game' = SetPlayMode(game, m)
  /\ UNCHANGED <<ball, dropForced, spent, starter, clockSet, dropped>>

KickOffCommand(ti) ==
  /\ Command /\ game' \in KickOffs(game, ti)
  /\ Remember
  /\ UNCHANGED <<ball, dropForced, clockSet, dropped>>

(* DropBall(true) also clears the robots away, which Walk covers.          *)
DropBall ==
  /\ Command /\ game' = SetPlayMode(game, "PlayOn")
  /\ ball' = "field" /\ dropForced' = TRUE /\ dropped' = TRUE
  /\ UNCHANGED <<spent, starter, clockSet>>

TimeCommand(t) ==
  /\ Command /\ game' = [game EXCEPT !.time = t]
  /\ clockSet' = TRUE
  /\ UNCHANGED <<ball, dropForced, spent, starter, dropped>>

ScoreCommand(score) ==
  /\ Command /\ game' = [game EXCEPT !.score = score]
  /\ UNCHANGED <<ball, dropForced, spent, starter, clockSet, dropped>>

Trainer ==
  \/ \E m \in TrainerModes : PlayModeCommand(m)
  \/ \E ti \in Sides \union {"none"} : KickOffCommand(ti)
  \/ DropBall
  \/ \E t \in TrainerTimes : TimeCommand(t)
  \/ \E score \in [Sides -> TrainerScores] : ScoreCommand(score)

Next ==
  \/ \E d \in Deltas : Update(d)
  \/ Roll
  \/ \E r \in Robots, p \in Places : Walk(r, p)
  \/ Trainer

Spec == Init /\ [][Next]_vars

(* The server goes on stepping, and time does pass.                        *)
FairSpec == Spec /\ WF_vars(\E d \in Deltas \ {0} : Update(d))
-----------------------------------------------------------------------------
(* Robots get the whole of ReadyDuration to walk to their positions and    *)
(* the whole of SetDuration to stand there, whatever play modes, kick-offs *)
(* and goals stamp mLastModeChange in between; only a trainer who sets the *)
(* clock can cut them short.                                               *)
Ends(s, t) == game.state = s /\ game'.state = t
TimeSpent == spent + game'.time - game.time
RobotsGetTheirTime ==
  [][~clockSet' => /\ Ends("Ready", "Set") => TimeSpent > ReadyDuration
                   /\ Ends("Set", "Playing") => TimeSpent > SetDuration]_vars

(* The match goes through its phases in order: play starts from Set only,  *)
(* Set is entered from Ready only, the second half starts over at Initial  *)
(* and is never left for the first, and a finished match stays finished.   *)
PhaseOrder ==
  [][/\ game'.state = "Playing" => game.state \in {"Set", "Playing"}
     /\ game'.state = "Set" => game.state \in {"Ready", "Set"}
     /\ game.state = "Finished" => game'.state = "Finished"
     /\ game.half # game'.half => game'.half = "second" /\ game'.state = "Initial"
    ]_vars

(* A ball is counted once: between two goals the ball has been at the      *)
(* kick-off spot, although it stays where it is, in the goal, until the    *)
(* next update hides it.  (A trainer may set any score.)                   *)
OneGoalPerKickOff ==
  [][commands' = commands /\ game'.score # game.score => restarted]_vars

(* While robots take their positions no ball is there to be played, unless *)
(* the trainer dropped one in this very break: what was dropped in play    *)
(* does not count after it.                                                *)
BallAway ==
  [][/\ \E d \in Deltas : Update(d)
     /\ game.state \in {"Initial", "Ready"} /\ ~dropped
     => ball' = "hidden"]_vars

(* A penalty lasts PenaltyDuration of game time, through breaks and the    *)
(* change of halves, unless a trainer sets the clock.                      *)
PenaltyServed ==
  [][\A r \in Robots :
       till[r] # NoPenalty /\ till'[r] = NoPenalty /\ ~clockSet
       => served'[r] > PenaltyDuration]_vars

(* With automatic kick-offs every match comes to its end: neither the      *)
(* clock, which stands in Initial, nor the trainer can hold it up for ever *)
MatchEnds == <>(game.state = "Finished")

(* Why they hold.  A state change stamps the time, and a later stamp only  *)
(* makes the state look younger than it is.                                *)
StampInv ==
  ~clockSet => /\ game.lastChange <= game.time
               /\ game.time - game.lastChange <= spent

PenaltyInv ==
  \A r \in Robots : till[r] # NoPenalty /\ ~clockSet
                    => till[r] = game.time - served[r] + PenaltyDuration

PhaseInv ==
  /\ game.half \in {"first", "second"}
  /\ game.state = "Finished" => SingleHalfTime \/ game.half = "second"
  /\ game.state = "Playing" => restarted
  /\ game.state \in Break /\ dropForced => dropped

(* What the code says of itself and does not keep.                         *)

(* KickOff gives the second half to the team that did not start the first. *)
OtherTeamStartsSecondHalf ==
  [][game.lastKickOffHalf = "first" /\ game'.lastKickOffHalf = "second"
     => game'.mode = KickOffMode(Opponent(starter))]_vars
=============================================================================
