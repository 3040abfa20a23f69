SPECIFICATION FairSpec
CONSTANTS
  striker = striker
  Robots = {striker}
  Goalies = {}
  Deltas = {1, 2}
  ReadyDuration = 1
  SetDuration = 1
  PenaltyDuration = 1
  HalfTime = 6
  SingleHalfTime = FALSE
  AutomaticKickOff = TRUE
  WaitBeforeKickOff = 0
  CoinTossForKickOff = TRUE
  ChangeSides = TRUE
  TrainerTimes = {0, 7}
  TrainerModes = {"PlayOn", "KickOff_Left"}
  TrainerScores = {0, 2}
  MaxCommands = 1
INVARIANTS
  TypeOK
PROPERTIES
  RobotsGetTheirTime
  PhaseOrder
  OneGoalPerKickOff
  BallAway
  PenaltyServed
  MatchEnds
