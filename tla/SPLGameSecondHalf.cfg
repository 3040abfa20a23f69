SPECIFICATION Spec
CONSTANTS
  striker = striker
  Robots = {}
  Goalies = {}
  Deltas = {1}
  ReadyDuration = 1
  SetDuration = 0
  PenaltyDuration = 2
  HalfTime = 6
  SingleHalfTime = FALSE
  AutomaticKickOff = TRUE
  WaitBeforeKickOff = 0
  CoinTossForKickOff = FALSE
  ChangeSides = TRUE
  TrainerTimes = {}
  TrainerModes = {}
  TrainerScores = {}
  MaxCommands = 0
PROPERTIES
  OtherTeamStartsSecondHalf
