SPECIFICATION Spec
CONSTANTS
  a1 = a1
  a2 = a2
  b1 = b1
  NoPlayer = NoPlayer
  TeamA = TeamA
  TeamB = TeamB
  Players = {a1, a2, b1}
  Team <- TeamOf
  HalfTime = 6
  SingleHalfTime = FALSE
  ChangeSides = TRUE
  AutomaticKickOff = TRUE
  WaitBeforeKickOff = 0
  GoalPauseTime = 1
  KickInPauseTime = 1
  DropBallTime = 2
  KickMargin = 0
  KickDuration = 1
  PassDuration = 1
  ScoreWait = 2
  RetryWait = 1
  QuitTime = 1
  TrainerModes <- SomeModes
  MaxTouches = 2
  MaxRequests = 1
INVARIANTS
  TypeOK
  RestartsAreShort
PROPERTIES
  GoalsAreEarned
  SecondTouchPunished
  OtherTeamStartsSecondHalf
CHECK_DEADLOCK FALSE
SYMMETRY Mates
