CONSTANTS
  a1 = a1
  a2 = a2
  A = A
  B = B
  NoName = NoName
  NoType = NoType
  Agent <- TwoAgents
  TeamName <- TwoTeams
  RobotType <- TwoTypes
  RequestedUnum <- AnyOrSecond
  SquadSize = 3
  MaxRobotTypeCount = 3
  MinRobotTypesCount = 2
  MaxSumTwoRobotTypes = 3
  MaxPending = 2
SPECIFICATION Spec
SYMMETRY AgentSymmetry
INVARIANTS
  TypeOK
  UniqueUniform
  PlayersCounted
  SquadMixLegal
  NamesDistinct
PROPERTY PlayerKeepsTeam
