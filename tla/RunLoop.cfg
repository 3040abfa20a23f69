SPECIFICATION FairSpec
CONSTANTS
  agents = agents
  input = input
  monitor = monitor
  Nodes <- AllNodes
  NodeStep <- Steps
  SimStep = 2
  AdjustSpeed = TRUE
  MaxStepsPerCycle = 2
  Lags <- OnTimeOrLate
  MaxRuns = 2
INVARIANT ActsAndEndsAlternate
PROPERTY ContinueEndsPause
