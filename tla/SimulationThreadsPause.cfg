SPECIFICATION Spec
CONSTANTS
  agents = agents
  monitor = monitor
  render = render
  Nodes <- TwoNodes
  NodeStep <- Steps
  SimStep = 2
  AdjustSpeed = TRUE
  MaxStepsPerCycle = 1
  Lags <- OnTimeOrLate
  RenderControl = render
  PauseWindow <- Anywhere
  MaxRuns = 1
INVARIANTS PhysicsAlone
