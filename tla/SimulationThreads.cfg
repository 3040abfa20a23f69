SPECIFICATION FairSpec
CONSTANTS
  agents = agents
  monitor = monitor
  render = render
  Nodes <- ThreeNodes
  NodeStep <- Steps
  SimStep = 2
  AdjustSpeed = FALSE
  MaxStepsPerCycle = 1
  Lags <- OnTimeOrLate
  RenderControl = render
  PauseWindow <- Settled
  MaxRuns = 1
INVARIANTS TypeOK PhysicsAlone PausedIdles LeaveTogether
PROPERTIES CycleSpec QuitEndsRun NodesServed
