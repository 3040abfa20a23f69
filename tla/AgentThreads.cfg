SPECIFICATION Spec
CONSTANTS
  Agents = {a1, a2, a3}
  MaxBarriers = 5
  Spaced = {"come", "go"}
  Prompt = TRUE
INVARIANTS TypeOK SomebodyRuns BarrierFits
PROPERTIES SenseSpec
