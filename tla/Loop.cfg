CONSTANTS
  Micro <- ControlStore
  Program <- TwoLoops
  Handler <- Handlers
  Bodies <- Repeated
  Builds = {TRUE, FALSE}
  MaxFaults = 1
  PhaseKept = TRUE
  TestKept = TRUE
SPECIFICATION FairSpec
INVARIANTS BoundaryOrdinary LoopIsALoop CycleIsItsOwn
PROPERTIES IrqTaken ExecutionSpec
