CONSTANTS
  Micro <- ControlStore
  Program <- TwoLoops
  Handler <- Handlers
  Bodies <- Cleared
  Builds = {FALSE}
  MaxFaults = 0
  PhaseKept = TRUE
  TestKept = TRUE
SPECIFICATION Spec
INVARIANT CycleIsItsOwn
