CONSTANTS
  Micro <- ControlStore
  Instrs <- Immediates
  MaxFaults = 1
  UnitKept = TRUE
  BufferKept = FALSE
SPECIFICATION Spec
INVARIANT WritesOnce
