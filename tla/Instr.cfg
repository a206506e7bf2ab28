CONSTANTS
  Micro <- ControlStore
  Instrs <- Everything
  MaxFaults = 2
  UnitKept = TRUE
  BufferKept = TRUE
  InOrder <- Order
  Wanted <- Answers
SPECIFICATION SpecR
INVARIANTS PipeInStep ReadsOnce WritesOnce RegistersRight RequestForeseen FindsTheSame
PROPERTY FaultFree
