CONSTANTS
  Addr <- Addresses
  Micro <- Assembled
  Regs <- AllRegs
  Pipe <- pipe
  Framed <- FrameRegs
  Live <- LiveRegs
  Building <- FaultWords
  Returning <- ReturnWords
  Processing <- GroupWords
  Reached <- NoStop
  Steady <- SteadyWords
  Saving <- SavingWords
  Opcodes = {"nop", "move", "movem", "trap", "rte"}
  MayFault <- Everywhere
  SRs <- PlainSRs
  Levels = {0}
  ResetPin = FALSE
  MaxLong = 2
  MaxShort = 1
SPECIFICATION Spec
INVARIANTS OwnValues SkipsOnlyFaulted GroupIsProcessing
PROPERTIES ResumesFaulted
