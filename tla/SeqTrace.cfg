CONSTANTS
  Addr <- Addresses
  Micro <- Assembled
  Regs <- AllRegs
  Pipe <- pipe
  Framed <- FrameRegs
  Live <- LiveRegs
  Building <- FaultWords
  Returning <- ReturnWords
  Processing <- GroupWords
  Reached <- NoStop
  Steady <- SteadyWords
  Saving <- SavingWords
  Opcodes = {"nop", "move", "movem", "tas", "trap", "illegal_exc", "rte", "movetosr"}
  MayFault <- Everywhere
  SRs <- TracedSRs
  Levels = {0, 3}
  ResetPin = FALSE
  MaxLong = 1
  MaxShort = 1
SPECIFICATION Spec
INVARIANTS TraceExactly
PROPERTIES TraceFirst
