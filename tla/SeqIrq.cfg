CONSTANTS
  Addr <- Addresses
  Micro <- Assembled
  Regs <- AllRegs
  Pipe <- pipe
  Framed <- FrameRegs
  Opcodes = {"nop", "rte", "stop", "movetosr"}
  MayFault = {"interrupt"}
  SRs <- IrqSRs
  Levels = {0, 3, 7}
  ResetPin = TRUE
  MaxLong = 0
  MaxShort = 1
SPECIFICATION FairSpec
INVARIANTS IrqHonest
PROPERTIES Irq7Once NmiServed
