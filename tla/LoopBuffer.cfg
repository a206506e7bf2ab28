CONSTANTS
  Addr <- Addresses
  Micro <- Assembled
  Opcodes = {"nop", "move", "dbcc", "rte", "movetosr", "stop"}
  Suspended <- Interrupted
  Top = 3
  Loaded <- TwoSpaces
  Written = {1, 3}
  Values = {0, 1}
  LB_N = 2
  KeepsBuffer = TRUE
  Pins = {"none", "grant", "inv"}
  AheadKept = TRUE
SPECIFICATION Spec
INVARIANTS ServedIsMemory WindowCoherent AnsweredOnce
PROPERTIES FetchedOnce
