CONSTANTS
  i1 = i1
  i2 = i2
  Ids <- MCIds
  Kinds = {"READ", "WRITE", "RMW"}
  Answers = {"none", "dtack", "berr"}
  FreePins = {"br", "bgack", "halt"}
  ERuns = FALSE
  RmwKept = FALSE
  AddrHiZ = TRUE
SPECIFICATION Spec
SYMMETRY Permuted
INVARIANTS CycleOwnsBus TransferDriven OneMaster ReportIsTrue RMWIndivisible
PROPERTIES HaltHonoured AccessSpec
