CONSTANTS
  i1 = i1
  i2 = i2
  Ids <- MCOneId
  Kinds = {"READ", "RMW"}
  Answers = {"none", "dtack", "berr"}
  FreePins = {"br", "bgack", "halt"}
  ERuns = FALSE
  RmwKept = TRUE
  AddrHiZ = TRUE
SPECIFICATION FairSpec
INVARIANTS StrobePerCycle
PROPERTIES RequestServed MasterServed
