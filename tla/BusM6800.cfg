CONSTANTS
  i1 = i1
  i2 = i2
  Ids <- MCOneId
  Kinds = {"WRITE", "IACK"}
  Answers = {"none", "dtack", "vpa"}
  FreePins = {"reset"}
  ERuns = TRUE
  RmwKept = FALSE
  AddrHiZ = TRUE
SPECIFICATION FairSpec
PROPERTIES EndsWithE VmaBeforeE M6800Ends
