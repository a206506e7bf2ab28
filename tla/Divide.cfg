CONSTANTS
  W = 4
  power <- Powers
SPECIFICATION FairSpec
INVARIANT Division
PROPERTY Ends
