SPECIFICATION Spec
CONSTANTS
  Server = {s1, s2}
  None = None
  Command = {a}
  Aliased = TRUE
  MaxTerm = 2
  MaxLog = 1
  MaxCrash = 1
  Beats = 1
  MaxResets = 1
  MaxCalls = 2
  MaxCampaigns = 1
  MaxActivity = 3
  MaxFollowers = 1
SYMMETRY Symmetry
CONSTRAINT Bounded
INVARIANTS TypeOK NextIndexInRange VotesAreDurable
PROPERTY BallotSpec
CHECK_DEADLOCK FALSE
