SPECIFICATION Spec
CONSTANTS
  Server = {s1, s2, s3}
  None = None
  Command = {}
  Aliased = FALSE
  MaxTerm = 2
  MaxLog = 0
  MaxCrash = 0
  Beats = 1
  MaxResets = 1
  MaxCalls = 5
  MaxCampaigns = 3
  MaxActivity = 8
  MaxFollowers = 1
SYMMETRY Symmetry
CONSTRAINT Bounded
INVARIANT OneVotePerTerm
CHECK_DEADLOCK FALSE
