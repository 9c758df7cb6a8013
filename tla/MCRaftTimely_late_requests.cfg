SPECIFICATION SpecElected
CONSTANTS
  Server = {s1, s2, s3}
  Leader = s1
  Rival = s2
  None = None
  Command = {a, b}
  Aliased = FALSE
  MaxTerm = 2
  MaxLog = 1
  MaxCrash = 0
  Beats = 2
  MaxResets = 1
  LateReplies = FALSE
  LateRequests = TRUE
  Common = a
  MaxCalls = 3
  MaxLater = 3
SYMMETRY FollowerSymmetry
CONSTRAINT FewCalls
INVARIANT StateMachineSafety
CHECK_DEADLOCK FALSE
