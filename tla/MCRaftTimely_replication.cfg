SPECIFICATION SpecElected
CONSTANTS
  Server = {s1, s2, s3}
  Leader = s1
  Rival = s2
  None = None
  Command = {a, b}
  Aliased = FALSE
  MaxTerm = 2
  MaxLog = 1
  MaxCrash = 1
  Beats = 1
  MaxResets = 1
  LateReplies = FALSE
  LateRequests = FALSE
  Common = a
  MaxCalls = 3
  MaxLater = 3
SYMMETRY FollowerSymmetry
CONSTRAINT FewCalls
INVARIANTS ElectionSafety VotesAreBacked VotesAccounted StateMachineSafety CommittedInLog
CHECK_DEADLOCK FALSE
