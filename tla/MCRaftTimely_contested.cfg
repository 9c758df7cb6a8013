SPECIFICATION SpecContested
CONSTANTS
  Server = {s1, s2, s3}
  Leader = s1
  Rival = s2
  None = None
  Command = {a, b}
  Aliased = FALSE
  MaxTerm = 4
  MaxLog = 2
  MaxCrash = 0
  Beats = 2
  MaxResets = 1
  LateReplies = TRUE
  LateRequests = FALSE
  Common = a
  MaxCalls = 3
  MaxLater = 2
CONSTRAINTS FewCalls FewCommands
INVARIANTS LogMatching LogTermsOrdered MatchIndexAccurate LeaderCompleteness
CHECK_DEADLOCK FALSE
