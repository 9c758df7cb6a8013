SPECIFICATION FairSpec
CONSTANTS
  Request = {c1, c2}
  e1 = e1
  s1 = s1
  End = {e1}
  Server = {s1}
  Target <- MCTarget
  MaxInstances = 2
INVARIANTS TypeOK PositiveReplyIsDurable
PROPERTIES KeepsPromise CallReturns
CHECK_DEADLOCK FALSE
