CONSTANTS
  a = a
  b = b
  MaxOps = 3
  MaxTime = 3
  Key <- MCKey
  Histories <- MCHistories
  EventHistories <- MCEventHistories
SPECIFICATION Spec
INVARIANT AcceptedIsLinearizable
INVARIANT RefusedIsNot
INVARIANT ListIsWhatIsLeft
PROPERTY SearchSpec
PROPERTY Returns
PROPERTY SearchesEnd
CHECK_DEADLOCK FALSE
