SPECIFICATION Spec
CONSTANTS
  Key = {1, 2, 3}
  Value = {1, 2}
  ihash <- MCihash
  nMap = 2
  nReduce = 2
  MaxPairs = 2
INVARIANT OutputCorrect
CHECK_DEADLOCK FALSE
