SPECIFICATION FairSpec
CONSTANTS
  Worker = {w1, w2, w3}
  Lasting = {w1}
  Limit = 2
  nRPC <- MCnRPC
  Mortal <- MCMortal
  nMap = 2
  nReduce = 1
  NoTask = NoTask
INVARIANTS TypeOK OneTaskPerWorker TasksConserved OutputsComplete
PROPERTY JobCompletes
CHECK_DEADLOCK FALSE
