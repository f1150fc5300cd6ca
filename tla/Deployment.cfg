SPECIFICATION FairSpec
CONSTANTS
  d1 = d1
  d2 = d2
  Runners = {d1, d2}
  MaxRelease = 2
  Files <- MCFiles
  Tasks <- MCTasks
  Baselined = {1}
CHECK_DEADLOCK FALSE
INVARIANTS
  LedgersAreTrue
  SchemaBeforeCode
PROPERTIES
  InOrder
  EventuallyDeployed
