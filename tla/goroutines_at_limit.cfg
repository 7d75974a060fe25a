CONSTANTS
  t1 = t1
  t2 = t2
  t3 = t3
  Tasks <- MCTasks
  MaxGoroutine = 1
  DefaultMaxGoroutine = 10
SPECIFICATION FairSpec
PROPERTY AtLimitNotRun
