CONSTANTS
  t1 = t1
  t2 = t2
  t3 = t3
  Tasks <- MCTasks
  MaxGoroutine = 2
  DefaultMaxGoroutine = 10
SPECIFICATION Spec
INVARIANT WaitNeverPanics
