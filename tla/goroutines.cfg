\* The limit comes from the default, as for a non-positive argument.
CONSTANTS
  t1 = t1
  t2 = t2
  t3 = t3
  Tasks <- MCTasks
  MaxGoroutine = 0
  DefaultMaxGoroutine = 2
SPECIFICATION FairSpec
INVARIANTS TypeOK NoLeak LimitRespected WaitIsFinal
PROPERTIES EveryTaskSettles WaitEnds
