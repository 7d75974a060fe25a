CONSTANTS
  r1 = r1
  r2 = r2
  c1 = c1
  c2 = c2
  c3 = c3
  w1 = w1
  Plain = Plain
  BareQuote = BareQuote
  NoID = NoID
  NoCall = NoCall
  Requests <- MCRequests
  Calls <- MCCalls
  Owner <- MCOwner
  Bodies <- MCBodies
  EventID <- MCEventID
  Workers <- MCWorkers
  MaxGoroutine = 1
  DefaultMaxGoroutine = 10
  Buffer = 1
  MaxRetries = 3
SPECIFICATION FairSpec
INVARIANTS TypeOK ModuleClosesLast DrainedStopIsSafe InTimeExitSettles
PROPERTY StopEnds
