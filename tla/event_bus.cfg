\* Buffer 0 is raised to 1 by NewBus; one retry.
CONSTANTS
  c1 = c1
  c2 = c2
  c3 = c3
  w1 = w1
  w2 = w2
  e1 = e1
  NoID = NoID
  NoCall = NoCall
  Calls <- MCCalls
  Workers <- MCWorkers
  EventID <- MCEventID
  Buffer = 0
  MaxRetries = 1
SPECIFICATION FairSpec
INVARIANTS TypeOK NoSendOnClosedChannel HandledOncePerID RetryBudget AcceptedIsAccountedFor
PROPERTIES AcceptedIsSettled NoStandoff ImplementsDelivery
