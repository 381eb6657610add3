\* Fair goroutines, channels that never fill up, an orderly close.
SPECIFICATION FairSpec
CONSTANTS
  s1 = s1
  s2 = s2
  w1 = w1
  Subscribers <- OneSubscriber
  Waiters <- OneWaiter
  Capacity <- Large
  QueueSize = 2
  MaxVersion = 3
  Events <- Orderly
CHECK_DEADLOCK FALSE
PROPERTIES
  EarlyWaiterIsAnswered
  CloseEndsEverybody
