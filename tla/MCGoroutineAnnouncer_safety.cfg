\* Pins, time-outs, a close and late announcements, with channels that fill up.
SPECIFICATION Spec
CONSTANTS
  s1 = s1
  s2 = s2
  w1 = w1
  Subscribers <- TwoSubscribers
  Waiters <- OneWaiter
  Capacity <- SmallAndLarge
  QueueSize = 1
  MaxVersion = 2
  Events <- AlmostEverything
CHECK_DEADLOCK FALSE
INVARIANT ClientsAreServed
PROPERTY SendsAreOrderly
