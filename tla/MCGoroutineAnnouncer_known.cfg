\* A version sent between WaitForVersion's look and its subscription.
\* The other known divergences, each with MaxVersion and Events as given:
\*   NoPanic: Spec, Nobody twice, NoCapacity, 1, LateAnnounce
\*   PinHoldsBack: Spec, OneSubscriber and Nobody, OneLarge, 2, PinOnly
\*   CloseEndsEverybody: OneSubscriber and Nobody, OneSmall, 2, CloseOnly
SPECIFICATION FairSpec
CONSTANTS
  s1 = s1
  s2 = s2
  w1 = w1
  Subscribers <- Nobody
  Waiters <- OneWaiter
  Capacity <- WaiterLarge
  QueueSize = 2
  MaxVersion = 1
  Events <- None
CHECK_DEADLOCK FALSE
PROPERTIES
  WaiterIsAnswered
