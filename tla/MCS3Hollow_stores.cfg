CONSTANTS
  Processes = {here, there}
  Threads = {publisher, janitor, near, far}
  publisher = publisher
  janitor = janitor
  near = near
  far = far
  here = here
  there = there
  Home <- TwoProcesses
  Producer = publisher
  Janitor = janitor
  MaxVersion = 4
  Contents <- TwoLists
  NoBlob = NoBlob
  NumStatesBetweenSnapshots = 3
  MaxRecords = 2
  Situations <- CrashesOrOutages
SPECIFICATION S3Spec
INVARIANTS ReadsArePublished RemovedStaysRemoved
PROPERTY RefreshEndsAtTarget
CHECK_DEADLOCK FALSE
