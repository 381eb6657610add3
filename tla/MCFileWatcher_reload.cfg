\* Files come, change and go, the directory is watched or not, and Start is stopped or cancelled.
\* With PROPERTY StopEndsStart in place of the others: a Stop that comes during a scan, or
\* while the ticker is ready, is lost.
SPECIFICATION FairSpec
CONSTANTS
  k1 = k1
  a = a
  f1 = f1
  r1 = r1
  Loop = Loop
  Api = Api
  Contents <- OneContent
  Refreshers <- WatcherOnly
  DeltaRefreshers <- NoDeltaCaller
  IsDeltaProducer = FALSE
  MaxVersion = 1
  MaxFailures = 1
  MaxRestarts = 0
  Files <- OneFile
  MaxTime = 2
  WatchWhileRunning = TRUE
  CanStop = TRUE
PROPERTIES
  ChangeReachesConsumer
  CancelEndsStart
