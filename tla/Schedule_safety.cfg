SPECIFICATION Spec
CONSTANTS
  once = once
  review = review
  digest = digest
  news = news
  NoTask = NoTask
  Tasks = {once, news}
  CronTasks = {news}
  AckTasks = {news}
  Powers = {"p"}
  PowerTasks <- MCPowerTasks
  NextCronTime <- EveryTwo
  Clients = {"c", "d"}
  Delays = {1}
  QueryLimit = 2
  InboundCap = 1
  Faults = TRUE
  MaxTime = 3
  MaxStarts = 2
INVARIANT TypeOK
INVARIANT RunningIsCurrent
INVARIANT SendIsLicensed
PROPERTY AwaitingKept
PROPERTY ClosedSticks
PROPERTY DoneIsFinal
PROPERTY ImplementsTaskLife
CHECK_DEADLOCK FALSE
