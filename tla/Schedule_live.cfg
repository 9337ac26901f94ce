SPECIFICATION EndlessSpec
CONSTANTS
  once = once
  review = review
  digest = digest
  news = news
  NoTask = NoTask
  Tasks = {once, digest}
  CronTasks = {digest}
  AckTasks = {}
  Powers = {}
  PowerTasks <- MCPowerTasks
  NextCronTime <- EveryTwo
  Clients = {}
  Delays = {}
  QueryLimit = 1
  InboundCap = 1
  Faults = FALSE
  MaxTime = 4
  MaxStarts = 2
PROPERTY DueTaskFires
PROPERTY StopReturns
CHECK_DEADLOCK FALSE
