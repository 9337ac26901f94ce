SPECIFICATION FairSpec
CONSTANTS
  NoSignal = NoSignal
  MaxProcs = 2
  MaxBuilds = 2
  SignalDeaths = TRUE
PROPERTY CrashRestarted
CHECK_DEADLOCK FALSE
