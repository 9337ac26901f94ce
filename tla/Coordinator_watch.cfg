SPECIFICATION FairSpec
CONSTANTS
  NoSignal = NoSignal
  MaxProcs = 3
  MaxBuilds = 2
  SignalDeaths = TRUE
INVARIANT TypeOK
INVARIANT OnePipeline
INVARIANT NoOverlap
PROPERTY TermEnds
PROPERTY ExitRestarted
CHECK_DEADLOCK FALSE
