SPECIFICATION MCSpec
CONSTANTS
  Callers = {"call1", "call2"}
  None = None
  Users = {"alice"}
  Scopes = {"here"}
  Powers = {"digest"}
  NameOf <- MCNameOf
  Schedules <- MCSchedules
  MaxRows = 2
  MaxGrantCalls = 3
  Conns = {"conn1", "conn2"}
  NTopics = 1
  TopicArgs = {1}
  Answers <- MCAnswers
  MaxAttempts = 3
  MaxQueries = 1
  MaxPaperCalls = 2
  MaxVersion = 2
  Spaces = {"iam", "scheduler"}
  MaxHandles = 3
  Limit = 4
  Bytes = {"x", "newline", "space"}
  NL = "newline"
  SP = "space"
  Texts <- MCTexts
INVARIANT TypeOK
INVARIANT LastCallDecides
INVARIANT NewPapersLinked
INVARIANT ReportsHold
INVARIANT NoneLeaked
INVARIANT NothingCutOut
PROPERTY CancelledForGood
CHECK_DEADLOCK FALSE
