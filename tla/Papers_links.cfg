SPECIFICATION Spec
CONSTANTS
  Callers = {"call"}
  Conns = {"conn"}
  NTopics = 1
  TopicArgs = {1}
  Answers <- MCAnswers
  MaxAttempts = 3
  MaxQueries = 1
  MaxCalls = 2
INVARIANT ResultsLinked
CHECK_DEADLOCK FALSE
