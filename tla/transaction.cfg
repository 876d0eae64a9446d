CONSTANTS
  RetryReceivingCount = 2
  RetryTimeout = 100
  MaxRuns = 2
  Reports <- MCReports
SPECIFICATION FairSpec
INVARIANTS TypeOK AnswerIsGenuine PollBudget CountersConsistent
PROPERTIES RunTerminates ImplementsExchange
