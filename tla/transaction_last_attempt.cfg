CONSTANTS
  RetryReceivingCount = 3
  RetryTimeout = 100
  MaxRuns = 1
  Reports <- MCReports
SPECIFICATION Spec
INVARIANT MaximumMeansNoAnswer
CHECK_DEADLOCK FALSE
