CONSTANTS
  RetryReceivingCount = 3
  RetryTimeout = 100
  MaxRuns = 1
  Reports <- MCReports
SPECIFICATION Spec
INVARIANT SmartcardErrorReported
CHECK_DEADLOCK FALSE
