CONSTANTS
  Threads = {t1}
  Called <- Functions
  CommandStatus = {4, 5}
SPECIFICATION Spec
INVARIANT FailureReported
