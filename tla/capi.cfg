CONSTANTS
  Threads = {t1}
  Called <- Functions
  CommandStatus = {4, 5, 255}
SPECIFICATION Spec
INVARIANTS TypeOK ResultGenuine StatusKept
