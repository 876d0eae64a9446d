CONSTANTS
  Threads = {t1, t2}
  Called = {"NK_get_status", "NK_lock_device"}
  CommandStatus = {4, 5}
SPECIFICATION Spec
INVARIANT ResultGenuine
