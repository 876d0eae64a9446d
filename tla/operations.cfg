CONSTANTS
  Sticks <- AllSticks
  Lengths = {20, 21, 40, 41}
  MaxCalls = 2
SPECIFICATION Spec
INVARIANTS TypeOK SlotWhole SuccessMeansDone RejectedChangesNothing PinChangedByItsCall ProtocolMatchesFirmware
CHECK_DEADLOCK FALSE
