CONSTANTS
  Classes = {"bleuio"}
  MaxAttach = 1
  SlowDevices = {}
  MaxInvalid = 0
  MaxGeneration = 4
  MaxFailures = 1
  Prompt = TRUE
SPECIFICATION Spec
INVARIANT FlashLockedWhileAttached
CHECK_DEADLOCK FALSE
