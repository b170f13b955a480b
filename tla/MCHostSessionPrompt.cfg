CONSTANTS
  Classes = {"serial", "p8055", "wispy", "audio", "usbtmc", "none"}
  MaxAttach = 3
  SlowDevices = {3}
  MaxInvalid = 1
  MaxGeneration = 6
  MaxFailures = 3
  Prompt = TRUE
SPECIFICATION Spec
INVARIANTS
  NoForgottenDevice
  FlashLockedWhileAttached
CHECK_DEADLOCK FALSE
