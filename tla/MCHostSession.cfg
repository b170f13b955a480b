CONSTANTS
  Classes = {"serial", "bleuio", "p8055", "wispy", "audio", "usbtmc", "none"}
  MaxAttach = 3
  SlowDevices = {3}
  MaxInvalid = 1
  MaxGeneration = 6
  MaxFailures = 2
  Prompt = FALSE
SPECIFICATION FairSpec
INVARIANTS
  TypeOK
  ReadyDeviceIsPresent
PROPERTIES
  ImplementsSession
  ResetIsAdopted
  ResetEnds
CHECK_DEADLOCK FALSE
