CONSTANTS
  Capacity = 1
  MaxClients = 1
  MaxFrames = 1
  MaxPackets = 1
  MaxDetach = 1
  Timings = {TRUE}
SPECIFICATION Spec
PROPERTY CloseForwardsAccepted
CHECK_DEADLOCK FALSE
