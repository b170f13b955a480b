CONSTANTS
  Capacity = 2
  MaxClients = 2
  MaxFrames = 2
  MaxPackets = 3
  MaxDetach = 2
  Timings = {FALSE, TRUE}
SPECIFICATION FairSpec
INVARIANTS
  TypeOK
  WrittenInOrder
  ReceivedInOrder
  EofIsWritten
  NoOrphan
PROPERTIES
  ClosingReleases
  DetachCloses
CHECK_DEADLOCK FALSE
