SPECIFICATION DevicesSpec
CONSTANTS
  SLOT_COUNT = 2
  SNAPSHOT_BLOCKS = 2
  SNAPSHOT_PERIOD_BLOCKS = 3
  SequenceLimit = 7
  MaxBlocks = 7
  MaxCaptures = 2
  MaxListeners = 2
  BRIDGE_CHANNEL_CAPACITY = 1
  SessionLimit = 4
  MaxOutput = 2
  MaxDongles = 2
  MaxTcpClients = 2
INVARIANTS DevicesTypeOK SlotAccessIsExclusive StreamsAreSeparate
PROPERTIES StreamIsHonest BlockWakesListener SessionEndsOnBothSides
CHECK_DEADLOCK FALSE
