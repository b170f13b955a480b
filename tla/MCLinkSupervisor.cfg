CONSTANTS
  Services = {"http", "scpi"}
  DhcpServer = TRUE
  ResetLimit = 2
  ProbePolls = 2
  Timely = FALSE
  MaxResets = 1
  MaxDrops = 2
  MaxDeaf = 3
  MaxTroubles = 1
SPECIFICATION MainSpec
INVARIANTS
  TypeOK
  SilenceResetsBounded
PROPERTIES
  ReadyIsEstablished
  LinkLossShows
