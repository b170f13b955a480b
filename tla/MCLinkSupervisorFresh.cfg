CONSTANTS
  Services = {}
  DhcpServer = TRUE
  ResetLimit = 2
  ProbePolls = 2
  Timely = FALSE
  MaxResets = 0
  MaxDrops = 1
  MaxDeaf = 3
  MaxTroubles = 0
SPECIFICATION Spec
INVARIANT SequenceStartsFresh
