CONSTANTS
  Services = {"http"}
  DhcpServer = TRUE
  ResetLimit = 2
  ProbePolls = 2
  Timely = TRUE
  MaxResets = 1
  MaxDrops = 0
  MaxDeaf = 2
  MaxTroubles = 0
SPECIFICATION FairSpec
PROPERTY DeafHostHeals
