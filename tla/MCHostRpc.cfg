CONSTANTS
  Clients = {c1}
  Bridge = bridge
  NoCaller = NoCaller
  Capacity = 1
  SeqMod = 5
  MaxCalls = 3
  MaxGeneration = 3
SPECIFICATION FairSpec
INVARIANTS
  TypeOK
  PerformedInOwnSession
  ReadySessionIsOwned
  BridgeFlagIsHonest
PROPERTIES
  ImplementsRpc
  HolderReturns
