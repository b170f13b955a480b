CONSTANTS
  Clients = {c1}
  Bridge = bridge
  NoCaller = NoCaller
  Capacity = 1
  SeqMod = 5
  MaxCalls = 5
  MaxGeneration = 2
SPECIFICATION Spec
INVARIANTS
  RepliesMatchCalls
  Window
