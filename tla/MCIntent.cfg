CONSTANTS
  Width = 4
  Inbounds = {"i1"}
  Outbounds = {"o1"}
  L2As = {"l1"}
  Collectors = {"c1"}
  NetOf <- MCNetOf
  Count <- MCCount
  ReservedRanges <- MCReservedRanges
  Malformed = {}
  Networks <- MCNetworks
  NoNet <- MCNoNet
  Nodes = {1, 2}
  Subnet <- MCSubnet
  MaxChurn = 4
SPECIFICATION MCSpec
INVARIANTS
  
   Routed NodeStateSound
PROPERTIES
  AllocationsStable LoopbacksStable
CHECK_DEADLOCK FALSE
