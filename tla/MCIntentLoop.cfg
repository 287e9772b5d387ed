CONSTANTS
  Nodes = {"n1", "n2"}
  Legacy = {"n1"}
  Unbuildable = {2}
  Unnameable <- MCUnnameable
  QuickRejoin = FALSE
  MaxVersion = 3
  MaxChurn = 3
  Objects = {"v", "d", "a", "c"}
  KindOf <- MCKindOf
  Refs <- MCRefs
  MaxEdits = 6
SPECIFICATION MCSpec
INVARIANT UsedStays
PROPERTIES
  ProvisioningUntouched LegacyKept  
CHECK_DEADLOCK FALSE
