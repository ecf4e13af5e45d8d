CONSTANTS
  NatsModes = {TRUE}
  Inbound <- MCTypes
  HubCap = 1
  MaxEvents = 1
  MaxWire = 1
SPECIFICATION Spec
INVARIANTS
  DeliveredAsSigned
CHECK_DEADLOCK FALSE
