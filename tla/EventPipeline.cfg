\* With NATS (inbound messages of both event types, and the exports) and
\* without it; a hub queue of one message, which the hub need not ever take.
CONSTANTS
  NatsModes = {TRUE, FALSE}
  Inbound <- MCTypes
  HubCap = 1
  MaxEvents = 2
  MaxWire = 1
SPECIFICATION FairSpec
INVARIANTS
  TypeOK
  AlertsAreLogged
  ShownIsRecorded
PROPERTIES
  PushReturns
CHECK_DEADLOCK FALSE
