\* One car whose connection breaks, between three floors, and one passenger,
\* who may want to go to a floor above them.
SPECIFICATION Spec
CONSTANTS
  a = a
  p = p
  q = q
  LowestFloor = 1
  HighestFloor = 3
  Requests = {}
  MaxRequests = 0
  MaxBreaks = 1
  MaxSockets = 1
  CarName = a
  Pads = {p}
  Calls <- OrBeyond
  MaxClients = 2
  MaxInFlight = 1
  StackCars <- ZeroedStack
INVARIANTS
  OpensOnlyAtStops
  InShaft
CHECK_DEADLOCK FALSE
