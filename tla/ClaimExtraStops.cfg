\* One car between four floors and two passengers on their way up.
SPECIFICATION Spec
CONSTANTS
  a = a
  p = p
  q = q
  LowestFloor = 1
  HighestFloor = 4
  Requests = {}
  MaxRequests = 0
  MaxBreaks = 0
  MaxSockets = 1
  CarName = a
  Pads = {p, q}
  Calls <- TwoTripsUp
  MaxClients = 3
  MaxInFlight = 1
  StackCars <- ZeroedStack
INVARIANT ExtraStopsAdded
CHECK_DEADLOCK FALSE
