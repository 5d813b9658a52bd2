\* One car between three floors and one passenger with a trip up or down.
SPECIFICATION FairSpec
CONSTANTS
  a = a
  p = p
  q = q
  LowestFloor = 1
  HighestFloor = 3
  Requests = {}
  MaxRequests = 0
  MaxBreaks = 0
  MaxSockets = 1
  CarName = a
  Pads = {p}
  Calls <- UpOrDown
  MaxClients = 2
  MaxInFlight = 1
  StackCars <- ZeroedStack
INVARIANTS
  OpensOnlyAtStops
  NobodyForgotten
PROPERTIES
  EveryoneDelivered
  ControllerLearns
CHECK_DEADLOCK FALSE
