\* A shaft that crosses the ground, B1 to 2, two floors sent, one button press.
SPECIFICATION FairSpec
CONSTANTS
  LowestFloor <- Basement1
  HighestFloor = 2
  Requests <- GroundFloors
  MaxRequests = 2
  MaxBreaks = 0
  MaxSockets = 1
  Panels = {p1}
  PanelOperations = {"open", "close"}
  MaxPresses = 1
  Monitored = FALSE
  SensorOperations = {}
  MaxSensed = 0
INVARIANTS
  TypeOK
  DoorsAttended
  InShaft
PROPERTIES
  DestinationHeld
  EveryFloorServed
  ComesToRest
