\* The open button is pressed while the controller moves the car.
SPECIFICATION Spec
CONSTANTS
  LowestFloor = 1
  HighestFloor = 3
  Requests = {3}
  MaxRequests = 1
  MaxBreaks = 0
  MaxSockets = 2
  Panels = {p1}
  PanelOperations = {"open"}
  MaxPresses = 1
  Monitored = FALSE
  SensorOperations = {}
  MaxSensed = 0
INVARIANT DoorsShutBetweenFloors
