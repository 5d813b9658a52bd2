\* The stop button is pressed in a car at rest.
SPECIFICATION FairSpec
CONSTANTS
  LowestFloor = 1
  HighestFloor = 2
  Requests = {}
  MaxRequests = 0
  MaxBreaks = 0
  MaxSockets = 2
  Panels = {p1}
  PanelOperations = {"stop"}
  MaxPresses = 1
  Monitored = TRUE
  SensorOperations = {}
  MaxSensed = 0
PROPERTY StopNoticed
