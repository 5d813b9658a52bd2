\* The stop button, and then service mode.
SPECIFICATION Spec
CONSTANTS
  LowestFloor = 1
  HighestFloor = 2
  Requests = {}
  MaxRequests = 0
  MaxBreaks = 0
  MaxSockets = 2
  Panels = {p1}
  PanelOperations = {"stop", "service_on"}
  MaxPresses = 2
  Monitored = TRUE
  SensorOperations = {}
  MaxSensed = 0
PROPERTY ServiceOnEndsEmergency
