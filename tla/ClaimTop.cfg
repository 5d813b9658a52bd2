\* A technician drives the car up in service mode.
SPECIFICATION Spec
CONSTANTS
  LowestFloor = 1
  HighestFloor = 2
  Requests = {}
  MaxRequests = 0
  MaxBreaks = 0
  MaxSockets = 2
  Panels = {p1}
  PanelOperations = {"service_on", "up"}
  MaxPresses = 3
  Monitored = FALSE
  SensorOperations = {}
  MaxSensed = 0
INVARIANT StopsAtTheTop
