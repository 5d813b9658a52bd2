\* Service mode is switched on.
SPECIFICATION Spec
CONSTANTS
  LowestFloor = 1
  HighestFloor = 2
  Requests = {}
  MaxRequests = 0
  MaxBreaks = 0
  MaxSockets = 2
  Panels = {p1}
  PanelOperations = {"service_on"}
  MaxPresses = 1
  Monitored = FALSE
  SensorOperations = {}
  MaxSensed = 0
PROPERTY NoUpdatesOnceWithdrawn
