\* A car at rest at its lowest floor: a button press or the emergency stop or
\* service mode, and the sensors, with the safety process running.
SPECIFICATION FairSpec
CONSTANTS
  LowestFloor = 1
  HighestFloor = 2
  Requests = {}
  MaxRequests = 0
  MaxBreaks = 1
  MaxSockets = 2
  Panels = {p1}
  PanelOperations = {"open", "stop", "service_on"}
  MaxPresses = 1
  Monitored = TRUE
  SensorOperations = {"OP_SET_OVERLOAD", "OP_CLEAR_OVERLOAD", "OP_SET_DOOR_OBSTRUCTION", "OP_CLEAR_DOOR_OBSTRUCTION"}
  MaxSensed = 2
INVARIANT DoorsAttended
PROPERTIES
  HazardFlagged
  EmergencyTold
CHECK_DEADLOCK FALSE
