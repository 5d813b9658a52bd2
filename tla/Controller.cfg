\* Two cars that come and go three times, and two call pads, on two descriptors.
SPECIFICATION FairSpec
CONSTANTS
  a = a
  b = b
  p = p
  q = q
  Cars = {a, b}
  Shaft <- TwoShafts
  FirstReports <- ReportsClosing
  Reports <- ReportsClosed
  MaxConnects = 3
  MaxReports = 1
  Pads = {p, q}
  Calls <- UpAndDown
  MaxClients = 2
  StackCars <- ZeroedStack
INVARIANTS
  EveryCarListed
  QueuesInShaft
PROPERTIES
  EveryCallAnswered
  ImplementsDispatch
CHECK_DEADLOCK FALSE
