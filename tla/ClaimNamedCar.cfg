\* A car loses its connection and another one gets its descriptor.
SPECIFICATION Spec
CONSTANTS
  a = a
  b = b
  p = p
  q = q
  Cars = {a, b}
  Shaft <- TwoShafts
  FirstReports <- ReportsClosing
  Reports <- ReportsClosed
  MaxConnects = 3
  MaxReports = 1
  Pads = {p, q}
  Calls <- UpAndDown
  MaxClients = 2
  StackCars <- ZeroedStack
PROPERTY NamedCarIsSent
CHECK_DEADLOCK FALSE
