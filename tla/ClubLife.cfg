SPECIFICATION Spec
CONSTANTS
  x1 = x1
  x2 = x2
  Accounts = {a1}
  Wards = {w1}
  Guests = {g1}
  Sizes = {1, 2}
  Capacities = {2}
  NoLimit = NoLimit
  Patterns <- MCPatterns
  Holidays = {2}
  Reach = 2
  LastDate = 3
  LastHour = 1
  MaxSeries = 2
  MaxRows = 3
  MaxEdits = 2
  People = {x1, x2}
  Shifts = {y1, y2}
  Slots <- MCSlots
  Rooms = {1}
  Callers = {z1, z2}
  Anybody = Anybody
  NoShift = NoShift
SYMMETRY Symmetry
PROPERTIES
  SeatsPromise
  
  HelpersPromise
CHECK_DEADLOCK FALSE
