SPECIFICATION Spec
CONSTANTS
  MaxAttempts = 2
  MaxResends = 1
  MaxTrouble = 2
  Categories = {k1, k2, k3}
  Default = k1
  Members = {m1}
  LastYear = 2
  MaxCategoryEdits = 3
  NoCategory = NoCategory
  Folders = {f1, f2, f3}
  Editors = {u1}
  MaxDepth = 2
  Top = Top
  Gone = Gone
  TimeEntries = {x1, x2}
  TimeCalls = {y1, y2}
  EventTimes <- MCEventTimes
  LastTime = 3
  MaxLength = 2
  MaxAge = 2
  LimitCalls = {r1, r2}
  MaxHits = 1
  Window = 2
  KeepHits = 2
  LongestWait = 1
  LastTick = 3
  Officers = {o1}
  NoticePeriods <- MCNoticePeriods
  LastDay = 3
  MaxRequests = 2
  MaxPersonMoves = 4
  CatchUp = 1
  KeepDays = 0
PROPERTIES
  DeliveryPromise
  MailSettles
  CategoriesPromise
  SweepComesToRest
  
  TimePromise
  MembershipPromise
CHECK_DEADLOCK FALSE
