SPECIFICATION Spec
CONSTANTS
  x1 = x1
  x2 = x2
  y1 = y1
  y2 = y2
  Keepers = {x1, x2}
  KeyCalls = {y1, y2}
  NoRow = NoRow
  MaxHandouts = 2
  LoanCalls = {x1, x2}
  LastLoanDay = 4
  BookingIds = {x1, x2}
  BookingCalls = {y1, y2}
  LastSlot = 2
  NoHolder = NoHolder
  MaxPlaceEdits = 1
  Passengers = {x1, x2}
  RideCalls = {y1, y2}
  MaxSeats = 2
  MaxRides = 2
  MaxAsks = 2
  Attendees = {x1, x2}
  SheetCalls = {y1, y2}
  Days = {1, 2}
  MaxSaves = 2
  MaxReports = 1
  CalendarIds = {x1, x2}
  Sections = {k1}
  ClubWide = ClubWide
  CalendarCalls = {y1, y2}
  MaxCalendarEdits = 4
  Persons = {x1, x2}
  LastRemindDay = 4
  Lead = 1
  Steps = {1, 2}
  NoticeWindow = 1
  JobKeep = 0
  MaxMatterMoves = 1
  Items = {k1, k2}
  Wordings = {y1, y2}
  Register <- MCRegister
  NoMail = NoMail
  InWriting = FALSE
  InviteCalls = {x1, x2}
  MaxInvitations = 2
  MaxRewordings = 2
  ChoiceSets = {{}, {x1, x2, o3}}
  Entitled = 4
  Quotas = {50}
  Stated <- MCStated
  NotStated = NotStated
  MaxVotingEdits = 1
  EditedPapers = 0
SYMMETRY Symmetry
PROPERTIES
  LendingPromise
  
  AssemblyPromise
CHECK_DEADLOCK FALSE
