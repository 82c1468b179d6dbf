SPECIFICATION Spec
CONSTANTS
  x1 = x1
  x2 = x2
  y1 = y1
  y2 = y2
  ConsentCalls = {x1, x2}
  MaxConsentTexts = 2
  MaxConsentTime = 4
  Rows = {x1, x2}
  ErasureCalls = {y1, y2}
  Unlocked = Unlocked
  MaxRowMoves = 2
  Records = {x1, x2}
  Periods = {0, 2}
  NoticeDays = 1
  LastNow = 5
  BatchSize = 1
  MaxTouches = 2
  Carers = {k1}
  Wards = {y1, y2}
  GuardianCalls = {x1, x2}
  Unlinked = Unlinked
  Open = Open
  LastAge = 3
  CatchUpDays = 1
  MaxCorrections = 1
  MaxLinkings = 2
  Strangers = {"otto"}
  Files <- MCFiles
  Groups = {"adults"}
  Tokens = {x1, x2}
  RollCalls = {y1, y2}
  NoCall = NoCall
  MaxRoll = 6
  MaxNumber = 7
  MaxPosts = 2
  Fields = {k1, k2}
  FieldOptions = {"a", "b"}
  FieldLimit = 1
  FieldCalls = {y1, y2}
  MaxFieldEdits = 3
  MaxEntries = 2
  Clubs = {x1, x2}
  PrefCalls = {y1, y2}
  MaxChoices = 5
  PushAccounts = {x1, x2}
  Devices = {y1, y2}
  PushCalls = {k1, k2}
  DeviceLimit = 1
  ReceiptAttempts = 2
  MaxRegistered = 3
  MaxPushes = 1
  Registrations = {x1, x2}
  ReviewCalls = {y1, y2}
  RegisterKeys = {k1}
  NoKey = NoKey
  NoReview = NoReview
  MaxProofs = 1
  MaxFounded = 2
  MaxReworks = 1
SYMMETRY Symmetry
PROPERTIES
  
  RecordsPromise
  RollPromise
CHECK_DEADLOCK FALSE
