SPECIFICATION Spec
CONSTANTS
  x1 = x1
  x2 = x2
  y1 = y1
  y2 = y2
  Members = {x1, x2, z1}
  Desks = {y1, y2}
  Nobody = Nobody
  MaxProxies = 1
  QuorumPercent = 50
  MaxChanges = 3
  Candidates = {x1, x2}
  Unled = Unled
  MaxSeats = 2
  MaxRounds = 2
  Clerks = {x1, x2}
  Texts = {Blank, y1, y2}
  Blank = Blank
  Unconfirmed = Unconfirmed
  MaxMinutes = 2
  Notices = {x1, x2}
  Senders = {y1, y2}
  Audiences = {u1}
  Times = {t1}
  PerDay = 1
SYMMETRY Symmetry
INVARIANTS AssemblyTypeOK OneVoiceEach
PROPERTIES
  ElectionPromise
  MinutesPromise
  AnnouncementsPromise
CHECK_DEADLOCK FALSE
