SPECIFICATION FairSpec
CONSTANTS
  b1 = b1  m1 = m1  m2 = m2  r1 = r1  r2 = r2  d1 = d1  w1 = w1  w2 = w2
  BallotIds = {b1}
  Circulars = {b1}
  Members = {m1}
  Desks = {}
  Requests = {r1}
  Sweepers = {w1}
  Board = {m1}
  Choices = {"yes"}
  NoChoice = NoChoice
  Nobody = Nobody
  MaxProxies = 0
  QuorumPercent = 0
  MaxChanges = 0
  ReminderLead = 1
  MaxClock = 2
  MaxFailures = 1
PROPERTIES PromiseKept EndedIsCounted CircularIsFinalized
