SPECIFICATION Spec
CONSTANTS
  b1 = b1  m1 = m1  m2 = m2  r1 = r1  r2 = r2  d1 = d1  w1 = w1  w2 = w2
  BallotIds = {b1}
  Circulars = {}
  Members = {m1}
  Desks = {d1}
  Requests = {r1}
  Sweepers = {w1}
  Board = {}
  Choices = {"yes"}
  NoChoice = NoChoice
  Nobody = Nobody
  MaxProxies = 0
  QuorumPercent = 50
  MaxChanges = 0
  ReminderLead = 1
  MaxClock = 3
  MaxFailures = 0
PROPERTY NeverWithdrawn
