SPECIFICATION Spec
CONSTANTS
  b1 = b1  m1 = m1  m2 = m2  r1 = r1  r2 = r2  d1 = d1  w1 = w1  w2 = w2
  BallotIds = {b1}
  Members = {m1, m2}
  Desks = {d1}
  Requests = {r1, r2}
  Sweepers = {}
  Circulars = {}
  Board = {}
  Choices = {"yes"}
  NoChoice = NoChoice
  Nobody = Nobody
  MaxProxies = 1
  QuorumPercent = 50
  MaxChanges = 0
  ReminderLead = 1
  MaxClock = 2
  MaxFailures = 0
SYMMETRY Symmetry
INVARIANTS TypeOK OneVoteEach
PROPERTIES PromiseKept NotRepresentedUnseen
