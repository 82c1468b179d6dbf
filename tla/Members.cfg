SPECIFICATION Spec
CONSTANTS
  x1 = x1
  x2 = x2
  InvitedRows = {r1}
  OwnApplications = {a1}
  ChildApplications = {k1}
  Deciders = {x1, x2}
  MaxAccounts = 2
  MaxMoves = 3
  Subs = {x1, x2}
  Uploads = {u1}
  MaxVersions = 2
  MaxDrafts = 2
  MaxFiles = 2
  Docs = {f1}
  DocCallers = {x1, x2}
  MaxPapers = 2
  MediaFiles = {f1, f2, f4}
  LogoFiles = {f4}
  MediaCalls = {x1, x2}
  Quota = 2
  UnusedCap = 2
  NoFile = NoFile
SYMMETRY Symmetry
PROPERTIES
  
  SubmissionsPromise
  ArchivePromise
  MediaPromise
CHECK_DEADLOCK FALSE
