SPECIFICATION ActivitySpec
CONSTANTS
  People = {"ann", "bob"}
  Founder = "ann"
  Callers = {caller1, caller2}
  Guests = {"ann", "bob"}
  Host = "ann"
  Invites = {i1, i2}
  Desks = {d1, d2}
  Accounts = {a1, a2}
  Users = {u1, u2, u3}
  MaxIssued = 4
  Unnamed = Unnamed
  Names = {"plan"}
  LongNames = {}
  Writers = {e1, e2}
  FirstSession = s0
  FirstName = "plan"
  MaxSuffix = 4
  NoTitle = NoTitle
  q1 = q1
  q2 = q2
  q3 = q3
  Questions = {q1, q2, q3}
  ParentOf <- OneReply
  NoParent = NoParent
  OldQuestions = {q1}
  Clerks = {c1, c2}
  Viewers = {v1}
  Lines = {k1, k2}
  NoLine = NoLine
  QuestionsMax = 3
  QueueSize = 2
  BufferSize = 1
  MaxFetches = 2
  top = top
  sub = sub
  deep = deep
  f1 = f1
  f2 = f2
  f3 = f3
  l1 = l1
  l2 = l2
  l3 = l3
  r1 = r1
  Folders = {top, sub, deep}
  TopFolder = top
  FolderIn <- Tree
  Mp4s = {f1, f2, f3}
  FirstHomes <- Homes
  Elsewhere = Elsewhere
  JoinLinks = {l1, l2, l3}
  MeetingOf <- OneMeeting
  NoMeeting = NoMeeting
  Taped <- Tapes
  Lookups = 1
  MaxMeetings = 2
  MaxFiles = 2
  MaxDepth = 1
  MaxMoves = 1
  Asks = {ask1, ask2}
  Retrieved = {chunk}
  Stray = stray
  JudgeMax = 1
  RowsMax = 1
  MaxLosses = 1
  Watches = {w1, w2}
  Windows <- SomeWindows
  OnR2 = TRUE
  Forceable = {"GREEN"}
  LowN = 20
  SlowFrom = 50
  AuthMax = 5
  NoBase = NoBase
  Recordings = {"z1", "z2", "g1"}
  SourceOf <- FromZoomAndMeet
  Attachers = {attacher}
  MaxRecordings = 2
  MaxRuns = 2
  Drivers = {"r2", "local"}
  NoRecording = NoRecording
INVARIANTS
  ActivityTypeOK
  
  
  TitlesRight
  FeedSound
  
  ConnectionSound
  
  ImportsAreOwn
  HealthReported

  
CHECK_DEADLOCK FALSE
