SPECIFICATION ContentSpec
CONSTANTS
  Materials = {m1, m2}
  Names = {n1, n2}
  Keys = {n1, n2}
  KeyOf <- OwnKeys
  Files <- SomeFiles
  Requests = {r1, r2}
  MaxMaterials = 1
  MaxFaults = 1
  Provider = "r2"
  Nobody = Nobody
  Videos = {"v1", "v2"}
  Documents = {"d1"}
  Links = {"l1"}
  Patches = {"p1"}
  Nothing = "nothing"
  Clips = {"u1", "x1", "p1"}
  BroughtBy <- UploadLinkAndPart
  Choosers = {"c1"}
  Remote = TRUE
  MaxStumbles = 1
  NoClip = "none"
  Pieces = {"f1", "m1", "l1", "w1", "w2", "t1"}
  SortOf <- OnePieceEach
  Eldest = "w1"
  MainVideo = "w2"
  Base = "a1"
  FaultBound = 2
  Questions = {q1}
  Clerks = {k1, k2, k3}
  MaxDrafts = 2
  NoAnswer = NoAnswer
  Texts = {"m1", "l1"}
  LinkTexts = {"l1"}
  Metadata = "meta"
  Subject = "l1"
  Builders = {"b1"}
  Askers = {"k1"}
  MaxQuestions = 1
  MaxSlips = 2
  Size = 6
  Overlap = 3
  RuneMax = 4
  MaxText = 11
  MaxPages = 3
  Words = {"w", "x"}
  MaxChunks = 4
  MaxOften = 1
  TopK = 2
INVARIANTS
  ContentTypeOK
  
  PrimaryHolds
  
  
  
  NothingTorn
  BestHanded
  ReviewAgrees
PROPERTY
  ConfirmedStays
CHECK_DEADLOCK FALSE
