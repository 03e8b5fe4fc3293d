SPECIFICATION Spec
CONSTANTS
  video = video
  material = material
  link = link
  t1 = t1
  t2 = t2
  p1 = p1
  p2 = p2
  NoJob = NoJob
  NoProcess = NoProcess
  Jobs = {video, material}
  KindOf <- Kinds
  Processes = {p1}
  Workers = {t1, t2}
  HomeOf <- OneProcess
  QueueCap = 1
  WhisperConfigured = TRUE
  BrokenLimit = 1
  CrashLimit = 1
INVARIANTS TypeOK NotForgotten ResultsAgree
PROPERTIES ResultKept
CHECK_DEADLOCK FALSE
