SPECIFICATION FairSpec
CONSTANTS
  video = video
  material = material
  link = link
  t1 = t1
  t2 = t2
  p1 = p1
  p2 = p2
  NoJob = NoJob
  NoProcess = NoProcess
  Jobs = {video, link}
  KindOf <- Kinds
  Processes = {p1}
  Workers = {t1}
  HomeOf <- OneProcess
  QueueCap = 1
  WhisperConfigured = FALSE
  BrokenLimit = 1
  CrashLimit = 1
PROPERTY EveryJobEnds
CHECK_DEADLOCK FALSE
