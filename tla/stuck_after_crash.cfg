SPECIFICATION ImportSpec
CONSTANTS
  jz = jz
  jt = jt
  jm = jm
  sz = sz
  st = st
  sm = sm
  w1 = w1
  w2 = w2
  c1 = c1
  k1 = k1
  NoJob = NoJob
  Jobs = {jz}
  Sessions = {sz}
  Workers = {w1}
  Clients = {}
  Callbacks = {}
  SessionOf <- OneSession
  SourceOf <- ByProvider
  ProviderOf <- Providers
  MaxTransientAttempts = 1
  MaxWaitingAttempts = 1
  AttemptCap = 2
  EndTimeKnown = {}
  Faults = {"crash"}
PROPERTY StuckIsPickedUp
CHECK_DEADLOCK FALSE
