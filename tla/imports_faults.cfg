SPECIFICATION Spec
CONSTANTS
  jz = jz
  jt = jt
  jm = jm
  sz = sz
  st = st
  sm = sm
  w1 = w1
  w2 = w2
  c1 = c1
  k1 = k1
  NoJob = NoJob
  Jobs = {jm}
  Sessions = {sm}
  Workers = {w1}
  Clients = {c1}
  Callbacks = {k1}
  SessionOf <- OwnSession
  SourceOf <- ByProvider
  ProviderOf <- Providers
  MaxTransientAttempts = 1
  MaxWaitingAttempts = 1
  AttemptCap = 2
  EndTimeKnown = {jm}
  Faults = {"crash", "statement"}
INVARIANTS TypeOK MidStageOwned LockOwned 
VIEW WithoutMirror
