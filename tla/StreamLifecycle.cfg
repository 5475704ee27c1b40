SPECIFICATION FairSpec
CONSTANTS
  TranslationEnabled = TRUE
  RemoteDomainSet = TRUE
  ColdStartPassive = TRUE
  ScopeLabeled = TRUE
  MirrorRecreate = TRUE
  RequireBackup = TRUE
  ProbeConfigured = TRUE
  ReadOnly = FALSE
  PreventUpdate = FALSE
  PreventDelete = FALSE
  OneShotPromote = FALSE
  QuiescePassive = FALSE
  SpecForms <- ScopedForms
  Malformed = {}
  Msgs = {m1}
  MaxGen = 1
  MaxFlips = 1
  MaxFaults = 1
  MaxCrashes = 0
  MaxDeletes = 1
INVARIANT NoOrphanYet
PROPERTY Converges
PROPERTY RecreateCompletes
PROPERTY DeletionCompletes
CHECK_DEADLOCK FALSE
