SPECIFICATION Spec
CONSTANTS
  TranslationEnabled = FALSE
  RemoteDomainSet = TRUE
  ColdStartPassive = FALSE
  ScopeLabeled = TRUE
  MirrorRecreate = TRUE
  RequireBackup = FALSE
  ProbeConfigured = FALSE
  ReadOnly = FALSE
  PreventUpdate = FALSE
  PreventDelete = FALSE
  OneShotPromote = TRUE
  QuiescePassive = FALSE
  SpecForms <- AnyForm
  Malformed = {}
  Msgs = {m1}
  MaxGen = 2
  MaxFlips = 2
  MaxFaults = 1
  MaxCrashes = 1
  MaxDeletes = 0
INVARIANT TypeOK
PROPERTY GuardHolds
PROPERTY StoreSpec
