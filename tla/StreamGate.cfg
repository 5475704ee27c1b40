SPECIFICATION Spec
CONSTANTS
  TranslationEnabled = TRUE
  RemoteDomainSet = TRUE
  ColdStartPassive = FALSE
  ScopeLabeled = TRUE
  MirrorRecreate = TRUE
  RequireBackup = TRUE
  ProbeConfigured = FALSE
  ReadOnly = FALSE
  PreventUpdate = FALSE
  PreventDelete = FALSE
  OneShotPromote = FALSE
  QuiescePassive = TRUE
  SpecForms <- EditedPrimaries
  Malformed = {3}
  Msgs = {m1, m2}
  MaxGen = 2
  MaxFlips = 1
  MaxFaults = 1
  MaxCrashes = 1
  MaxDeletes = 0
INVARIANT NothingLost
INVARIANT ReadyReportIsTrue
PROPERTY PromoteKeepsMessages
SYMMETRY MsgSymmetry
