SPECIFICATION Spec
CONSTANTS
  RemoteDomainSet = TRUE
  ColdStartPassive = FALSE
  ScopeLabeled = TRUE
  MirrorRecreate = TRUE
  RequireBackup = TRUE
  ReadOnly = FALSE
  PreventUpdate = FALSE
  PreventDelete = FALSE
  OneShotPromote = TRUE
  Recognised = {TRUE, FALSE}
  SpecForms <- MCSpecForms
  RoleValues <- MCRoleValues
  Keys = {k1}
  MaxDisturbances = 2
INVARIANT KVReadyIsTrue
PROPERTY StoreSpec
PROPERTY KVGuardHolds
PROPERTY KVConverges
CHECK_DEADLOCK FALSE
