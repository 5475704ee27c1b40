SPECIFICATION Spec
CONSTANTS
  Workers = {w1, w2}
  Secrets = {s1, s2}
  Ids = {x, y}
  Own = Own
  Torn = Torn
  None = None
  MaxEdits = 2
  MaxFaults = 1
INVARIANT CredentialsTypeOK
INVARIANT OneWriter
INVARIANT ActsAsNamed
PROPERTY SettlesOnAccount
