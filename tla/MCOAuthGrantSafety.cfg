SPECIFICATION Spec
CONSTANTS
  Clients = {c1}
  Users = {u1}
  Codes = {k1, k2}
  Tokens = {t1, t2, t3}
  NoFamily = NoFamily
  Registrations <- TwoRegistrations
  Requests <- OneRequest
  Resources = {"absent", "mcp"}
  CodeTTL = 1
  AccessTTL = 1
  RefreshTTL = 2
  ClientTTL = 1
  MaxTime = 3
SYMMETRY Names
INVARIANTS TypeOK OneLivePerFamily LiveFamilyIsGuarded NeverUpscoped GrantInv
PROPERTIES CollectionSparesLiveTokens HandsOver
