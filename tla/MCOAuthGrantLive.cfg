SPECIFICATION FairSpec
CONSTANTS
  Clients = {c1}
  Users = {u1}
  Codes = {k1}
  Tokens = {t1, t2}
  NoFamily = NoFamily
  Registrations <- OneRegistration
  Requests <- OneRequest
  Resources = {"absent"}
  CodeTTL = 1
  AccessTTL = 1
  RefreshTTL = 2
  ClientTTL = 2
  MaxTime = 4
PROPERTIES SpentIsCollected
