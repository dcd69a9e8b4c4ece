SPECIFICATION Spec
CONSTANTS
  Workers = {w1, w2}
  Clients = {c1}
  Codes = {k1}
  Tokens = {t1, t2, t3}
  NoFamily = NoFamily
  CodeTTL = 1
  AccessTTL = 1
  RefreshTTL = 1
  ClientTTL = 1
  MaxTries = 3
  MaxTime = 2
SYMMETRY Names
INVARIANTS TypeOK OneLivePerFamily CirclesHaveACause
PROPERTIES HandsOver SpentMeansDead
