SPECIFICATION Spec
CONSTANTS
  ann = ann
  bob = bob
  app = app
  mcpKey = mcpKey
  anyKey = anyKey
  password = password
  token = token
  foreign = foreign
  Threads = {h1}
  Users = {ann, bob}
  NoUser = NoUser
  Clients = {app}
  Creds = {mcpKey, anyKey, password, token, foreign}
  Describe <- Issued
  Nothing = Nothing
  Malformed = Malformed
  Bogus = Bogus
  Calls = {p1}
  NoCall = NoCall
  FailureMax = 2
  MaxTries = 2
  MaxEdits = 1
INVARIANTS TypeOK RevokedIsRefused LegacyLogIsTrue CountedOnce
PROPERTIES SilenceMeansFlood
