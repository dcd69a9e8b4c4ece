SPECIFICATION Spec
CONSTANTS
  Ids = {1, 2, 3, 4}
  GroupOf <- Groups
  LinesOf <- Lines
  WithFile = {1}
  FirstRows = {{1, 2, 3, 4}, {2, 3, 4}}
  DEFAULT_LIMIT = 1
  MAX_LIMIT = 2
  MAX_OFFSET_PAGES = 1
  MaxRelated = 1
  Settings <- LimitValues
  Asks = {0, 2, 5}
  Methods = {"unlink", "write", "business", "generic"}
  MaxMoves = 2
  MaxConfigs = 1
  MaxPages = 5
  LogRows = {1, 2, 3}
  BatchSize = 1
  Workers = {w1}
  Jobs = {1, 2}
  Retentions <- Days
  MaxDay = 2
  MaxJobEdits = 2
  Desks = {d1, d2}
  Stages = {"draft", "submitted", "under_review", "approved", "in_progress", "delivered", "blocked"}
  Drags = {"draft", "under_review", "blocked"}
  Billing = TRUE
  MaxRuns = 2
  MaxVersions = 4
  Visitors = {v1, v2}
  MaxChatTries = 2
  MaxDepth = 2
  Sheets = {1, 2}
  HoursOf <- Hours
  Tweaks = {0, 1}
  MaxTweaks = 2
PROPERTY DisabledStaysDisabled
CHECK_DEADLOCK FALSE
