SPECIFICATION MCSpec
CONSTANTS
  Slots = {i1, i2}
  Filters = {all, f1}
  Pages <- MCPages
  NoFilter = all
  MaxSessions = 2
  ViewChanges = 4
  Jobs = {j1, j2, j3}
  NoJob = none
  MaxStarts = 4
  Commands = {i1, i2}
  MaxMail = 3
  MailChanges = 1
  Batch = 1
  CacheSize = 2
  Broken = {2}
  Chats = {i1, i2}
  NoChat = none
  Requests = {j1, j2, j3}
  MaxId = 3
  MaxVersion = 2
  Acts = {i1, i2}
  Own = {2}
  PageSize = 2
  MaxArrivals = 1
  MaxSteps = 3
INVARIANTS ListOfSession ListMatchesFilter LockMeansRunning IndexCurrent PushToHolder WebhookOfAddress OneTransferWins ShownIsCurrent
PROPERTY FetchComplete
SYMMETRY Symmetric
CHECK_DEADLOCK FALSE
