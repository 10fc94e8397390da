SPECIFICATION ApplicationSpec
CONSTANTS
  c1 = c1  c2 = c2  b1 = b1  b2 = b2
  Guards = {"off", "on", "raise", "warn"}
  Foreign = TRUE
  Caller = {c1, c2}
  Request = {"get", "body", "post"}
  Get = {"get", "body"}
  KeyOf <- RequestKey
  Clients <- ThreeClients
  Backoff = 3
  CacheTtl = 1
  MaxTime = 1
  MaxRetries = 4
  InitialDelay = 4
  MaxDelay = 20
  Factor = 2
  Jitter = TRUE
  Item = {"settings", "repo", "auth", "users", "report", "x", "y"}
  Needs <- NeedsOf
  Apps <- FiveApps
  Fragile = {"repo"}
  Changes = 3
  Id = {1, 2, 3}
  Value = {0, 1, 2}
  Like <- TextsIn
  IContains <- TextsIn
  StartsWith <- TextsIn
  EndsWith <- TextsIn
  Queries <- WalksAndFilters
  Tables <- TwoTables
  Written = {0, 2}
  MaxWrites = 2
  Beat = {b1, b2}
  Actions = 1
  Occurs <- OneCron
  Ttl = 2
  Blocking = 1
  Stall = 1
  Prompt = FALSE
  Mortal = {b1}
  MaxClock = 4
  Faults = {}
INVARIANTS
  AnswerTellsOutcome NothingLeftBehind RetriesAsGranted AnsweredByServerOrCache PolicyKept
  AppInOrder RunsLatestAlone PagesAddUp OppositesSplit LockExclusive
PROPERTIES PartsEnd DispatchGoesOn
CHECK_DEADLOCK FALSE
