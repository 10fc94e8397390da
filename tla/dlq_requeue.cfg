SPECIFICATION OperationSpec
CONSTANTS
  d1 = d1  d2 = d2  w1 = w1  w2 = w2  w3 = w3  k1 = k1  k2 = k2
  Deployment = {d1, d2}
  Flags = {"plain", "interactive"}
  Queue = {"q1", "q2"}
  Letter = {1, 2}
  Origin <- FirstFromOne
  Found <- FiveTopologies
  Tools <- FiveTools
  Work = {w1, w2, w3}
  Scheduled = {w3}
  Chan = {"own", "shared"}
  ChanOf <- TwoChannels
  Missing = {w2}
  ConnRetries = 1
  SetupRetries = 1
  Worker = {k1, k2}
  Triggers = 2
  Prefetch = 1
  Others = 1
  BeatRetries = 0
INVARIANTS RequeuedArrives
CHECK_DEADLOCK FALSE
