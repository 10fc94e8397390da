SPECIFICATION FairSpec
CONSTANTS
  k1 = k1  a1 = a1  a2 = a2  b1 = b1  b2 = b2
  Key = {k1}
  Anon = {a1, a2}
  Beat = {b1, b2}
  Batch = 1
  PayloadPolicy = {"ignore", "replace"}
  TimePolicy = {"greater"}
  PutBackDelay = 1
  MaxMessages = 2
  MaxClock = 2
  MaxSent = 1
  Faults = {"dispatch", "confirm"}
PROPERTIES EventuallyLeaves
CHECK_DEADLOCK FALSE
