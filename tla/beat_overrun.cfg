SPECIFICATION Spec
CONSTANTS
  b1 = b1  b2 = b2
  Beat = {b1, b2}
  Actions = 1
  Occurs <- OneCron
  Ttl = 1
  Blocking = 0
  Stall = 2
  Prompt = FALSE
  Mortal = {b1}
  MaxClock = 4
  Faults = {"dispatch", "confirm", "redis", "shutdown"}
INVARIANTS NeverSkips
PROPERTIES ReleasedByHolder
CHECK_DEADLOCK FALSE
