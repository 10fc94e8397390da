SPECIFICATION FairHubSpec
CONSTANTS
  m1 = m1  m2 = m2  s1 = s1  s2 = s2  r1 = r1  r2 = r2  r12 = r12  rx = rx
  Socket = {s1, s2}
  Message = {m1, m2}
  Traffic <- TwoTraffics
  Name = {r1, r2, r12, rx}
  Pieces <- PiecesOf
  Garbled = {rx}
  Joins <- RoomsJoined
  Fickle = {s1}
  MaxTasks = 1
  Faults = {"redis", "spawn", "close"}
INVARIANTS HubTypeOK PermitsConserved DeliveredOnce RegistryAgrees
PROPERTIES DeliveryGoesOn HubWindsDown
CHECK_DEADLOCK FALSE
