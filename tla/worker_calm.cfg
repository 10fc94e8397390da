SPECIFICATION Spec
CONSTANTS
  m1 = m1  m2 = m2  q1 = q1  q2 = q2  t1 = t1  t2 = t2
  Message = {m1, m2}
  Queue = {q1, q2}
  QueueOf <- TwoQueues
  Task = {t1, t2}
  MaxCopies = 3
  MaxRetries = 2
  Reserve = 0
  Prefetch = 2
  NackOnException = TRUE
  HandlerOps = {"raise", "invalid", "ack", "nack", "reject", "retry", "strayRetry"}
  Faults = {"shutdown", "backend"}
SYMMETRY TaskSymmetry
INVARIANTS OneHandlerPerMessage DeliveriesAccounted DrainedBeforeStop
