SPECIFICATION Spec
CONSTANTS
  m1 = m1  m2 = m2  q1 = q1  q2 = q2  t1 = t1  t2 = t2
  Message = {m1}
  Queue = {q1, q2}
  QueueOf <- OneQueue
  Task = {t1, t2}
  MaxCopies = 3
  MaxRetries = 1
  Reserve = 0
  Prefetch = 1
  NackOnException = TRUE
  HandlerOps = {"raise", "ack", "nack", "retry", "strayRetry", "cleanup"}
  Faults = {"channel", "connection", "crash", "shutdown", "timeout", "uow", "backend", "reply", "beat"}
SYMMETRY TaskSymmetry
INVARIANTS SlotBound NoMessageLost BudgetExact
PROPERTIES SettledOnce
