SPECIFICATION FairSpec
CONSTANTS
  m1 = m1  m2 = m2  q1 = q1  q2 = q2  t1 = t1  t2 = t2
  Message = {m1}
  Queue = {q1, q2}
  QueueOf <- OneQueue
  Task = {t1, t2}
  MaxCopies = 4
  MaxRetries = 1
  Reserve = 2
  Prefetch = 1
  NackOnException = FALSE
  HandlerOps = {"raise", "ack", "retry"}
  Faults = {"connection", "shutdown"}
PROPERTIES WorkGoesOn
