------------------------- MODULE MCMessageBusWorker -------------------------
(* Instances of MessageBusWorker for TLC.                                  *)
EXTENDS MessageBusWorker, TLC

CONSTANTS m1, m2, q1, q2, t1, t2

OneQueue  == [m \in Message |-> q1]
TwoQueues == [m \in Message |-> IF m = m1 THEN q1 ELSE q2]

\* Tasks are interchangeable.
TaskSymmetry == Permutations(Task)
=============================================================================
