SPECIFICATION FairSpec
CONSTANTS
  Apps <- AllApps
  MaxStaged = 1
  HandlerOps = {"commit", "rollback", "swallow", "suppress"}
  Faults = {"enter", "raise", "cancel", "database", "broker", "ws", "app"}
INVARIANTS EffectsAfterCommit EndedIsComplete FailedHandlerLeavesNothing
PROPERTIES FinishesAsOutbox
CHECK_DEADLOCK FALSE
