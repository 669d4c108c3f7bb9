SPECIFICATION Spec
CONSTANTS
  e1 = e1
  e2 = e2
  w1 = w1
  w2 = w2
  Events = {e1, e2}
  Webhooks = {w2}
  MaxAttempts = 2
  Backoff <- MCBackoff
  BatchLimit = 2
  Retention = 0
  Allowed <- MCAllowed
  Configs <- BothConfigured
  Concurrency = 2
  IdleSweep = 1
  DeliveryTimeout = 1
  StoreLatency = 1
  Responsive = {}
  NoEvent = NoEvent
INVARIANTS LoadedRowsCurrent OneAttemptPerRow NoLostWakeup SleepBounded
PROPERTY RowLifecycle
