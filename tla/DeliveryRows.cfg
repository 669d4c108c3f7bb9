SPECIFICATION FairSpec
CONSTANTS
  e1 = e1
  e2 = e2
  w1 = w1
  w2 = w2
  Events = {e1}
  Webhooks = {w1, w2}
  MaxAttempts = 1
  Backoff <- MCBackoff
  BatchLimit = 2
  Retention = 0
  Allowed <- MCAllowed
  Configs <- W1Removable
  Concurrency = 1
  IdleSweep = 1
  DeliveryTimeout = 1
  StoreLatency = 0
  Responsive = {}
  NoEvent = NoEvent
INVARIANTS EventIffRows DeliveredWasReceived
PROPERTIES RowLifecycle ImplementsOutbox ShutdownEnds
