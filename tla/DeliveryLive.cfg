SPECIFICATION LiveSpec
CONSTANTS
  e1 = e1
  e2 = e2
  w1 = w1
  w2 = w2
  Events = {e1}
  Webhooks = {w1, w2}
  MaxAttempts = 1
  Backoff <- MCBackoff
  BatchLimit = 1
  Retention = 0
  Allowed <- MCAllowed
  Configs <- BothConfigured
  Concurrency = 1
  IdleSweep = 1
  DeliveryTimeout = 0
  StoreLatency = 0
  Responsive = {w2}
  NoEvent = NoEvent
CONSTRAINT NoShutdown
PROPERTIES EventuallyDelivered EventuallyPruned
