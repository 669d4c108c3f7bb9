SPECIFICATION Spec
CONSTANTS
  e1 = e1
  e2 = e2
  w1 = w1
  w2 = w2
  Events = {e1, e2}
  Webhooks = {w1, w2}
  MaxAttempts = 1
  Backoff <- MCBackoff
  BatchLimit = 2
  Retention = 0
  Allowed <- MCAllowed
  Configs <- BothConfigured
  Concurrency = 2
  IdleSweep = 1
  DeliveryTimeout = 2
  StoreLatency = 0
  Responsive = {}
  NoEvent = NoEvent
INVARIANT SlowEndpointDoesNotBlock
