SPECIFICATION AnsweringSpec
CONSTANTS
  Lifetimes = {5}
  RetryInterval = 1
  MaxMargin = 2
  ReconnectMin = 1
  ReconnectMax = 4
  OpenTimeout = 1
  Heartbeats <- MCHeartbeats
  Grace = 0
  RefreshInterval = 4
  LongestSilence = 3
INVARIANTS JoinedMeansConnected RefreshedBeforeExpiry
PROPERTIES ResetOnlyAfterJoin SubscriptionRenewed ShutdownStops SessionLossLeavesRoom ReadyAgain
