SPECIFICATION Spec
CONSTANTS
  Integrations = {alpha, beta}
  Global = Global
  Period <- MCPeriod
  Burst <- MCBurst
  Callers = {c1, c2}
  Horizon = 3
INVARIANT WithinQuota
