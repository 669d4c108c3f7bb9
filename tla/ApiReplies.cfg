SPECIFICATION Spec
CONSTANTS
  p1 = p1
  p2 = p2
  p3 = p3
  p4 = p4
  p5 = p5
  r1 = r1
  r2 = r2
  ana = ana
  rui = rui
  nobody = nobody
  open = open
  other = other
  Global = Global
  Integrations = {ana, rui}
  Period <- MCPeriod
  Burst <- MCBurst
  Jobs = {p1, p2, p3}
  Capability <- MCCapability
  Name <- MCName
  Board <- MCBoard
  Readers = {rui}
  Posters = {ana}
  AllowedBoards <- MCAllowedBoards
  Texts <- MCTexts
  PageTexts <- MCPageTexts
INVARIANTS NoDuplicateReply SuccessMeansPosted RetryableIsUnposted ChargedAsDocumented OnlyEntitledReachUpstream
