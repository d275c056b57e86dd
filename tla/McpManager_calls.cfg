SPECIFICATION FairSpec
CONSTANTS
  Connects = {c1, c2}
  Disconnects = {d1, d2}
  Tools = {t1, t2}
  None = None
INVARIANTS
  ToolsAndServerAgree
  NoClientLeaks
  LastCallWins
PROPERTIES
  DisconnectReturns
CHECK_DEADLOCK FALSE
