SPECIFICATION FairSpec
CONSTANTS
  r1 = r1
  r2 = r2
  r3 = r3
  Requests = {r1, r2, r3}
  TurnOf <- MCTurnOf
  Turns = {1, 2}
  Modes = {"ask", "auto", "full", "headless"}
  NoRequest = NoRequest
INVARIANTS
  SettledOnce
  PromptsMatchPending
PROPERTIES
  InterruptDenies
  EveryRequestSettles
CHECK_DEADLOCK FALSE
