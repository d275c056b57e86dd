SPECIFICATION FairSpec
CONSTANTS
  Chain <- MCChain
  Streams = {"anthropic"}
  Triggers = {"rate", "down", "timeout"}
  MaxRetries = 1
  ToolBudget = 2
  MaxCalls = 2
INVARIANTS
  EffectsNotRepeated
  OneEnding
PROPERTIES
  EveryRunEnds
CHECK_DEADLOCK FALSE
