SPECIFICATION CacheSpec
CONSTANTS
  read1 = read1
  read2 = read2
  grep = grep
  prefetch = prefetch
  patch = patch
  Answers = {read1, read2, grep, prefetch, patch}
  Threads = {"main"}
  ThreadOf <- MCThreadOf
  ToolOf <- MCToolOf
  Configs <- MCConfigs
  MaxSaves = 1
  None = None
SYMMETRY MCSymmetry
INVARIANTS
  ReadsAreCurrent
  OwnEditsAreSeen
CHECK_DEADLOCK FALSE
