SPECIFICATION FairSpec
CONSTANTS
  c1 = c1
  c2 = c2
  explore = explore
  edit1 = edit1
  edit2 = edit2
  review = review
  docs = docs
  other = other
  Calls = {c1, c2}
  Nodes = {explore, edit1, edit2, review, docs, other}
  CallOf <- MCCallOf
  Rank <- MCRank
  Deps <- MCDeps
  Overlap <- MCOverlap
  MaxAttempts <- MCMaxAttempts
  MaxConcurrency = 2
  MaxWorkers = 2
  Leftover = {edit2}
  OldTasks <- MCOldTasks
  Blankable = {docs}
  MaxStoreFailures = 1
INVARIANTS
  TypeOK
  ScopesSerialized
  NeverDeadlocks
  TasksMirrorNodes
  EveryNodeAccounted
PROPERTIES
  ImplementsTaskGraph
  EveryCallEnds
CHECK_DEADLOCK FALSE
