SPECIFICATION Spec
CONSTANTS
  write = write
  patch = patch
  undo = undo
  f1 = f1
  f2 = f2
  s1 = s1
  Calls = {write, patch, undo}
  Patches = {patch}
  Undos = {undo}
  Paths = {f1, f2}
  FilesOf <- MCFilesOf
  Scopes = {s1}
  ScopeOf <- MCScopeOf
  UserScope = s1
  User = User
  Original = Original
  NoCheckpoint = NoCheckpoint
  NoCopy = NoCopy
  MaxEntries = 3
  MaxParallel = 2
  MaxFaults = 1
CHECK_DEADLOCK FALSE
INVARIANTS
  TypeOK
  RewindRestoresUnlessAccident
  FailedPatchLeavesNoTrace
PROPERTIES
  EveryCallReturns
