SPECIFICATION Spec
CONSTANTS
  patch = patch
  edit = edit
  sibling = sibling
  save = save
  w1 = w1
  w2 = w2
  f1 = f1
  f2 = f2
  Calls = {patch, edit, sibling, save}
  Workers = {patch, edit, sibling}
  Patches = {patch}
  Saves = {save}
  Owners = {w1, w2}
  OwnerOf <- MCOwnerOf
  Paths = {f1, f2}
  FilesOf <- MCFilesOf
  Original = Original
  NoOwner = NoOwner
  Faulty = {edit}
  MaxFaults = 1
CHECK_DEADLOCK FALSE
INVARIANTS
  IsolatedCallIsAtomic
  NoDirtyRead
  LocksAreHeld
  WaitsForNobody
