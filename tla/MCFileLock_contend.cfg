SPECIFICATION Spec
CONSTANTS
  c1 = c1
  c2 = c2
  c3 = c3
  Callers = {c1, c2, c3}
  Owners = {c1, c2, c3}
  OwnerOf <- MCOwnerOf
  TTL = 2
  PruneAge = 0
  MaxTime = 3
  MaxCrashes = 1
  Nobody = Nobody
  NoFile = NoFile
  Blank = Blank
SYMMETRY Perms
INVARIANTS
  TypeOK
  ExclusiveUnlessLost
  LeaseStandsUnlessLost
  BlankNeedsTear
