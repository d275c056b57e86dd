SPECIFICATION Spec
CONSTANTS
  first = first
  second = second
  other = other
  mine = mine
  theirs = theirs
  a = a
  b = b
  c = c
  p = p
  q = q
  Spawns = {first, second, mine, theirs}
  Ids = {a, b, c}
  Names = {a, b}
  Parents = {p, q}
  IdOf <- MCIdOf
  NameOf <- MCNameOf
  ParentOf <- MCParentOf
  Predecessors <- MCPredecessors
  MaxWorkers = 1
  MaxRestarts = 0
  Letters = {}
  From <- MCFrom
  To <- MCTo
  Everyone = Everyone
  NoSpawn = NoSpawn
  NoId = NoId
CHECK_DEADLOCK FALSE
INVARIANTS
  ThreadsBounded
