SPECIFICATION Spec
CONSTANTS
  first = first
  second = second
  other = other
  mine = mine
  theirs = theirs
  a = a
  b = b
  c = c
  p = p
  q = q
  Spawns = {first, second, other, mine, theirs}
  Ids = {a, b, c}
  Names = {a, b}
  Parents = {p, q}
  IdOf <- MCIdOf
  NameOf <- MCNameOf
  ParentOf <- MCParentOf
  Predecessors <- MCPredecessors
  MaxWorkers = 2
  MaxRestarts = 1
  Letters <- MCLetters
  From <- MCFrom
  To <- MCTo
  Everyone = Everyone
  NoSpawn = NoSpawn
  NoId = NoId
CHECK_DEADLOCK FALSE
INVARIANTS
  MailStaysInSession
  PoolMirrorsWorkers
  EntryIsLive
  OwnResultIfUndisturbed
  AddressableByName
