----------------------------- MODULE MCFileLock -----------------------------
(***************************************************************************)
(* FileLock on small instances: each caller acts for an owner of its own.  *)
(***************************************************************************)
EXTENDS FileLock, TLC

CONSTANTS c1, c2, c3

MCOwnerOf == [c \in Callers |-> c]

Perms == Permutations(Callers)

=============================================================================
