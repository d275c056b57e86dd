-------------------------- MODULE MCSnapshotHistory --------------------------
(***************************************************************************)
(* SnapshotHistory on small instances: a turn of one session that runs a   *)
(* write, an undo and a patch over two files.                              *)
(***************************************************************************)
EXTENDS SnapshotHistory, TLC

CONSTANTS write, patch, undo, f1, f2, s1

MCFilesOf ==
  [c \in Calls |-> CASE c = write -> <<f1>> [] c = patch -> <<f1, f2>>
                     [] OTHER -> <<>>]

MCScopeOf == [c \in Calls |-> s1]

=============================================================================
