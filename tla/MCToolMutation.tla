--------------------------- MODULE MCToolMutation ---------------------------
(***************************************************************************)
(* ToolMutation on small instances: a patch over two files by one worker,  *)
(* an edit of one of them by another, a write of the main session and a    *)
(* save of the user.                                                       *)
(***************************************************************************)
EXTENDS ToolMutation, TLC

CONSTANTS patch, edit, sibling, save, w1, w2, f1, f2

MCOwnerOf == [c \in Calls |-> IF c = edit THEN w2 ELSE w1]

MCFilesOf ==
  [c \in Calls |-> CASE c = patch -> <<f1, f2>> [] c = save -> <<f1>>
                     [] OTHER -> <<f2>>]

=============================================================================
