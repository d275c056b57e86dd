----------------------------- MODULE MCToolCache -----------------------------
(***************************************************************************)
(* One thread reads twice, once at most with mtime_tool_cache off,         *)
(* searches, has the file prefetched and patches it, while it is changed   *)
(* behind its back.                                                        *)
(***************************************************************************)
EXTENDS ToolCache, TLC

CONSTANTS read1, read2, grep, prefetch, patch

MCThreadOf == [c \in Answers |-> "main"]

MCToolOf ==
  [c \in Answers |-> CASE c \in {read1, read2} -> "read"
                     [] c = grep -> "grep"
                     [] c = prefetch -> "prefetch"
                     [] OTHER -> "patch"]

MCConfigs == {Answers, Answers \ {read1}, Answers \ {read2}}

\* Sound: the two are of one thread and one tool, and MCConfigs treats them
\* alike.
MCSymmetry == Permutations({read1, read2})
=============================================================================
