----------------------------- MODULE MCAgentPool -----------------------------
(***************************************************************************)
(* AgentPool on small instances.  A session orchestrates a node that is    *)
(* tried twice, a node beside it, and a node under an id that the plan of  *)
(* another session uses as well.  The second attempt writes to the name b, *)
(* which two agents of its session and one of the other may have.          *)
(***************************************************************************)
EXTENDS AgentPool, TLC

CONSTANTS first, second, other, mine, theirs, a, b, c, p, q

MCIdOf ==
  [s \in Spawns |-> CASE s \in {first, second} -> a [] s = other -> b
                      [] OTHER -> c]

MCNameOf == [s \in Spawns |-> IF IdOf[s] = c THEN b ELSE IdOf[s]]

MCParentOf == [s \in Spawns |-> IF s = theirs THEN q ELSE p]

MCLetters == {"ask"}
MCFrom == [m \in Letters |-> second]
MCTo == [m \in Letters |-> b]

MCPredecessors == [s \in Spawns |-> IF s = second THEN {first} ELSE {}]

=============================================================================
