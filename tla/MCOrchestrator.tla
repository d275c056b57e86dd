--------------------------- MODULE MCOrchestrator ----------------------------
(* Two orchestrations in one session: a plan with an exploration, two edits *)
(* of overlapping scopes that depend on it, a review of both and a node of  *)
(* its own, and a plan of one node, on a pool with room for two workers.    *)
(* The store knows a task of one id from before: done, waiting, without a   *)
(* subject, or depending on the review.                                     *)
EXTENDS Orchestrator

CONSTANTS c1, c2, explore, edit1, edit2, review, docs, other

MCCallOf == [n \in Nodes |-> IF n = other THEN c2 ELSE c1]
MCRank ==
  [n \in Nodes |-> CASE n = explore -> 1 [] n = edit1 -> 2 [] n = edit2 -> 3
                     [] n = review -> 4 [] n = docs -> 5 [] n = other -> 6]
MCDeps ==
  [n \in Nodes |-> CASE n \in {edit1, edit2} -> {explore}
                     [] n = review -> {edit1, edit2}
                     [] OTHER -> {}]
MCOverlap == {<<edit1, edit2>>, <<edit2, edit1>>, <<edit1, other>>, <<other, edit1>>}
MCMaxAttempts == [n \in Nodes |-> IF n = edit1 THEN 2 ELSE 1]
MCOldTasks ==
  {[status |-> "done", blockedBy |-> {}, dependencies |-> {}, blank |-> FALSE],
   [status |-> "pending", blockedBy |-> {explore}, dependencies |-> {explore}, blank |-> FALSE],
   [status |-> "ready", blockedBy |-> {}, dependencies |-> {}, blank |-> TRUE],
   [status |-> "blocked", blockedBy |-> {}, dependencies |-> {review}, blank |-> FALSE]}
=============================================================================
