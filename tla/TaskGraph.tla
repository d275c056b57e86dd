------------------------------ MODULE TaskGraph ------------------------------
(***************************************************************************)
(* What an orchestration promises (docs/multi-agent.md, "Independent       *)
(* branches continue if another branch fails; only transitive dependents   *)
(* are marked blocked"): nodes of a dependency graph, each of which runs   *)
(* at most once, after everything it depends on has completed, or is       *)
(* blocked because something it depends on, near or far, has failed.       *)
(* Attempts, batches, the pool and the task store do not appear here;      *)
(* Orchestrator implements this specification.                             *)
(***************************************************************************)
CONSTANTS Nodes, Deps

VARIABLE state

States == {"pending", "running", "completed", "failed", "blocked"}
Lost == {"failed", "blocked"}

Init == state = [n \in Nodes |-> "pending"]

\* Everything a node depends on has completed.
Runnable(n) ==
  /\ state[n] = "pending"
  /\ \A d \in Deps[n] : state[d] = "completed"

Move(n, s) == state' = [state EXCEPT ![n] = s]

Run(n) == Runnable(n) /\ Move(n, "running")

\* The worker pool has no room: the node fails without having run.
Refuse(n) == Runnable(n) /\ Move(n, "failed")

End(n) == state[n] = "running" /\ \E s \in {"completed", "failed"} : Move(n, s)

Block(n) ==
  /\ state[n] = "pending"
  /\ \E d \in Deps[n] : state[d] \in Lost
  /\ Move(n, "blocked")

Next == \E n \in Nodes : Run(n) \/ Refuse(n) \/ End(n) \/ Block(n)

Spec == Init /\ [][Next]_state

(* Nothing is under way, or done, before what it depends on, and nothing   *)
(* is written off unless something it depends on was lost.                 *)
InOrder ==
  \A n \in Nodes :
    /\ state[n] \in {"running", "completed", "failed"}
         => \A d \in Deps[n] : state[d] = "completed"
    /\ state[n] = "blocked" => \E d \in Deps[n] : state[d] \in Lost
=============================================================================
