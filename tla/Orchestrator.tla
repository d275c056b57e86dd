---------------------------- MODULE Orchestrator -----------------------------
(***************************************************************************)
(* The orchestration of packages/core/src/agent/dag-orchestrator.ts: a     *)
(* plan of nodes run in batches on the worker pool, mirrored into the task *)
(* store of task/manager.ts, behind the tool of                            *)
(* tool/built-in/orchestrate.ts.                                           *)
(*                                                                         *)
(* Only a settled promise of a worker, a new call or the end of the tool's *)
(* patience starts anything (macrotasks); what the code then does without  *)
(* giving up the thread (blocking descendants, choosing a batch, starting  *)
(* its nodes) is a run of small steps during which Quiet is FALSE.  A      *)
(* worker is its promise, which need not settle.  Outputs are reduced to   *)
(* whether there is one, descriptions to whether trim() leaves anything.   *)
(***************************************************************************)
EXTENDS Naturals, FiniteSets

CONSTANTS
  Calls,            \* calls of the tool, all in one session
  Nodes,            \* ids of the nodes of all plans
  CallOf,           \* the call whose plan has the node
  Rank,             \* its place in the plan
  Deps,             \* node.dependencies
  Overlap,          \* pairs of nodes scopesConflict() is true of, both ways round
  MaxAttempts,      \* node.maxAttempts ?? 2
  MaxConcurrency,   \* opts.maxConcurrency
  MaxWorkers,       \* agents.maxWorkers, shared by the session
  Leftover,         \* ids the session's task store already knows
  OldTasks,         \* what their tasks may be: tools of the agent write them too
  Blankable,        \* nodes whose description may be nothing but white space
  MaxStoreFailures  \* bound: how often the store cannot be written for a while

NoTask == [status |-> "absent", blockedBy |-> {}]
TaskStates == {"absent", "pending", "ready", "in_progress", "blocked", "error", "done"}

(* assertNoCycle(): the tasks of some set depend on each other.            *)
Cyclic(dependencies) ==
  \E S \in SUBSET Nodes : S # {} /\ \A n \in S : dependencies[n] \cap S # {}

(* What validate() has checked when there is an orchestrator at all: known *)
(* dependencies of the same plan, and no cycle.                            *)
ASSUME PlanAssumption ==
  /\ CallOf \in [Nodes -> Calls]
  /\ Rank \in [Nodes -> Nat]
  /\ \A m, n \in Nodes : Rank[m] = Rank[n] => m = n
  /\ Deps \in [Nodes -> SUBSET Nodes]
  /\ \A n \in Nodes : \A d \in Deps[n] : CallOf[d] = CallOf[n]
  /\ ~Cyclic(Deps)
  /\ Overlap \subseteq Nodes \X Nodes
  /\ \A m, n \in Nodes : <<m, n>> \in Overlap => <<n, m>> \in Overlap
  /\ MaxAttempts \in [Nodes -> Nat \ {0}]
  /\ MaxConcurrency \in Nat \ {0}
  /\ MaxWorkers \in Nat
  /\ Leftover \subseteq Nodes
  /\ OldTasks \subseteq [status : TaskStates \ {"absent"}, blockedBy : SUBSET Nodes,
                         dependencies : SUBSET Nodes, blank : BOOLEAN]
  /\ Blankable \subseteq Nodes
  /\ MaxStoreFailures \in Nat

VARIABLES
  call,      \* where each run() stands
  tool,      \* what the agent loop knows of the tool call
  status,    \* node.status
  attempts,  \* node.attempts
  worker,    \* the node's spawn() is awaited
  toStart,   \* nodes of the batch map() has not reached yet
  batch,     \* nodes whose executeNode() the Promise.all() waits for
  outputs, errors,  \* the nodes with an entry in either result table
  tasks,     \* the task store: id -> task, the blockedBy of which shrinks
  dependencies, \* task.dependencies, which does not
  blank,     \* tasks whose subject is empty
  failures,  \* how often writes of the store have failed
  hit,       \* history: calls one of whose writes failed
  refused,   \* history: calls one of whose tasks would have closed a cycle
  redone     \* history: nodes that had completed when their write failed

nodeVars == <<status, attempts, worker, outputs, errors>>
known == <<dependencies, blank, refused>>
vars == <<call, tool, status, attempts, worker, toStart, batch, outputs,
          errors, tasks, dependencies, blank, failures, hit, refused, redone>>

NodesOf(c) == {n \in Nodes : CallOf[n] = c}
Conflict(m, n) == <<m, n>> \in Overlap

(* Nothing is on the stack of the main thread.                             *)
Busy == {"looping", "starting", "failing"}
Quiet == \A c \in Calls : call[c] \notin Busy

Init ==
  /\ call = [c \in Calls |-> "none"]
  /\ tool = [c \in Calls |-> "none"]
  /\ status = [n \in Nodes |-> "pending"]
  /\ attempts = [n \in Nodes |-> 0]
  /\ worker = [n \in Nodes |-> FALSE]
  /\ toStart = [c \in Calls |-> {}]
  /\ batch = [c \in Calls |-> {}]
  /\ outputs = {} /\ errors = {}
  /\ \E old \in [Leftover -> OldTasks] :
       /\ tasks = [n \in Nodes |->
            IF n \in Leftover
              THEN [status |-> old[n].status, blockedBy |-> old[n].blockedBy] ELSE NoTask]
       /\ dependencies = [n \in Nodes |-> IF n \in Leftover THEN old[n].dependencies ELSE {}]
       /\ blank = {n \in Leftover : old[n].blank}
  /\ ~Cyclic(dependencies)
  /\ failures = 0 /\ hit = {} /\ refused = {} /\ redone = {}

-----------------------------------------------------------------------------
(* The task store.  Every change is made in memory, then the whole file is *)
(* written; a write that fails leaves the change and throws.  The run has  *)
(* loaded the store of its session before its first change.                *)

Written == UNCHANGED <<failures, hit>>
NotWritten(c) ==
  /\ failures < MaxStoreFailures
  /\ failures' = failures + 1
  /\ hit' = hit \cup {c}

SetTask(n, s) == [tasks EXCEPT ![n].status = s]

\* Mutant: completeTask() leaves the dependents alone.
CompleteTaskAlone(n) == SetTask(n, "done")

\* completeTask: the dependents lose a blocker and may become ready.
CompleteTask(n) ==
  [m \in Nodes |->
     IF m = n THEN [tasks[n] EXCEPT !.status = "done"]
     ELSE [status |-> IF tasks[m].blockedBy = {n} /\ tasks[m].status = "pending"
                        THEN "ready" ELSE tasks[m].status,
           blockedBy |-> tasks[m].blockedBy \ {n}]]

\* updateTask() throws and changes nothing: normalizeTask() wants a subject.
Refused(n) == n \in blank \/ Cyclic(dependencies)

\* createTask for the nodes in N the store does not know.
Unknown(N) == {n \in N : tasks[n].status = "absent"}
CreateTasks(N) ==
  [n \in Nodes |->
     IF n \in Unknown(N)
       THEN [status |-> IF Deps[n] = {} THEN "ready" ELSE "pending",
             blockedBy |-> Deps[n]]
       ELSE tasks[n]]

\* The dependencies in the store after that.
Linked(N) == [n \in Nodes |-> IF n \in Unknown(N) THEN Deps[n] ELSE dependencies[n]]

\* The tasks of N are created; what a blank description leaves is a blank subject.
Create(N) ==
  /\ tasks' = CreateTasks(N)
  /\ dependencies' = Linked(N)
  /\ \E B \in SUBSET (Unknown(N) \cap Blankable) : blank' = blank \cup B

-----------------------------------------------------------------------------
(* run() *)

\* How the tool call ends with the run, unless it is over already.
Answer(c, to) ==
  /\ call' = [call EXCEPT ![c] = to]
  /\ tool' = [tool EXCEPT ![c] = IF @ = "waiting" THEN "answered" ELSE @]

UpTo(c, n) == {m \in NodesOf(c) : Rank[m] <= Rank[n]}

Begin(c) ==
  /\ Quiet /\ call[c] = "none"
  /\ ~Cyclic(Linked(NodesOf(c)))
  /\ call' = [call EXCEPT ![c] = "looping"]
  /\ tool' = [tool EXCEPT ![c] = "waiting"]
  /\ Create(NodesOf(c))
  /\ Written
  /\ UNCHANGED <<nodeVars, toStart, batch, refused, redone>>

\* A write fails while the tasks are being created.
BeginFails(c) ==
  /\ Quiet /\ call[c] = "none"
  /\ \E n \in Unknown(NodesOf(c)) : ~Cyclic(Linked(UpTo(c, n))) /\ Create(UpTo(c, n))
  /\ NotWritten(c)
  /\ call' = [call EXCEPT ![c] = "thrown"]
  /\ tool' = [tool EXCEPT ![c] = "answered"]
  /\ UNCHANGED <<nodeVars, toStart, batch, refused, redone>>

\* The task of n would close a cycle with tasks that are left over: createTask()
\* throws, and the tasks before it stay.
BeginCyclic(c) ==
  /\ Quiet /\ call[c] = "none"
  /\ \E n \in Unknown(NodesOf(c)) :
       /\ Cyclic(Linked(UpTo(c, n))) /\ ~Cyclic(Linked(UpTo(c, n) \ {n}))
       /\ Create(UpTo(c, n) \ {n})
  /\ Written
  /\ refused' = refused \cup {c}
  /\ call' = [call EXCEPT ![c] = "thrown"]
  /\ tool' = [tool EXCEPT ![c] = "answered"]
  /\ UNCHANGED <<nodeVars, toStart, batch, redone>>

Pending(c) == {n \in NodesOf(c) : status[n] = "pending"}
\* Mutant: only direct dependents are blocked.
BlockableDirect(c) == {n \in Pending(c) : \E d \in Deps[n] : status[d] = "failed"}

Blockable(c) == {n \in Pending(c) : \E d \in Deps[n] : status[d] \in {"failed", "blocked"}}

\* Mutant: one completed dependency is enough.
ReadySoon(c) ==
  {n \in Pending(c) : Deps[n] = {} \/ \E d \in Deps[n] : status[d] = "completed"}

Ready(c) == {n \in Pending(c) : \A d \in Deps[n] : status[d] = "completed"}

\* One round of blockFailedDescendants().
BlockDescendant(c, n) ==
  /\ call[c] = "looping"
  /\ n \in Blockable(c)
  /\ status' = [status EXCEPT ![n] = "blocked"]
  /\ errors' = errors \cup {n}
  /\ \/ Refused(n) /\ UNCHANGED tasks /\ Written /\ Answer(c, "thrown")
     \/ /\ ~Refused(n)
        /\ tasks' = SetTask(n, "blocked")
        /\ \/ Written /\ UNCHANGED <<call, tool>>
           \/ NotWritten(c) /\ Answer(c, "thrown")
  /\ UNCHANGED <<attempts, worker, outputs, toStart, batch, known, redone>>

(* selectNonConflicting(): down the plan, a ready node joins unless the    *)
(* batch is full or one that joined before it conflicts.                   *)
Before(B, n) == {m \in B : Rank[m] < Rank[n]}

\* Mutant: the scopes are not compared.
IsBatchGreedy(c, B) ==
  /\ B \subseteq Ready(c)
  /\ \A n \in Ready(c) : n \in B <=> Cardinality(Before(B, n)) < MaxConcurrency

IsBatch(c, B) ==
  /\ B \subseteq Ready(c)
  /\ \A n \in Ready(c) :
       n \in B <=> /\ Cardinality(Before(B, n)) < MaxConcurrency
                   /\ \A m \in Before(B, n) : ~Conflict(m, n)

SelectBatch(c) ==
  /\ call[c] = "looping" /\ Blockable(c) = {}
  /\ \E B \in SUBSET Ready(c) :
       /\ B # {} /\ IsBatch(c, B)
       /\ toStart' = [toStart EXCEPT ![c] = B]
       /\ batch' = [batch EXCEPT ![c] = B]
  /\ call' = [call EXCEPT ![c] = "starting"]
  /\ UNCHANGED <<nodeVars, tool, tasks, failures, hit, known, redone>>

\* Mutant: the loop ends when nothing is runnable.
ReturnEarly(c) ==
  /\ call[c] = "looping" /\ Ready(c) = {}
  /\ Answer(c, "returned")
  /\ UNCHANGED <<nodeVars, toStart, batch, tasks, failures, hit, known, redone>>

Return(c) ==
  /\ call[c] = "looping" /\ Pending(c) = {}
  /\ Answer(c, "returned")
  /\ UNCHANGED <<nodeVars, toStart, batch, tasks, failures, hit, known, redone>>

-----------------------------------------------------------------------------
(* executeNode() *)

Active == {n \in Nodes : worker[n]}

\* The call goes on when map() is through: to the next round of the loop if
\* every node has settled, out if one of the promises is rejected.
AfterStart(c, left, waiting, rejected) ==
  LET to == IF left # {} THEN IF rejected THEN "failing" ELSE "starting"
            ELSE IF rejected THEN "thrown"
            ELSE IF waiting = {} THEN "looping" ELSE "awaiting"
  IN  /\ toStart' = [toStart EXCEPT ![c] = left]
      /\ batch' = [batch EXCEPT ![c] = waiting]
      /\ IF to = "thrown" THEN Answer(c, to)
         ELSE call' = [call EXCEPT ![c] = to] /\ UNCHANGED tool

NextToStart(c, n) ==
  /\ call[c] \in {"starting", "failing"}
  /\ n \in toStart[c]
  /\ \A m \in toStart[c] : Rank[n] <= Rank[m]

StartNode(c, n) ==
  /\ NextToStart(c, n) /\ ~Refused(n)
  /\ Cardinality(Active) < MaxWorkers
  /\ status' = [status EXCEPT ![n] = "running"]
  /\ attempts' = [attempts EXCEPT ![n] = 1]
  /\ worker' = [worker EXCEPT ![n] = TRUE]
  /\ tasks' = SetTask(n, "in_progress")
  /\ AfterStart(c, toStart[c] \ {n}, batch[c], call[c] = "failing")
  /\ Written
  /\ UNCHANGED <<outputs, errors, known, redone>>

\* updateTask() throws outside the try: executeNode() rejects.
StartNodeThrows(c, n) ==
  /\ NextToStart(c, n) /\ Refused(n)
  /\ status' = [status EXCEPT ![n] = "running"]
  /\ AfterStart(c, toStart[c] \ {n}, batch[c] \ {n}, TRUE)
  /\ UNCHANGED <<attempts, worker, outputs, errors, tasks, failures, hit, known, redone>>

\* So it does when its write fails.
StartNodeFails(c, n) ==
  /\ NextToStart(c, n) /\ ~Refused(n)
  /\ status' = [status EXCEPT ![n] = "running"]
  /\ tasks' = SetTask(n, "in_progress")
  /\ NotWritten(c)
  /\ AfterStart(c, toStart[c] \ {n}, batch[c] \ {n}, TRUE)
  /\ UNCHANGED <<attempts, worker, outputs, errors, known, redone>>

\* PoolFullError: no worker can end before the attempts are used up.
RefuseNode(c, n) ==
  /\ NextToStart(c, n) /\ ~Refused(n)
  /\ Cardinality(Active) >= MaxWorkers
  /\ status' = [status EXCEPT ![n] = "failed"]
  /\ attempts' = [attempts EXCEPT ![n] = MaxAttempts[n]]
  /\ errors' = errors \cup {n}
  /\ tasks' = SetTask(n, "error")
  /\ \/ Written /\ AfterStart(c, toStart[c] \ {n}, batch[c] \ {n}, call[c] = "failing")
     \/ NotWritten(c) /\ AfterStart(c, toStart[c] \ {n}, batch[c] \ {n}, TRUE)
  /\ UNCHANGED <<worker, outputs, known, redone>>

\* Mutant: the last promise of the batch is not noticed.
SettleOneShort(n, rejected) ==
  LET c == CallOf[n]
  IN  /\ batch' = [batch EXCEPT ![c] = @ \ {n}]
      /\ IF call[c] = "awaiting" /\ rejected THEN Answer(c, "thrown")
         ELSE IF call[c] = "awaiting" /\ batch[c] = {}
           THEN call' = [call EXCEPT ![c] = "looping"] /\ UNCHANGED tool
         ELSE UNCHANGED <<call, tool>>

\* executeNode() of n settles; nobody listens when run() has thrown.
Settle(n, rejected) ==
  LET c == CallOf[n]
      left == batch[c] \ {n}
  IN  /\ batch' = [batch EXCEPT ![c] = left]
      /\ IF call[c] = "awaiting" /\ rejected THEN Answer(c, "thrown")
         ELSE IF call[c] = "awaiting" /\ left = {}
           THEN call' = [call EXCEPT ![c] = "looping"] /\ UNCHANGED tool
         ELSE UNCHANGED <<call, tool>>

WorkerSucceeds(n) ==
  /\ Quiet /\ worker[n]
  /\ worker' = [worker EXCEPT ![n] = FALSE]
  /\ status' = [status EXCEPT ![n] = "completed"]
  /\ outputs' = outputs \cup {n}
  /\ tasks' = CompleteTask(n)
  /\ Written
  /\ Settle(n, FALSE)
  /\ UNCHANGED <<attempts, errors, toStart, known, redone>>

\* The write of completeTask() fails inside the try: the attempt counts as
\* failed.  The worker's own slot is free, so the next spawn() has room.
CompletionLost(n) ==
  /\ Quiet /\ worker[n] /\ attempts[n] < MaxAttempts[n]
  /\ status' = [status EXCEPT ![n] = "completed"]
  /\ outputs' = outputs \cup {n}
  /\ tasks' = CompleteTask(n)
  /\ attempts' = [attempts EXCEPT ![n] = @ + 1]
  /\ redone' = redone \cup {n}
  /\ NotWritten(CallOf[n])
  /\ UNCHANGED <<call, tool, worker, errors, toStart, batch, known>>

\* Mutant: one attempt too many.
RetryOnceMore(n) ==
  /\ Quiet /\ worker[n] /\ attempts[n] <= MaxAttempts[n]
  /\ attempts' = [attempts EXCEPT ![n] = @ + 1]
  /\ UNCHANGED <<call, tool, status, worker, outputs, errors, toStart, batch,
                 tasks, failures, hit, known, redone>>

\* A worker that fails, times out or is cancelled, with an attempt left.
Retry(n) ==
  /\ Quiet /\ worker[n] /\ attempts[n] < MaxAttempts[n]
  /\ attempts' = [attempts EXCEPT ![n] = @ + 1]
  /\ UNCHANGED <<call, tool, status, worker, outputs, errors, toStart, batch,
                 tasks, failures, hit, known, redone>>

\* The last attempt is over.
GiveUp(n) ==
  /\ Quiet /\ worker[n] /\ attempts[n] >= MaxAttempts[n]
  /\ worker' = [worker EXCEPT ![n] = FALSE]
  /\ status' = [status EXCEPT ![n] = "failed"]
  /\ errors' = errors \cup {n}
  /\ tasks' = SetTask(n, "error")
  /\ \/ Written /\ Settle(n, FALSE)
     \/ NotWritten(CallOf[n]) /\ Settle(n, TRUE)
  /\ UNCHANGED <<attempts, outputs, toStart, known, redone>>

\* The last attempt succeeds, its write fails, and so may the write of failTask().
LastCompletionLost(n) ==
  /\ Quiet /\ worker[n] /\ attempts[n] >= MaxAttempts[n]
  /\ NotWritten(CallOf[n])
  /\ worker' = [worker EXCEPT ![n] = FALSE]
  /\ status' = [status EXCEPT ![n] = "failed"]
  /\ outputs' = outputs \cup {n}
  /\ errors' = errors \cup {n}
  /\ tasks' = [CompleteTask(n) EXCEPT ![n].status = "error"]
  /\ redone' = redone \cup {n}
  /\ \E rejected \in BOOLEAN : Settle(n, rejected)
  /\ UNCHANGED <<attempts, toStart, known>>

-----------------------------------------------------------------------------
(* The tool's timeout expires or the turn is aborted: the executor gives   *)
(* the call up.  Neither run() nor a worker hears of it.                   *)
Abandon(c) ==
  /\ Quiet /\ tool[c] = "waiting"
  /\ tool' = [tool EXCEPT ![c] = "abandoned"]
  /\ UNCHANGED <<call, nodeVars, toStart, batch, tasks, failures, hit, known, redone>>

Step(c) ==
  \/ SelectBatch(c) \/ Return(c)
  \/ \E n \in Nodes : \/ BlockDescendant(c, n)
                      \/ StartNode(c, n) \/ StartNodeThrows(c, n)
                      \/ StartNodeFails(c, n) \/ RefuseNode(c, n)

WorkerEnds(n) ==
  WorkerSucceeds(n) \/ CompletionLost(n) \/ Retry(n) \/ GiveUp(n) \/ LastCompletionLost(n)

Next ==
  \/ \E c \in Calls : Begin(c) \/ BeginFails(c) \/ BeginCyclic(c) \/ Step(c) \/ Abandon(c)
  \/ \E n \in Nodes : WorkerEnds(n)

(* The thread finishes what it has started.  No worker has to end (see     *)
(* Beating in AgentPool).                                                  *)
Fairness == \A c \in Calls : WF_vars(Step(c))

Spec == Init /\ [][Next]_vars
FairSpec == Spec /\ Fairness

-----------------------------------------------------------------------------
\* Every variable keeps its type.
TypeOK ==
  /\ call \in [Calls -> {"none", "awaiting", "returned", "thrown"} \cup Busy]
  /\ tool \in [Calls -> {"none", "waiting", "answered", "abandoned"}]
  /\ status \in [Nodes -> {"pending", "running", "completed", "failed", "blocked"}]
  /\ attempts \in [Nodes -> Nat] /\ \A n \in Nodes : attempts[n] <= MaxAttempts[n]
  /\ worker \in [Nodes -> BOOLEAN]
  /\ toStart \in [Calls -> SUBSET Nodes]
  /\ batch \in [Calls -> SUBSET Nodes]
  /\ outputs \subseteq Nodes /\ errors \subseteq Nodes
  /\ tasks \in [Nodes -> [status : TaskStates, blockedBy : SUBSET Nodes]]
  /\ dependencies \in [Nodes -> SUBSET Nodes] /\ blank \subseteq Nodes
  /\ failures \in 0..MaxStoreFailures
  /\ hit \subseteq Calls /\ refused \subseteq Calls /\ redone \subseteq Nodes

(* "Runnable nodes with overlapping file scopes are serialized": no two    *)
(* workers of one plan ever run on overlapping scopes, whatever batches,   *)
(* retries and nodes left behind by a run that threw there are.            *)
ScopesSerialized ==
  \A m, n \in Active :
    m # n /\ CallOf[m] = CallOf[n] => ~Conflict(m, n)

(* The loop always has something to do: it never reaches its throw of      *)
(* "Orchestration deadlock".  run() throws only when a write of the task   *)
(* store has failed, a task would have closed a cycle with tasks that were *)
(* left over, or a node has a blank task; updateTask() never finds a cycle *)
(* that createTask() has let in.                                           *)
NeverDeadlocks ==
  \A c \in Calls :
    /\ call[c] = "looping" => Pending(c) = {} \/ Blockable(c) # {} \/ Ready(c) # {}
    /\ call[c] = "thrown" => c \in hit \cup refused \/ NodesOf(c) \cap blank # {}

(* "Node state is mirrored into the session-scoped task store", and a task *)
(* that waits shows exactly what it waits for: the dependencies that have  *)
(* not completed yet.  A node that completed and is run again (its write   *)
(* failed) is the one that shows as done while a worker is at it.  A blank *)
(* task is not updated, and its node does not get past its start.          *)
TasksMirrorNodes ==
  \A n \in Nodes :
    LET t == tasks[n].status IN
    /\ n \notin blank =>
         /\ status[n] = "running" => t = "in_progress" \/ (t = "done" /\ n \in redone)
         /\ status[n] = "blocked" => t = "blocked"
    /\ status[n] = "completed" => t = "done"
    /\ status[n] = "failed" => t = "error"
    /\ status[n] = "pending" /\ n \notin Leftover /\ t # "absent" =>
         /\ tasks[n].blockedBy = {d \in Deps[n] : d \notin outputs}
         /\ t = IF tasks[n].blockedBy = {} THEN "ready" ELSE "pending"

(* A run that returns has accounted for every node: each has an output or  *)
(* an error, and both only if it completed and its write failed.           *)
EveryNodeAccounted ==
  /\ \A c \in Calls : call[c] = "returned" => NodesOf(c) \subseteq outputs \cup errors
  /\ outputs \cap errors \subseteq redone

(* The thread is never stuck in an orchestration, and none waits for       *)
(* nothing: run() comes to return, to throw, or to wait for a worker.      *)
EveryCallEnds ==
  \A c \in Calls :
    <>[](call[c] \in {"none", "returned", "thrown"} \/ \E n \in batch[c] : worker[n])

(* The nodes as TaskGraph sees them: one a worker is at is running,        *)
(* whatever an earlier success has made of its status.                     *)
NodeState == [n \in Nodes |-> IF worker[n] THEN "running" ELSE status[n]]
Graph == INSTANCE TaskGraph WITH state <- NodeState

(* The orchestration implements TaskGraph: nothing runs before its         *)
(* dependencies, nothing that has ended changes again, and only what       *)
(* depends on a lost node is blocked.                                      *)
ImplementsTaskGraph == Graph!Spec

=============================================================================
