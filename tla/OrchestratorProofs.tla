-------------------------- MODULE OrchestratorProofs --------------------------
(***************************************************************************)
(* Proofs about Orchestrator for every plan, whatever its dependencies,    *)
(* scopes, attempts and limits.                                            *)
(***************************************************************************)
EXTENDS Orchestrator, TLAPS

-----------------------------------------------------------------------------
(* Lemmas about the parts of a step *)

CallStates == {"none", "awaiting", "returned", "thrown"} \cup Busy
ToolStates == {"none", "waiting", "answered", "abandoned"}
TaskStore == [Nodes -> [status : TaskStates, blockedBy : SUBSET Nodes]]
CallsType == call \in [Calls -> CallStates] /\ tool \in [Calls -> ToolStates]
PlansType == toStart \in [Calls -> SUBSET Nodes] /\ batch \in [Calls -> SUBSET Nodes]

\* A task's new status leaves a task store.
LEMMA SetTaskType ==
  ASSUME tasks \in TaskStore, NEW n \in Nodes, NEW s \in TaskStates
  PROVE  SetTask(n, s) \in TaskStore
  BY DEF TaskStore, SetTask

\* So does a completed task.
LEMMA CompleteTaskType ==
  ASSUME tasks \in TaskStore, NEW n \in Nodes
  PROVE  CompleteTask(n) \in TaskStore
<1>1. [tasks[n] EXCEPT !.status = "done"] \in [status : TaskStates, blockedBy : SUBSET Nodes]
  BY DEF TaskStore, TaskStates
<1>2. ASSUME NEW m \in Nodes
      PROVE  [status |-> IF tasks[m].blockedBy = {n} /\ tasks[m].status = "pending"
                           THEN "ready" ELSE tasks[m].status,
              blockedBy |-> tasks[m].blockedBy \ {n}]
                \in [status : TaskStates, blockedBy : SUBSET Nodes]
  BY DEF TaskStore, TaskStates
<1> QED
  BY <1>1, <1>2 DEF TaskStore, CompleteTask

\* New tasks have the types of the store.
LEMMA CreateType ==
  ASSUME tasks \in TaskStore, dependencies \in [Nodes -> SUBSET Nodes], blank \subseteq Nodes,
         NEW N \in SUBSET Nodes, Create(N)
  PROVE  /\ tasks' \in TaskStore
         /\ dependencies' \in [Nodes -> SUBSET Nodes] /\ blank' \subseteq Nodes
<1>1. tasks' \in TaskStore
  BY PlanAssumption DEF Create, CreateTasks, TaskStore, TaskStates
<1>2. dependencies' \in [Nodes -> SUBSET Nodes]
  BY PlanAssumption DEF Create, Linked
<1>3. blank' \subseteq Nodes
  BY DEF Create, Unknown
<1> QED
  BY <1>1, <1>2, <1>3

\* The end of a run ends a tool call that still waits.
LEMMA AnswerType ==
  ASSUME CallsType, NEW c \in Calls, NEW to \in CallStates, Answer(c, to)
  PROVE  CallsType'
  BY DEF CallsType, Answer, CallStates, ToolStates

\* What starting a node does to the call.
LEMMA AfterStartType ==
  ASSUME CallsType, PlansType, NEW c \in Calls, NEW left \in SUBSET Nodes,
         NEW waiting \in SUBSET Nodes, NEW rejected \in BOOLEAN,
         AfterStart(c, left, waiting, rejected)
  PROVE  CallsType' /\ PlansType'
<1>1. PlansType'
  BY DEF AfterStart, PlansType
<1>2. CASE left = {} /\ rejected
  <2>1. Answer(c, "thrown")
    BY <1>2 DEF AfterStart
  <2> QED
    BY <1>1, <2>1, AnswerType DEF CallStates
<1>3. CASE ~(left = {} /\ rejected)
  <2>1. \E to \in CallStates : call' = [call EXCEPT ![c] = to] /\ UNCHANGED tool
    BY <1>3 DEF AfterStart, CallStates, Busy
  <2> QED
    BY <1>1, <2>1 DEF CallsType
<1> QED
  BY <1>2, <1>3

\* What a node that settles does to its call.
LEMMA SettleType ==
  ASSUME CallsType, PlansType, NEW n \in Nodes, NEW rejected \in BOOLEAN,
         Settle(n, rejected)
  PROVE  CallsType' /\ batch' \in [Calls -> SUBSET Nodes]
<1>c. CallOf[n] \in Calls
  BY PlanAssumption
<1>1. batch' \in [Calls -> SUBSET Nodes]
  BY <1>c DEF Settle, PlansType
<1>2. CASE call[CallOf[n]] = "awaiting" /\ rejected
  <2>1. Answer(CallOf[n], "thrown")
    BY <1>2 DEF Settle
  <2> QED
    BY <1>1, <1>c, <2>1, AnswerType DEF CallStates
<1>3. CASE ~(call[CallOf[n]] = "awaiting" /\ rejected)
  <2>1. \/ call' = [call EXCEPT ![CallOf[n]] = "looping"] /\ UNCHANGED tool
        \/ UNCHANGED <<call, tool>>
    BY <1>3 DEF Settle
  <2> QED
    BY <1>1, <1>c, <2>1 DEF CallsType, CallStates, Busy
<1> QED
  BY <1>2, <1>3

-----------------------------------------------------------------------------
(* Type correctness *)

\* Every step keeps the types.
LEMMA TypeStep == TypeOK /\ [Next]_vars => TypeOK'
<1> SUFFICES ASSUME TypeOK, [Next]_vars PROVE TypeOK'
  OBVIOUS
<1> USE PlanAssumption DEF nodeVars, known
<1>t. /\ TypeOK <=>
           /\ CallsType /\ PlansType /\ tasks \in TaskStore
           /\ status \in [Nodes -> {"pending", "running", "completed", "failed", "blocked"}]
           /\ attempts \in [Nodes -> Nat] /\ \A n \in Nodes : attempts[n] <= MaxAttempts[n]
           /\ worker \in [Nodes -> BOOLEAN]
           /\ outputs \subseteq Nodes /\ errors \subseteq Nodes
           /\ dependencies \in [Nodes -> SUBSET Nodes] /\ blank \subseteq Nodes
           /\ failures \in 0..MaxStoreFailures
           /\ hit \subseteq Calls /\ refused \subseteq Calls /\ redone \subseteq Nodes
      /\ TypeOK' <=>
           /\ CallsType' /\ PlansType' /\ tasks' \in TaskStore
           /\ status' \in [Nodes -> {"pending", "running", "completed", "failed", "blocked"}]
           /\ attempts' \in [Nodes -> Nat] /\ \A n \in Nodes : attempts'[n] <= MaxAttempts[n]
           /\ worker' \in [Nodes -> BOOLEAN]
           /\ outputs' \subseteq Nodes /\ errors' \subseteq Nodes
           /\ dependencies' \in [Nodes -> SUBSET Nodes] /\ blank' \subseteq Nodes
           /\ failures' \in 0..MaxStoreFailures
           /\ hit' \subseteq Calls /\ refused' \subseteq Calls /\ redone' \subseteq Nodes
  BY DEF TypeOK, CallsType, PlansType, TaskStore, CallStates, ToolStates
<1>s. /\ {"in_progress", "error", "blocked", "done"} \subseteq TaskStates
      /\ {"none", "awaiting", "returned", "thrown", "looping", "starting", "failing"} = CallStates
      /\ \A f \in 0..MaxStoreFailures : f < MaxStoreFailures => f + 1 \in 0..MaxStoreFailures
  BY DEF TaskStates, CallStates, Busy
<1>w. ASSUME NEW c \in Calls, Written \/ NotWritten(c)
      PROVE  failures' \in 0..MaxStoreFailures /\ hit' \subseteq Calls
  BY <1>w, <1>t, <1>s DEF Written, NotWritten
<1>1. CASE UNCHANGED vars
  BY <1>1 DEF TypeOK, vars
<1>2. ASSUME NEW c \in Calls, Begin(c) PROVE TypeOK'
  BY <1>2, <1>t, CreateType DEF Begin, Written, NodesOf, CallsType, CallStates, ToolStates, Busy, PlansType
<1>3. ASSUME NEW c \in Calls, BeginFails(c) \/ BeginCyclic(c) PROVE TypeOK'
  <2>1. PICK N \in SUBSET Nodes : Create(N)
    BY <1>3 DEF BeginFails, BeginCyclic, UpTo, NodesOf
  <2>2. failures' \in 0..MaxStoreFailures /\ hit' \subseteq Calls /\ refused' \subseteq Calls
    BY <1>3, <1>t, <1>w DEF BeginFails, BeginCyclic
  <2>3. CallsType' /\ PlansType'
    BY <1>3, <1>t DEF BeginFails, BeginCyclic, CallsType, CallStates, ToolStates, Busy, PlansType
  <2> QED
    BY <1>3, <1>t, <2>1, <2>2, <2>3, CreateType DEF BeginFails, BeginCyclic
<1>4. ASSUME NEW c \in Calls, SelectBatch(c) PROVE TypeOK'
  BY <1>4 DEF TypeOK, Busy, SelectBatch, Ready, Pending, NodesOf
<1>5. ASSUME NEW c \in Calls, Return(c) PROVE TypeOK'
  BY <1>5 DEF TypeOK, Busy, Return, Answer
<1>6. ASSUME NEW c \in Calls, NEW n \in Nodes, BlockDescendant(c, n) PROVE TypeOK'
  <2>1. tasks' \in TaskStore
    <3>1. tasks' = tasks \/ tasks' = SetTask(n, "blocked")
      BY <1>6 DEF BlockDescendant
    <3> QED
      BY <3>1, <1>t, <1>s, SetTaskType
  <2>2. CallsType'
    BY <1>6, <1>t, <1>s, AnswerType DEF BlockDescendant, CallsType
  <2>3. failures' \in 0..MaxStoreFailures /\ hit' \subseteq Calls
    BY <1>6, <1>w DEF BlockDescendant
  <2> QED
    BY <1>6, <1>t, <2>1, <2>2, <2>3 DEF BlockDescendant, PlansType
<1>7. ASSUME NEW c \in Calls, NEW n \in Nodes, StartNode(c, n) PROVE TypeOK'
  <2>1. tasks' \in TaskStore
    BY <1>7, <1>t, <1>s, SetTaskType DEF StartNode
  <2>2. CallsType' /\ PlansType'
    <3>1. /\ \E rejected \in BOOLEAN : AfterStart(c, toStart[c] \ {n}, batch[c], rejected)
          /\ toStart[c] \ {n} \in SUBSET Nodes /\ batch[c] \in SUBSET Nodes
      BY <1>7, <1>t DEF StartNode, PlansType
    <3> QED
      BY <3>1, <1>t, AfterStartType
  <2>3. failures' \in 0..MaxStoreFailures /\ hit' \subseteq Calls
    BY <1>7, <1>w DEF StartNode
  <2> QED
    BY <1>7, <1>t, <2>1, <2>2, <2>3 DEF StartNode
<1>8. ASSUME NEW c \in Calls, NEW n \in Nodes, StartNodeFails(c, n) PROVE TypeOK'
  <2>1. tasks' \in TaskStore
    BY <1>8, <1>t, <1>s, SetTaskType DEF StartNodeFails
  <2>2. CallsType' /\ PlansType'
    <3>1. /\ \E rejected \in BOOLEAN :
               AfterStart(c, toStart[c] \ {n}, batch[c] \ {n}, rejected)
          /\ toStart[c] \ {n} \in SUBSET Nodes /\ batch[c] \ {n} \in SUBSET Nodes
      BY <1>8, <1>t DEF StartNodeFails, PlansType
    <3> QED
      BY <3>1, <1>t, AfterStartType
  <2>3. failures' \in 0..MaxStoreFailures /\ hit' \subseteq Calls
    BY <1>8, <1>w DEF StartNodeFails
  <2> QED
    BY <1>8, <1>t, <2>1, <2>2, <2>3 DEF StartNodeFails
<1>16. ASSUME NEW c \in Calls, NEW n \in Nodes, StartNodeThrows(c, n) PROVE TypeOK'
  <2>1. CallsType' /\ PlansType'
    <3>1. /\ AfterStart(c, toStart[c] \ {n}, batch[c] \ {n}, TRUE)
          /\ toStart[c] \ {n} \in SUBSET Nodes /\ batch[c] \ {n} \in SUBSET Nodes
      BY <1>16, <1>t DEF StartNodeThrows, PlansType
    <3> QED
      BY <3>1, <1>t, AfterStartType
  <2> QED
    BY <1>16, <1>t, <2>1 DEF StartNodeThrows
<1>9. ASSUME NEW c \in Calls, NEW n \in Nodes, RefuseNode(c, n) PROVE TypeOK'
  <2>1. tasks' \in TaskStore
    BY <1>9, <1>t, <1>s, SetTaskType DEF RefuseNode
  <2>2. CallsType' /\ PlansType'
    <3>1. /\ \E rejected \in BOOLEAN :
               AfterStart(c, toStart[c] \ {n}, batch[c] \ {n}, rejected)
          /\ toStart[c] \ {n} \in SUBSET Nodes /\ batch[c] \ {n} \in SUBSET Nodes
      BY <1>9, <1>t DEF RefuseNode, PlansType
    <3> QED
      BY <3>1, <1>t, AfterStartType
  <2>3. failures' \in 0..MaxStoreFailures /\ hit' \subseteq Calls
    BY <1>9, <1>w DEF RefuseNode
  <2> QED
    BY <1>9, <1>t, <2>1, <2>2, <2>3 DEF RefuseNode
<1>10. ASSUME NEW c \in Calls, Abandon(c) PROVE TypeOK'
  BY <1>10 DEF TypeOK, Busy, Abandon
<1>11. ASSUME NEW n \in Nodes, WorkerSucceeds(n) PROVE TypeOK'
  <2>1. tasks' \in TaskStore
    BY <1>11, <1>t, CompleteTaskType DEF WorkerSucceeds
  <2>2. CallsType' /\ PlansType'
    BY <1>11, <1>t, SettleType DEF WorkerSucceeds, PlansType
  <2> QED
    BY <1>11, <1>t, <2>1, <2>2 DEF WorkerSucceeds, Written
<1>12. ASSUME NEW n \in Nodes, CompletionLost(n) PROVE TypeOK'
  <2>1. tasks' \in TaskStore
    BY <1>12, <1>t, CompleteTaskType DEF CompletionLost
  <2>2. CallsType' /\ PlansType'
    BY <1>12, <1>t DEF CompletionLost, CallsType, PlansType
  <2>3. failures' \in 0..MaxStoreFailures /\ hit' \subseteq Calls
    BY <1>12, <1>w DEF CompletionLost
  <2> QED
    BY <1>12, <1>t, <2>1, <2>2, <2>3 DEF CompletionLost
<1>13. ASSUME NEW n \in Nodes, Retry(n) PROVE TypeOK'
  BY <1>13 DEF TypeOK, Busy, Retry
<1>14. ASSUME NEW n \in Nodes, GiveUp(n) PROVE TypeOK'
  <2>1. tasks' \in TaskStore
    BY <1>14, <1>t, <1>s, SetTaskType DEF GiveUp
  <2>2. CallsType' /\ PlansType'
    BY <1>14, <1>t, SettleType DEF GiveUp, PlansType
  <2>3. failures' \in 0..MaxStoreFailures /\ hit' \subseteq Calls
    BY <1>14, <1>w DEF GiveUp
  <2> QED
    BY <1>14, <1>t, <2>1, <2>2, <2>3 DEF GiveUp
<1>15. ASSUME NEW n \in Nodes, LastCompletionLost(n) PROVE TypeOK'
  <2>1. tasks' \in TaskStore
    <3>1. CompleteTask(n) \in TaskStore
      BY <1>t, CompleteTaskType
    <3> QED
      BY <1>15, <3>1, <1>s DEF LastCompletionLost, TaskStore
  <2>2. CallsType' /\ PlansType'
    BY <1>15, <1>t, SettleType DEF LastCompletionLost, PlansType
  <2>3. failures' \in 0..MaxStoreFailures /\ hit' \subseteq Calls
    BY <1>15, <1>w DEF LastCompletionLost
  <2> QED
    BY <1>15, <1>t, <2>1, <2>2, <2>3 DEF LastCompletionLost
<1> QED
  BY <1>1, <1>2, <1>3, <1>4, <1>5, <1>6, <1>7, <1>8, <1>9, <1>10, <1>11, <1>12,
     <1>13, <1>14, <1>15, <1>16 DEF Next, Step, WorkerEnds

\* A fresh run has the types.
LEMMA TypeInit == Init => TypeOK
<1> SUFFICES ASSUME Init PROVE TypeOK
  OBVIOUS
<1>1. PICK old \in [Leftover -> OldTasks] :
        /\ tasks = [n \in Nodes |->
             IF n \in Leftover
               THEN [status |-> old[n].status, blockedBy |-> old[n].blockedBy] ELSE NoTask]
        /\ dependencies = [n \in Nodes |-> IF n \in Leftover THEN old[n].dependencies ELSE {}]
        /\ blank = {n \in Leftover : old[n].blank}
  BY DEF Init
<1>2. ASSUME NEW n \in Leftover
      PROVE  /\ old[n].status \in TaskStates /\ old[n].blockedBy \in SUBSET Nodes
             /\ old[n].dependencies \in SUBSET Nodes
  BY <1>1, PlanAssumption
<1>3. tasks \in TaskStore /\ dependencies \in [Nodes -> SUBSET Nodes] /\ blank \subseteq Nodes
  BY <1>1, <1>2, PlanAssumption DEF TaskStore, NoTask, TaskStates
<1> QED
  BY <1>3, PlanAssumption DEF Init, TypeOK, Busy, TaskStore

\* Every variable keeps its type.
THEOREM TypeCorrect == Spec => []TypeOK
<1>1. QED
  BY TypeInit, TypeStep, PTL DEF Spec

-----------------------------------------------------------------------------
(* The inductive invariant *)

Starting == {"starting", "failing"}
Thrown == {"failing", "thrown"}

\* What a call's batch holds, and when there is one.
BatchOf(c) ==
  /\ toStart[c] \subseteq batch[c]
  /\ batch[c] \subseteq NodesOf(c)
  /\ call[c] \notin Starting => toStart[c] = {}
  /\ call[c] \in {"none", "looping", "returned"} => batch[c] = {}
  /\ \A m, n \in batch[c] : m # n => ~Conflict(m, n)
  /\ call[c] \in Thrown => c \in hit \cup refused \/ NodesOf(c) \cap blank # {}

\* Workers are the nodes of the batch that map() has reached; a node it has
\* not reached may start; one that runs without a worker has lost its run.
WorkOf(n) ==
  /\ worker[n] <=> n \in batch[CallOf[n]] \ toStart[CallOf[n]]
  /\ worker[n] => status[n] = "running" \/ (status[n] = "completed" /\ n \in redone)
  /\ n \in toStart[CallOf[n]] =>
       status[n] = "pending" /\ \A d \in Deps[n] : status[d] = "completed" /\ ~worker[d]
  /\ status[n] = "running" => worker[n] \/ call[CallOf[n]] \in Thrown

\* Results are those of nodes that ended.
ResultOf(n) ==
  /\ n \in outputs => status[n] = "completed" \/ n \in redone
  /\ n \in errors <=> status[n] \in {"failed", "blocked"}
  /\ status[n] = "completed" => n \in outputs
  /\ call[CallOf[n]] = "returned" => status[n] \in {"completed", "failed", "blocked"}

IInv ==
  /\ TypeOK
  /\ ~Cyclic(dependencies)
  /\ \A c \in Calls : BatchOf(c)
  /\ \A n \in Nodes : WorkOf(n) /\ ResultOf(n)

\* It holds at first.
LEMMA InvInit == Init => IInv
<1> SUFFICES ASSUME Init PROVE IInv
  OBVIOUS
<1>1. TypeOK
  BY TypeInit
<1>2. ~Cyclic(dependencies)
  BY DEF Init
<1> QED
  BY <1>1, <1>2, PlanAssumption
     DEF Init, IInv, BatchOf, WorkOf, ResultOf, NodesOf, Starting, Thrown

\* Nothing is left to start in a call that is not starting nodes.
LEMMA QuietCalls ==
  ASSUME Quiet, NEW n \in Nodes
  PROVE  call[CallOf[n]] \notin Busy
  BY PlanAssumption DEF Quiet

\* The members of a batch were chosen against each other.
LEMMA BatchCompatible ==
  ASSUME NEW c \in Calls, NEW B, IsBatch(c, B), NEW m \in B, NEW n \in B, m # n
  PROVE  ~Conflict(m, n)
<1>1. m \in Ready(c) /\ n \in Ready(c) /\ m \in Nodes /\ n \in Nodes
  BY DEF IsBatch, Ready, Pending, NodesOf
<1>2. Rank[m] < Rank[n] \/ Rank[n] < Rank[m]
  BY <1>1, PlanAssumption
<1>3. m \in Before(B, n) \/ n \in Before(B, m)
  BY <1>2 DEF Before
<1>4. ~Conflict(m, n) \/ ~Conflict(n, m)
  BY <1>1, <1>3 DEF IsBatch
<1> QED
  BY <1>1, <1>4, PlanAssumption DEF Conflict

\* createTask() lets no cycle in, and nothing else links tasks.
LEMMA AcyclicStep == ~Cyclic(dependencies) /\ [Next]_vars => ~Cyclic(dependencies')
<1> SUFFICES ASSUME ~Cyclic(dependencies), [Next]_vars PROVE ~Cyclic(dependencies')
  OBVIOUS
<1>1. ASSUME NEW c \in Calls, Begin(c) \/ BeginFails(c) \/ BeginCyclic(c)
      PROVE  ~Cyclic(dependencies')
  <2>1. \E N : ~Cyclic(Linked(N)) /\ dependencies' = Linked(N)
    BY <1>1 DEF Begin, BeginFails, BeginCyclic, Create
  <2> QED
    BY <2>1
<1>2. CASE UNCHANGED dependencies
  BY <1>2
<1>3. \/ \E c \in Calls : Begin(c) \/ BeginFails(c) \/ BeginCyclic(c)
      \/ UNCHANGED dependencies
  <2> USE DEF known
  <2>1. CASE UNCHANGED vars
    BY <2>1 DEF vars
  <2>2. ASSUME NEW c \in Calls, SelectBatch(c) \/ Return(c) \/ Abandon(c)
        PROVE  UNCHANGED dependencies
    BY <2>2 DEF SelectBatch, Return, Abandon
  <2>3. ASSUME NEW c \in Calls, NEW n \in Nodes,
               BlockDescendant(c, n) \/ StartNode(c, n) \/ StartNodeThrows(c, n)
                 \/ StartNodeFails(c, n) \/ RefuseNode(c, n)
        PROVE  UNCHANGED dependencies
    BY <2>3 DEF BlockDescendant, StartNode, StartNodeThrows, StartNodeFails, RefuseNode
  <2>4. ASSUME NEW n \in Nodes, WorkerEnds(n) PROVE UNCHANGED dependencies
    BY <2>4 DEF WorkerEnds, WorkerSucceeds, CompletionLost, Retry, GiveUp, LastCompletionLost
  <2> QED
    BY <2>1, <2>2, <2>3, <2>4 DEF Next, Step
<1> QED
  BY <1>1, <1>2, <1>3

\* Every step keeps the invariant.
LEMMA InvStep == IInv /\ [Next]_vars => IInv'
<1> SUFFICES ASSUME IInv, [Next]_vars
             PROVE  /\ \A c \in Calls : BatchOf(c)'
                    /\ \A n \in Nodes : WorkOf(n)' /\ ResultOf(n)'
  BY TypeStep, AcyclicStep DEF IInv
<1> DEFINE Goal == /\ \A c \in Calls : BatchOf(c)'
                   /\ \A n \in Nodes : WorkOf(n)' /\ ResultOf(n)'
<1> USE PlanAssumption DEF IInv, TypeOK, BatchOf, WorkOf, ResultOf, NodesOf,
        Starting, Thrown, Busy, nodeVars, known
<1>1. CASE UNCHANGED vars
  BY <1>1 DEF vars
<1>2. ASSUME NEW c \in Calls, Begin(c) PROVE Goal
  BY <1>2 DEF Begin, Create, Written
<1>3. ASSUME NEW c \in Calls, BeginFails(c) PROVE Goal
  BY <1>3 DEF BeginFails, Create, NotWritten
<1>17. ASSUME NEW c \in Calls, BeginCyclic(c) PROVE Goal
  BY <1>17 DEF BeginCyclic, Create, Written
<1>4. ASSUME NEW c \in Calls, SelectBatch(c) PROVE Goal
  BY <1>4, BatchCompatible DEF SelectBatch, Ready, Pending
<1>5. ASSUME NEW c \in Calls, Return(c) PROVE Goal
  BY <1>5 DEF Return, Answer, Pending
<1>6. ASSUME NEW c \in Calls, NEW n \in Nodes, BlockDescendant(c, n) PROVE Goal
  BY <1>6 DEF BlockDescendant, Blockable, Pending, Refused, Answer, Written, NotWritten
<1>7. ASSUME NEW c \in Calls, NEW n \in Nodes, StartNode(c, n) PROVE Goal
  BY <1>7 DEF StartNode, NextToStart, AfterStart, Answer, Written
<1>16. ASSUME NEW c \in Calls, NEW n \in Nodes, StartNodeThrows(c, n) PROVE Goal
  BY <1>16 DEF StartNodeThrows, Refused, NextToStart, AfterStart, Answer
<1>8. ASSUME NEW c \in Calls, NEW n \in Nodes, StartNodeFails(c, n) PROVE Goal
  BY <1>8 DEF StartNodeFails, NextToStart, AfterStart, Answer, NotWritten
<1>9. ASSUME NEW c \in Calls, NEW n \in Nodes, RefuseNode(c, n) PROVE Goal
  <2>1. CASE Written /\ AfterStart(c, toStart[c] \ {n}, batch[c] \ {n}, call[c] = "failing")
    BY <1>9, <2>1 DEF RefuseNode, NextToStart, AfterStart, Answer, Written
  <2>2. CASE NotWritten(c) /\ AfterStart(c, toStart[c] \ {n}, batch[c] \ {n}, TRUE)
    BY <1>9, <2>2 DEF RefuseNode, NextToStart, AfterStart, Answer, NotWritten
  <2> QED
    BY <1>9, <2>1, <2>2 DEF RefuseNode
<1>10. ASSUME NEW c \in Calls, Abandon(c) PROVE Goal
  BY <1>10 DEF Abandon
<1>11. ASSUME NEW n \in Nodes, WorkerSucceeds(n) PROVE Goal
  BY <1>11, QuietCalls DEF WorkerSucceeds, Settle, Answer, Written
<1>12. ASSUME NEW n \in Nodes, CompletionLost(n) PROVE Goal
  BY <1>12, QuietCalls DEF CompletionLost, NotWritten
<1>13. ASSUME NEW n \in Nodes, Retry(n) PROVE Goal
  BY <1>13 DEF Retry
<1>14. ASSUME NEW n \in Nodes, GiveUp(n) PROVE Goal
  <2>1. CASE Written /\ Settle(n, FALSE)
    BY <1>14, <2>1, QuietCalls DEF GiveUp, Settle, Answer, Written
  <2>2. CASE NotWritten(CallOf[n]) /\ Settle(n, TRUE)
    BY <1>14, <2>2, QuietCalls DEF GiveUp, Settle, Answer, NotWritten
  <2> QED
    BY <1>14, <2>1, <2>2 DEF GiveUp
<1>15. ASSUME NEW n \in Nodes, LastCompletionLost(n) PROVE Goal
  BY <1>15, QuietCalls DEF LastCompletionLost, Settle, Answer, NotWritten
<1> QED
  BY <1>1, <1>2, <1>3, <1>4, <1>5, <1>6, <1>7, <1>8, <1>9, <1>10, <1>11, <1>12,
     <1>13, <1>14, <1>15, <1>16, <1>17 DEF Next, Step, WorkerEnds

\* The invariant holds throughout.
LEMMA Invariant == Spec => []IInv
<1>1. QED
  BY InvInit, InvStep, PTL DEF Spec

-----------------------------------------------------------------------------
(* What every orchestration promises *)

\* No two workers of one plan have overlapping scopes: workers come from one
\* batch, whose members were compared with each other.
THEOREM Serialized == Spec => []ScopesSerialized
<1>1. IInv => ScopesSerialized
  BY PlanAssumption DEF IInv, BatchOf, WorkOf, ScopesSerialized, Active
<1> QED
  BY <1>1, Invariant, PTL

\* Among the pending nodes of a plan one depends on no other, because there
\* is no cycle; it is runnable, or blocked by what it depends on.
THEOREM AlwaysRunnable == Spec => []NeverDeadlocks
<1>1. ASSUME IInv PROVE NeverDeadlocks
  <2> USE <1>1 DEF IInv, BatchOf, WorkOf, Thrown
  <2>1. ASSUME NEW c \in Calls, call[c] = "looping", Pending(c) # {}
        PROVE  Blockable(c) # {} \/ Ready(c) # {}
    <3>1. PICK n \in Pending(c) : Deps[n] \cap Pending(c) = {}
      BY <2>1, PlanAssumption DEF Cyclic, Pending, NodesOf
    <3>2. n \in Nodes /\ CallOf[n] = c
      BY <3>1 DEF Pending, NodesOf
    <3>3. ASSUME NEW d \in Deps[n]
          PROVE  status[d] \in {"completed", "failed", "blocked"}
      <4>1. d \in Nodes /\ CallOf[d] = c /\ status[d] # "pending"
        BY <3>1, <3>2, PlanAssumption DEF Pending, NodesOf
      <4>2. status[d] # "running"
        BY <2>1, <4>1
      <4> QED
        BY <4>1, <4>2 DEF TypeOK
    <3> QED
      BY <3>1, <3>2, <3>3 DEF Blockable, Ready
  <2>2. ASSUME NEW c \in Calls, call[c] = "thrown"
        PROVE  c \in hit \cup refused \/ NodesOf(c) \cap blank # {}
    BY <2>2
  <2> QED
    BY <2>1, <2>2 DEF NeverDeadlocks
<1> QED
  BY <1>1, Invariant, PTL

\* A run that returns has left nothing pending or running, and results are
\* those of nodes that ended.
THEOREM AllAccounted == Spec => []EveryNodeAccounted
<1>1. IInv => EveryNodeAccounted
  BY PlanAssumption DEF IInv, TypeOK, ResultOf, EveryNodeAccounted, NodesOf
<1> QED
  BY <1>1, Invariant, PTL

-----------------------------------------------------------------------------
(* The task store *)

\* What tasks show of nodes, and that a call not made yet has no result.
MirrorInv ==
  /\ TasksMirrorNodes
  /\ \A n \in Nodes : call[CallOf[n]] = "none" => status[n] = "pending" /\ n \notin redone

\* The part of the mirror about one task, for a given state of its node.
Mirrors(n, s, t, blockers, done, again, empty) ==
  /\ n \notin empty =>
       /\ s = "running" => t = "in_progress" \/ (t = "done" /\ n \in again)
       /\ s = "blocked" => t = "blocked"
  /\ s = "completed" => t = "done"
  /\ s = "failed" => t = "error"
  /\ s = "pending" /\ n \notin Leftover /\ t # "absent" =>
       /\ blockers = {d \in Deps[n] : d \notin done}
       /\ t = IF blockers = {} THEN "ready" ELSE "pending"

\* The mirror task by task, now and after a step.
LEMMA MirrorDef ==
  /\ TasksMirrorNodes <=> \A n \in Nodes :
       Mirrors(n, status[n], tasks[n].status, tasks[n].blockedBy, outputs, redone, blank)
  /\ TasksMirrorNodes' <=> \A n \in Nodes :
       Mirrors(n, status'[n], tasks'[n].status, tasks'[n].blockedBy, outputs', redone', blank')
  BY DEF TasksMirrorNodes, Mirrors

\* A task of another status keeps the other tasks.
LEMMA SetTaskFields ==
  ASSUME tasks \in TaskStore, NEW n \in Nodes, NEW s \in TaskStates, NEW m \in Nodes
  PROVE  /\ SetTask(n, s)[m].status = IF m = n THEN s ELSE tasks[m].status
         /\ SetTask(n, s)[m].blockedBy = tasks[m].blockedBy
  BY DEF TaskStore, SetTask

\* A completed task unblocks those that wait for it.
LEMMA CompleteTaskFields ==
  ASSUME tasks \in TaskStore, NEW n \in Nodes, NEW m \in Nodes
  PROVE  /\ m = n => CompleteTask(n)[m].status = "done"
         /\ m # n =>
              /\ CompleteTask(n)[m].blockedBy = tasks[m].blockedBy \ {n}
              /\ CompleteTask(n)[m].status =
                   IF tasks[m].blockedBy = {n} /\ tasks[m].status = "pending"
                     THEN "ready" ELSE tasks[m].status
<1>1. CASE m = n
  BY <1>1 DEF TaskStore, CompleteTask
<1>2. CASE m # n
  BY <1>2 DEF TaskStore, CompleteTask
<1> QED
  BY <1>1, <1>2

\* Only the node a store operation is for, and the results, change.
LEMMA SetTaskMirrors ==
  ASSUME IInv, TasksMirrorNodes, NEW n \in Nodes, NEW s,
         \/ s = "running" /\ tasks' = SetTask(n, "in_progress")
         \/ s = "failed" /\ tasks' = SetTask(n, "error")
         \/ s = "blocked" /\ tasks' = SetTask(n, "blocked"),
         status' = [status EXCEPT ![n] = s], UNCHANGED <<outputs, redone, blank>>
  PROVE  TasksMirrorNodes'
<1>1. tasks \in TaskStore /\ DOMAIN status = Nodes
  BY DEF IInv, TypeOK, TaskStore
<1>2. ASSUME NEW m \in Nodes
      PROVE  Mirrors(m, status'[m], tasks'[m].status, tasks'[m].blockedBy, outputs', redone', blank')
  <2>1. CASE m = n
    <3>1. /\ status'[m] = s
          /\ \/ s = "running" /\ tasks'[m].status = "in_progress"
             \/ s = "failed" /\ tasks'[m].status = "error"
             \/ s = "blocked" /\ tasks'[m].status = "blocked"
      BY <1>1, <2>1, SetTaskFields DEF TaskStates
    <3> QED
      BY <3>1 DEF Mirrors
  <2>2. CASE m # n
    <3>1. /\ status'[m] = status[m]
          /\ tasks'[m].status = tasks[m].status
          /\ tasks'[m].blockedBy = tasks[m].blockedBy
      BY <1>1, <2>2, SetTaskFields DEF TaskStates
    <3>2. Mirrors(m, status[m], tasks[m].status, tasks[m].blockedBy, outputs, redone, blank)
      BY MirrorDef
    <3> QED
      BY <3>1, <3>2
  <2> QED
    BY <2>1, <2>2
<1> QED
  BY <1>2, MirrorDef

\* A completion, whether its write is lost or not, takes the node off the
\* tasks that wait for it.
LEMMA CompleteTaskMirrors ==
  ASSUME IInv, TasksMirrorNodes, NEW n \in Nodes, worker[n], NEW s,
         \/ s = "completed" /\ tasks' = CompleteTask(n)
         \/ s = "failed" /\ tasks' = [CompleteTask(n) EXCEPT ![n].status = "error"],
         status' = [status EXCEPT ![n] = s],
         outputs' = outputs \cup {n}, redone \subseteq redone', UNCHANGED blank
  PROVE  TasksMirrorNodes'
<1>t. tasks \in TaskStore /\ DOMAIN status = Nodes
  BY DEF IInv, TypeOK, TaskStore
<1>1. tasks \in TaskStore /\ DOMAIN status = Nodes /\ CompleteTask(n) \in TaskStore
  BY <1>t, CompleteTaskType
<1>2. ASSUME NEW m \in Nodes
      PROVE  Mirrors(m, status'[m], tasks'[m].status, tasks'[m].blockedBy, outputs', redone', blank')
  <2>1. CASE m = n
    <3>1. /\ status'[m] = s
          /\ \/ s = "completed" /\ tasks'[m].status = "done"
             \/ s = "failed" /\ tasks'[m].status = "error"
      <4>1. CASE s = "completed" /\ tasks' = CompleteTask(n)
        BY <1>1, <2>1, <4>1, CompleteTaskFields
      <4>2. CASE s = "failed" /\ tasks' = [CompleteTask(n) EXCEPT ![n].status = "error"]
        BY <1>1, <2>1, <4>2 DEF TaskStore
      <4> QED
        BY <4>1, <4>2
    <3> QED
      BY <3>1 DEF Mirrors
  <2>2. CASE m # n
    <3>1. tasks'[m] = CompleteTask(n)[m]
      BY <1>1, <2>2 DEF TaskStore
    <3>2. /\ status'[m] = status[m]
          /\ tasks'[m].blockedBy = tasks[m].blockedBy \ {n}
          /\ tasks'[m].status = IF tasks[m].blockedBy = {n} /\ tasks[m].status = "pending"
                                  THEN "ready" ELSE tasks[m].status
      BY <1>1, <2>2, <3>1, CompleteTaskFields
    <3>3. Mirrors(m, status[m], tasks[m].status, tasks[m].blockedBy, outputs, redone, blank)
      BY MirrorDef
    <3>4. m \in redone => m \in redone'
      OBVIOUS
    <3> QED
      BY <3>2, <3>3, <3>4 DEF Mirrors
  <2> QED
    BY <2>1, <2>2
<1> QED
  BY <1>2, MirrorDef

\* The tasks of a plan are created before any of its nodes has a result.
LEMMA CreateTasksMirrors ==
  ASSUME IInv, MirrorInv, NEW c \in Calls, call[c] = "none",
         NEW N \in SUBSET NodesOf(c), Create(N), UNCHANGED <<status, outputs, redone>>
  PROVE  TasksMirrorNodes'
<1>1. ASSUME NEW m \in Nodes
      PROVE  Mirrors(m, status'[m], tasks'[m].status, tasks'[m].blockedBy, outputs', redone', blank')
  <2>0. Mirrors(m, status[m], tasks[m].status, tasks[m].blockedBy, outputs, redone, blank)
    BY MirrorDef DEF MirrorInv
  <2>1. CASE m \in N /\ tasks[m].status = "absent"
    <3>1. CallOf[m] = c /\ status[m] = "pending"
      BY <2>1 DEF NodesOf, MirrorInv
    <3>2. \A d \in Deps[m] : d \notin outputs
      <4> SUFFICES ASSUME NEW d \in Deps[m] PROVE d \notin outputs
        OBVIOUS
      <4>1. d \in Nodes /\ CallOf[d] = c
        BY <3>1, PlanAssumption
      <4>2. status[d] = "pending" /\ d \notin redone
        BY <4>1 DEF MirrorInv
      <4> QED
        BY <4>1, <4>2 DEF IInv, ResultOf
    <3>3. tasks'[m] = [status |-> IF Deps[m] = {} THEN "ready" ELSE "pending",
                       blockedBy |-> Deps[m]]
      BY <2>1 DEF Create, CreateTasks, Unknown
    <3>4. Deps[m] = {d \in Deps[m] : d \notin outputs}
      BY <3>2
    <3> QED
      BY <3>1, <3>3, <3>4 DEF Mirrors
  <2>2. CASE ~(m \in N /\ tasks[m].status = "absent")
    <3>1. tasks'[m] = tasks[m] /\ (m \notin blank' => m \notin blank)
      BY <2>2 DEF Create, CreateTasks, Unknown
    <3> QED
      BY <2>0, <3>1 DEF Mirrors
  <2> QED
    BY <2>1, <2>2
<1> QED
  BY <1>1, MirrorDef

\* A call whose nodes start or settle has been made.
LEMMA AfterStartCall ==
  ASSUME NEW c \in Calls, NEW left, NEW waiting, NEW rejected \in BOOLEAN,
         AfterStart(c, left, waiting, rejected)
  PROVE  \E to \in CallStates \ {"none"} : call' = [call EXCEPT ![c] = to]
<1>1. CASE left = {} /\ rejected
  <2>1. Answer(c, "thrown")
    BY <1>1 DEF AfterStart
  <2> QED
    BY <2>1 DEF Answer, CallStates
<1>2. CASE left # {} \/ ~rejected
  BY <1>2 DEF AfterStart, CallStates, Busy
<1> QED
  BY <1>1, <1>2

\* A node that settles moves its call on or leaves it.
LEMMA SettleCall ==
  ASSUME NEW n \in Nodes, NEW rejected \in BOOLEAN, Settle(n, rejected)
  PROVE  call' = call \/ \E to \in CallStates \ {"none"} : call' = [call EXCEPT ![CallOf[n]] = to]
<1>1. CASE call[CallOf[n]] = "awaiting" /\ rejected
  <2>1. Answer(CallOf[n], "thrown")
    BY <1>1 DEF Settle
  <2> QED
    BY <2>1 DEF Answer, CallStates
<1>2. CASE ~(call[CallOf[n]] = "awaiting" /\ rejected)
  BY <1>2 DEF Settle, CallStates, Busy
<1> QED
  BY <1>1, <1>2

\* Every step keeps the mirror.
LEMMA MirrorStep == IInv /\ MirrorInv /\ [Next]_vars => MirrorInv'
<1> SUFFICES ASSUME IInv, MirrorInv, [Next]_vars PROVE MirrorInv'
  OBVIOUS
<1> USE PlanAssumption DEF nodeVars, known
<1>k. ASSUME UNCHANGED <<status, tasks, outputs, redone, blank>> PROVE TasksMirrorNodes'
  BY <1>k DEF MirrorInv, TasksMirrorNodes
<1>1. CASE UNCHANGED vars
  BY <1>1 DEF vars, MirrorInv, TasksMirrorNodes
<1>2. ASSUME NEW c \in Calls, Begin(c) \/ BeginFails(c) \/ BeginCyclic(c) PROVE MirrorInv'
  <2>1. TasksMirrorNodes'
    <3>1. /\ call[c] = "none" /\ UNCHANGED <<status, outputs, redone>>
          /\ \E N \in SUBSET NodesOf(c) : Create(N)
      BY <1>2 DEF Begin, BeginFails, BeginCyclic, UpTo
    <3> QED
      BY <3>1, CreateTasksMirrors
  <2> QED
    BY <1>2, <2>1 DEF Begin, BeginFails, BeginCyclic, MirrorInv, IInv, TypeOK
<1>3. ASSUME NEW c \in Calls, SelectBatch(c) \/ Return(c) \/ Abandon(c) PROVE MirrorInv'
  BY <1>3, <1>k DEF SelectBatch, Return, Abandon, Answer, MirrorInv, IInv, TypeOK
<1>b. ASSUME NEW n \in Nodes, NEW s \in {"running", "blocked"}, n \in blank,
             status[n] = "pending", status' = [status EXCEPT ![n] = s],
             UNCHANGED <<tasks, outputs, redone, blank>>
      PROVE  TasksMirrorNodes'
  BY <1>b DEF MirrorInv, TasksMirrorNodes, IInv, TypeOK
<1>4. ASSUME NEW c \in Calls, NEW n \in Nodes, BlockDescendant(c, n) PROVE MirrorInv'
  <2>1. TasksMirrorNodes'
    <3>1. CASE Refused(n)
      <4>1. n \in blank /\ status[n] = "pending"
        BY <1>4, <3>1 DEF IInv, Refused, BlockDescendant, Blockable, Pending
      <4> QED
        BY <1>4, <1>b, <3>1, <4>1 DEF BlockDescendant
    <3>2. CASE ~Refused(n)
      BY <1>4, <3>2, SetTaskMirrors DEF BlockDescendant, MirrorInv
    <3> QED
      BY <3>1, <3>2
  <2>2. CallOf[n] = c /\ call[c] # "none"
    BY <1>4 DEF BlockDescendant, Blockable, Pending, NodesOf
  <2> QED
    BY <1>4, <2>1, <2>2 DEF BlockDescendant, Answer, MirrorInv, IInv, TypeOK
<1>5. ASSUME NEW c \in Calls, NEW n \in Nodes,
             StartNode(c, n) \/ StartNodeThrows(c, n) \/ StartNodeFails(c, n) \/ RefuseNode(c, n)
      PROVE  MirrorInv'
  <2>1. /\ NextToStart(c, n) /\ UNCHANGED <<outputs, redone, blank>>
        /\ \/ status' = [status EXCEPT ![n] = "running"] /\ tasks' = SetTask(n, "in_progress")
           \/ status' = [status EXCEPT ![n] = "failed"] /\ tasks' = SetTask(n, "error")
           \/ Refused(n) /\ status' = [status EXCEPT ![n] = "running"] /\ UNCHANGED tasks
        /\ \E left, waiting : \E rejected \in BOOLEAN : AfterStart(c, left, waiting, rejected)
    BY <1>5 DEF StartNode, StartNodeThrows, StartNodeFails, RefuseNode
  <2>2. TasksMirrorNodes'
    <3>1. CASE Refused(n) /\ status' = [status EXCEPT ![n] = "running"] /\ UNCHANGED tasks
      <4>1. n \in blank /\ status[n] = "pending"
        BY <2>1, <3>1 DEF IInv, BatchOf, WorkOf, NodesOf, Refused, NextToStart
      <4> QED
        BY <1>b, <2>1, <3>1, <4>1
    <3> QED
      BY <2>1, <3>1, SetTaskMirrors DEF MirrorInv
  <2>3. CallOf[n] = c /\ call[c] # "none"
    BY <2>1 DEF NextToStart, IInv, BatchOf, NodesOf
  <2>4. \E to \in CallStates \ {"none"} : call' = [call EXCEPT ![c] = to]
    BY <2>1, AfterStartCall
  <2> QED
    BY <2>1, <2>2, <2>3, <2>4 DEF MirrorInv, IInv, TypeOK
<1>6. ASSUME NEW n \in Nodes,
             WorkerSucceeds(n) \/ CompletionLost(n) \/ GiveUp(n) \/ LastCompletionLost(n)
      PROVE  MirrorInv'
  <2>1. TasksMirrorNodes'
    <3>1. CASE WorkerSucceeds(n) \/ CompletionLost(n) \/ LastCompletionLost(n)
      <4>1. /\ worker[n] /\ outputs' = outputs \cup {n} /\ redone \subseteq redone'
            /\ UNCHANGED blank
            /\ \/ status' = [status EXCEPT ![n] = "completed"] /\ tasks' = CompleteTask(n)
               \/ status' = [status EXCEPT ![n] = "failed"]
                    /\ tasks' = [CompleteTask(n) EXCEPT ![n].status = "error"]
        BY <3>1 DEF WorkerSucceeds, CompletionLost, LastCompletionLost
      <4> QED
        BY <4>1, CompleteTaskMirrors DEF MirrorInv
    <3>2. CASE GiveUp(n)
      BY <3>2, SetTaskMirrors DEF GiveUp, MirrorInv
    <3> QED
      BY <1>6, <3>1, <3>2
  <2>2. /\ call[CallOf[n]] # "none" /\ CallOf[n] \in Calls
    BY <1>6 DEF WorkerSucceeds, CompletionLost, GiveUp, LastCompletionLost, IInv, BatchOf, WorkOf
  <2>3. \A m \in Nodes : m # n => status'[m] = status[m] /\ (m \in redone' => m \in redone)
    <3>1. /\ redone' \subseteq redone \cup {n}
          /\ \E s : status' = [status EXCEPT ![n] = s]
      BY <1>6 DEF WorkerSucceeds, CompletionLost, GiveUp, LastCompletionLost
    <3> QED
      BY <3>1 DEF IInv, TypeOK
  <2>4. call' = call \/ \E to \in CallStates \ {"none"} : call' = [call EXCEPT ![CallOf[n]] = to]
    <3>1. (\E rejected \in BOOLEAN : Settle(n, rejected)) \/ call' = call
      BY <1>6 DEF WorkerSucceeds, CompletionLost, GiveUp, LastCompletionLost
    <3> QED
      BY <3>1, SettleCall
  <2>5. ASSUME NEW m \in Nodes, call'[CallOf[m]] = "none"
        PROVE  m # n /\ call[CallOf[m]] = "none"
    BY <2>2, <2>4, <2>5 DEF IInv, TypeOK
  <2>6. ASSUME NEW m \in Nodes, call'[CallOf[m]] = "none"
        PROVE  status'[m] = "pending" /\ m \notin redone'
    BY <2>3, <2>5, <2>6 DEF MirrorInv
  <2> QED
    BY <2>1, <2>6 DEF MirrorInv
<1>7. ASSUME NEW n \in Nodes, Retry(n) PROVE MirrorInv'
  BY <1>7, <1>k DEF Retry, MirrorInv
<1> QED
  BY <1>1, <1>2, <1>3, <1>4, <1>5, <1>6, <1>7 DEF Next, Step, WorkerEnds

\* The task store shows the state of every node, and of a waiting one exactly
\* the dependencies that have not completed.
THEOREM StoreMirrors == Spec => []TasksMirrorNodes
<1>1. Init => MirrorInv
  BY PlanAssumption DEF Init, MirrorInv, TasksMirrorNodes, NoTask
<1>2. MirrorInv => TasksMirrorNodes
  BY DEF MirrorInv
<1> QED
  BY <1>1, <1>2, MirrorStep, Invariant, PTL DEF Spec

-----------------------------------------------------------------------------
(* The refinement *)

\* Every step of the orchestration is a step of the graph, or none.
LEMMA GraphStep == IInv /\ [Next]_vars => [Graph!Next]_NodeState
<1> SUFFICES ASSUME IInv, [Next]_vars PROVE [Graph!Next]_NodeState
  OBVIOUS
<1> USE PlanAssumption DEF IInv, TypeOK, BatchOf, WorkOf, Starting, Thrown, Busy, nodeVars, known
<1>1. CASE UNCHANGED vars
  BY <1>1 DEF vars, NodeState
<1>2. ASSUME NEW c \in Calls, Begin(c) \/ BeginFails(c) \/ BeginCyclic(c) \/ SelectBatch(c) \/ Return(c) \/ Abandon(c)
      PROVE  UNCHANGED NodeState
  BY <1>2 DEF Begin, BeginFails, BeginCyclic, SelectBatch, Return, Abandon, NodeState
<1>r. ASSUME NEW c \in Calls, NEW n \in Nodes, NextToStart(c, n)
      PROVE  /\ NodeState[n] = "pending"
             /\ \A d \in Deps[n] : NodeState[d] = "completed"
  <2>1. n \in toStart[CallOf[n]]
    BY <1>r DEF NextToStart, NodesOf
  <2>2. status[n] = "pending" /\ ~worker[n]
    BY <2>1
  <2>3. \A d \in Deps[n] : status[d] = "completed" /\ ~worker[d]
    BY <2>1
  <2> QED
    BY <2>2, <2>3 DEF NodeState
<1>3. ASSUME NEW c \in Calls, NEW n \in Nodes, BlockDescendant(c, n)
      PROVE  Graph!Block(n)
  <2>1. PICK d \in Deps[n] : status[d] \in {"failed", "blocked"}
    BY <1>3 DEF BlockDescendant, Blockable
  <2>2. /\ d \in Nodes /\ CallOf[n] = c /\ CallOf[d] = c
        /\ status[n] = "pending" /\ batch[c] = {}
    BY <1>3, <2>1 DEF BlockDescendant, Blockable, Pending, NodesOf
  <2>3. NodeState[n] = "pending" /\ NodeState[d] \in {"failed", "blocked"}
    BY <2>1, <2>2 DEF NodeState
  <2>4. NodeState' = [NodeState EXCEPT ![n] = "blocked"]
    BY <1>3, <2>2 DEF BlockDescendant, NodeState
  <2> QED
    BY <2>3, <2>4 DEF Graph!Block, Graph!Lost, Graph!Move
<1>4. ASSUME NEW c \in Calls, NEW n \in Nodes, StartNode(c, n) \/ StartNodeThrows(c, n) \/ StartNodeFails(c, n)
      PROVE  Graph!Run(n)
  <2>1. NextToStart(c, n)
    BY <1>4 DEF StartNode, StartNodeThrows, StartNodeFails
  <2>2. NodeState' = [NodeState EXCEPT ![n] = "running"]
    <3>1. CASE StartNode(c, n)
      BY <3>1 DEF StartNode, NodeState
    <3>2. CASE StartNodeFails(c, n)
      BY <3>2 DEF StartNodeFails, NodeState
    <3>3. CASE StartNodeThrows(c, n)
      BY <3>3 DEF StartNodeThrows, NodeState
    <3> QED
      BY <1>4, <3>1, <3>2, <3>3
  <2> QED
    BY <1>r, <2>1, <2>2 DEF Graph!Run, Graph!Runnable, Graph!Move
<1>5. ASSUME NEW c \in Calls, NEW n \in Nodes, RefuseNode(c, n)
      PROVE  Graph!Refuse(n)
  <2>1. NextToStart(c, n)
    BY <1>5 DEF RefuseNode
  <2>2. ~worker[n]
    BY <2>1, <1>r DEF NodeState
  <2>3. NodeState' = [NodeState EXCEPT ![n] = "failed"]
    <3>1. status' = [status EXCEPT ![n] = "failed"] /\ worker' = worker
      BY <1>5 DEF RefuseNode
    <3>2. NodeState' = [m \in Nodes |-> IF worker[m] THEN "running" ELSE status'[m]]
      BY <3>1, Zenon DEF NodeState
    <3>3. ASSUME NEW m \in Nodes
          PROVE  (IF worker[m] THEN "running" ELSE status'[m])
                    = IF m = n THEN "failed" ELSE NodeState[m]
      BY <2>2, <3>1 DEF NodeState
    <3>4. NodeState' = [m \in Nodes |-> IF m = n THEN "failed" ELSE NodeState[m]]
      BY <3>2, <3>3, Zenon
    <3>5. NodeState = [m \in Nodes |-> NodeState[m]]
      BY DEF NodeState
    <3> QED
      BY <3>4, <3>5
  <2> QED
    BY <1>r, <2>1, <2>3 DEF Graph!Refuse, Graph!Runnable, Graph!Move
<1>6. ASSUME NEW n \in Nodes, WorkerSucceeds(n) \/ GiveUp(n) \/ LastCompletionLost(n)
      PROVE  Graph!End(n)
  <2>1. NodeState[n] = "running"
    BY <1>6 DEF WorkerSucceeds, GiveUp, LastCompletionLost, NodeState
  <2>2. CASE WorkerSucceeds(n)
    <3>1. NodeState' = [NodeState EXCEPT ![n] = "completed"]
      BY <2>2 DEF WorkerSucceeds, NodeState
    <3> QED
      BY <2>1, <3>1 DEF Graph!End, Graph!Move
  <2>3. CASE GiveUp(n) \/ LastCompletionLost(n)
    <3>1. NodeState' = [NodeState EXCEPT ![n] = "failed"]
      <4>1. /\ status' = [status EXCEPT ![n] = "failed"]
            /\ worker' = [worker EXCEPT ![n] = FALSE]
        BY <2>3 DEF GiveUp, LastCompletionLost
      <4> QED
        BY <4>1 DEF NodeState
    <3> QED
      BY <2>1, <3>1 DEF Graph!End, Graph!Move
  <2> QED
    BY <1>6, <2>2, <2>3
<1>7. ASSUME NEW n \in Nodes, CompletionLost(n) \/ Retry(n)
      PROVE  UNCHANGED NodeState
  BY <1>7 DEF CompletionLost, Retry, NodeState
<1> QED
  BY <1>1, <1>2, <1>3, <1>4, <1>5, <1>6, <1>7 DEF Next, Step, WorkerEnds, Graph!Next

\* An orchestration is a run of its graph: nothing starts before what it
\* depends on has completed, and only what depends on a lost node is blocked.
THEOREM Refinement == Spec => ImplementsTaskGraph
<1>1. Init => Graph!Init
  BY DEF Init, Graph!Init, NodeState
<1> QED
  BY <1>1, GraphStep, Invariant, PTL DEF Spec, ImplementsTaskGraph, Graph!Spec

\* The order of the graph survives its steps: what has completed or is lost
\* stays so.
LEMMA OrderStep ==
  ASSUME NodeState \in [Nodes -> Graph!States], Graph!InOrder, [Graph!Next]_NodeState
  PROVE  Graph!InOrder'
<1> USE PlanAssumption DEF Graph!InOrder, Graph!Lost, Graph!States
<1>1. CASE UNCHANGED NodeState
  BY <1>1
<1>2. ASSUME NEW n \in Nodes, NEW s \in Graph!States, Graph!Move(n, s),
             \/ NodeState[n] = "running"
             \/ NodeState[n] = "pending" /\ s = "blocked"
                  /\ \E d \in Deps[n] : NodeState[d] \in Graph!Lost
             \/ NodeState[n] = "pending" /\ s \in {"running", "failed"}
                  /\ \A d \in Deps[n] : NodeState[d] = "completed",
             NodeState[n] = "running" => s \in {"completed", "failed"}
      PROVE  Graph!InOrder'
  <2>1. ASSUME NEW m \in Nodes, m # n PROVE NodeState'[m] = NodeState[m]
    BY <1>2, <2>1 DEF Graph!Move
  <2>2. NodeState'[n] = s
    BY <1>2 DEF Graph!Move
  <2>3. ASSUME NEW m \in Nodes, NodeState[m] \in {"completed", "failed", "blocked"}
        PROVE  NodeState'[m] = NodeState[m]
    BY <1>2, <2>1, <2>3
  <2>4. ASSUME NEW m \in Nodes, NodeState'[m] \in {"running", "completed", "failed"}
        PROVE  \A d \in Deps[m] : NodeState'[d] = "completed"
    <3>1. \A d \in Deps[m] : NodeState[d] = "completed"
      BY <1>2, <2>1, <2>2, <2>4
    <3> QED
      BY <3>1, <2>3
  <2>5. ASSUME NEW m \in Nodes, NodeState'[m] = "blocked"
        PROVE  \E d \in Deps[m] : NodeState'[d] \in {"failed", "blocked"}
    <3>1. \E d \in Deps[m] : NodeState[d] \in {"failed", "blocked"}
      BY <1>2, <2>1, <2>2, <2>5
    <3> QED
      BY <3>1, <2>3
  <2> QED
    BY <2>4, <2>5
<1> QED
  BY <1>1, <1>2
     DEF Graph!Next, Graph!Run, Graph!Refuse, Graph!End, Graph!Block, Graph!Runnable

\* No node runs, ends or fails before everything it depends on has completed,
\* and none is written off without a lost dependency.
THEOREM NodesInOrder == Spec => []Graph!InOrder
<1>1. Init => Graph!InOrder
  BY DEF Init, Graph!InOrder, NodeState
<1>2. IInv => NodeState \in [Nodes -> Graph!States]
  BY DEF IInv, TypeOK, NodeState, Graph!States
<1>3. IInv /\ Graph!InOrder /\ [Next]_vars => Graph!InOrder'
  BY <1>2, GraphStep, OrderStep
<1> QED
  BY <1>1, <1>3, Invariant, PTL DEF Spec

=============================================================================
