------------------------------ MODULE AgentPool ------------------------------
(***************************************************************************)
(* The worker pool of packages/core/src/agent/pool.ts.                     *)
(*                                                                         *)
(* spawn() starts a worker thread and promises its result.  Everything the *)
(* pool knows of the worker is an entry under the id the CALLER chose:     *)
(* messages, timers, errors and cancellation all look the entry up by that *)
(* id when they happen.  Ids of subagents are random, but an orchestration *)
(* spawns its nodes under the ids of its plan, and spawns a node again     *)
(* under the same id when an attempt fails.                                *)
(*                                                                         *)
(* A worker is the agent loop of worker-runtime.ts, reduced to what it     *)
(* posts.  A heartbeat only puts the timeout of the entry off, so it is in *)
(* the guard of Timeout.  Live text and tool events are left out.          *)
(***************************************************************************)
EXTENDS Naturals, FiniteSets, Sequences

CONSTANTS
  Spawns,        \* calls of spawn(); each has a promise, a worker, a session
  Ids,           \* opts.id
  Names,         \* opts.desc, the role name messages are addressed to
  Parents,       \* opts.sessionId
  IdOf, NameOf, ParentOf,
  Predecessors,  \* the spawns of the same orchestration node before this one:
                 \*   all must have settled (rejected, or resolved and lost with
                 \*   a failed write of the task store) before it is tried again
  MaxWorkers,    \* agents.maxWorkers
  MaxRestarts,   \* bound: how often the process dies and starts again
  Letters,       \* calls of send_message
  From,          \* the worker that sends the letter
  To,            \* a name, an id, or Everyone
  Everyone, NoSpawn, NoId

\* The attempts of a node are made one after the other, by one call of the
\* orchestrate tool.
ASSUME PoolAssumption ==
  /\ IdOf \in [Spawns -> Ids]
  /\ NameOf \in [Spawns -> Names]
  /\ ParentOf \in [Spawns -> Parents]
  /\ Predecessors \in [Spawns -> SUBSET Spawns]
  /\ \A s \in Spawns : \A t \in Predecessors[s] :
       /\ IdOf[t] = IdOf[s] /\ ParentOf[t] = ParentOf[s]
       /\ Predecessors[t] \subseteq Predecessors[s]
       /\ \A u \in Predecessors[s] \ {t} : t \in Predecessors[u] \/ u \in Predecessors[t]
  /\ MaxWorkers \in Nat \ {0}
  /\ MaxRestarts \in Nat
  /\ From \in [Letters -> Spawns]
  /\ To \in [Letters -> Names \cup Ids \cup {Everyone}]
  /\ Letters \cap {"done", "error", "onerror"} = {}
  /\ NoSpawn \notin Spawns /\ NoId \notin Ids

VARIABLES
  entries,   \* id -> the spawn whose entry is in the Map, or NoSpawn
  byName,    \* (parent, name) -> id, or NoId
  timer,     \* the timer of each entry object is armed
  promise,   \* each spawn's promise; "gone" with the process that awaited it
  result,    \* the worker whose result resolved the promise, or NoSpawn
  thread,    \* each worker's thread
  outbox,    \* events a worker has posted and the main thread not yet handled
  session,   \* the status of each worker's session row
  restarts,
  sent,      \* letters that have been posted
  inbox      \* the letters the pool has posted to each worker

vars == <<entries, byName, timer, promise, result, thread, outbox, session,
          restarts, sent, inbox>>

Entry(id) == entries[id]
Key(s) == <<ParentOf[s], NameOf[s]>>

\* activeFor(parent): the entries that count against maxWorkers.
ActiveFor(p) == {id \in Ids : Entry(id) # NoSpawn /\ ParentOf[Entry(id)] = p}

Alive(s) == thread[s] \in {"running", "silent", "exited"}

Init ==
  /\ entries = [id \in Ids |-> NoSpawn]
  /\ byName = [k \in Parents \X Names |-> NoId]
  /\ timer = [s \in Spawns |-> FALSE]
  /\ promise = [s \in Spawns |-> "none"]
  /\ result = [s \in Spawns |-> NoSpawn]
  /\ thread = [s \in Spawns |-> "none"]
  /\ outbox = [s \in Spawns |-> <<>>]
  /\ session = [s \in Spawns |-> "none"]
  /\ restarts = 0
  /\ sent = {}
  /\ inbox = [s \in Spawns |-> {}]

-----------------------------------------------------------------------------
(* spawn() *)

MayCall(s) ==
  /\ promise[s] = "none"
  /\ \A t \in Predecessors[s] : promise[t] \in {"resolved", "rejected"}

\* PoolFullError: nothing is created.
SpawnFull(s) ==
  /\ MayCall(s)
  /\ Cardinality(ActiveFor(ParentOf[s])) >= MaxWorkers
  /\ promise' = [promise EXCEPT ![s] = "rejected"]
  /\ UNCHANGED <<entries, byName, timer, result, thread, outbox, session,
                 restarts, sent, inbox>>

\* entries.set and byName.set replace whatever stands under the id, the name.
Spawn(s) ==
  /\ MayCall(s)
  /\ Cardinality(ActiveFor(ParentOf[s])) < MaxWorkers
  /\ session' = [session EXCEPT ![s] = "active"]
  /\ entries' = [entries EXCEPT ![IdOf[s]] = s]
  /\ byName' = [byName EXCEPT ![Key(s)] = IdOf[s]]
  /\ timer' = [timer EXCEPT ![s] = TRUE]
  /\ thread' = [thread EXCEPT ![s] = "running"]
  /\ promise' = [promise EXCEPT ![s] = "pending"]
  /\ UNCHANGED <<result, outbox, restarts, sent, inbox>>

-----------------------------------------------------------------------------
(* The worker, seen from outside *)

Post(s, event, after) ==
  /\ thread[s] = "running"
  /\ outbox' = [outbox EXCEPT ![s] = Append(@, event)]
  /\ thread' = [thread EXCEPT ![s] = after]
  /\ UNCHANGED <<entries, byName, timer, promise, result, session, restarts, inbox>>

\* The tool send_message: the letter is posted to the pool.
Send(m) ==
  /\ m \notin sent
  /\ Post(From[m], m, "running")
  /\ sent' = sent \cup {m}

\* runWorkerRequest posts exactly one of "done" and "error" and returns; the
\* thread stays until the pool terminates it.
WorkerDone(s) == Post(s, "done", "exited") /\ UNCHANGED sent
WorkerError(s) == Post(s, "error", "exited") /\ UNCHANGED sent

\* An error nobody caught raises onerror; the run may go on after it.
WorkerThrows(s) ==
  /\ outbox[s] = <<>>
  /\ \E after \in {"running", "silent"} : Post(s, "onerror", after)
  /\ UNCHANGED sent

\* The thread is stuck, so its heartbeats stop as well.
WorkerSilent(s) ==
  /\ thread[s] = "running"
  /\ thread' = [thread EXCEPT ![s] = "silent"]
  /\ UNCHANGED <<entries, byName, timer, promise, result, outbox, session,
                 restarts, sent, inbox>>

-----------------------------------------------------------------------------
(* routeMessage() *)

\* Mutant: names are those of all sessions.
RecipientsOfAll(m, e) ==
  LET named == {byName[<<p, n>>] : p \in Parents, n \in {To[m]} \cap Names} \ {NoId}
  IN  CASE To[m] = Everyone -> ActiveFor(ParentOf[e]) \ {IdOf[From[m]]}
        [] To[m] # Everyone /\ named # {} -> named
        [] OTHER -> {To[m]} \cap ActiveFor(ParentOf[e])

\* The ids the letter of the entry e is for: whoever has the name in e's
\* session, or else the entry with the id if it is of that session.
Recipients(m, e) ==
  LET named == {byName[<<ParentOf[e], n>>] : n \in {To[m]} \cap Names} \ {NoId}
  IN  CASE To[m] = Everyone -> ActiveFor(ParentOf[e]) \ {IdOf[From[m]]}
        [] To[m] # Everyone /\ named # {} -> named
        [] OTHER -> {To[m]} \cap ActiveFor(ParentOf[e])

\* The sender is known by its id; to nobody's name or id, the letter is lost.
Route(s) ==
  /\ outbox[s] # <<>> /\ Head(outbox[s]) \in Letters
  /\ LET m == Head(outbox[s])
         e == Entry(IdOf[s])
         reached == IF e = NoSpawn THEN {} ELSE {Entry(i) : i \in Recipients(m, e)}
     IN  inbox' = [t \in Spawns |-> IF t \in reached THEN inbox[t] \cup {m} ELSE inbox[t]]
  /\ outbox' = [outbox EXCEPT ![s] = Tail(@)]
  /\ UNCHANGED <<entries, byName, timer, promise, result, thread, session,
                 restarts, sent>>

-----------------------------------------------------------------------------
(* The end of an entry *)

\* Mutant: the timer of the entry is not cleared.
RemoveTimed(e) ==
  /\ entries' = [entries EXCEPT ![IdOf[e]] = NoSpawn]
  /\ byName' = [byName EXCEPT ![Key(e)] = NoId]
  /\ thread' = [thread EXCEPT ![e] = "terminated"]
  /\ UNCHANGED timer

\* Mutant: the names of the whole session go with one entry.
RemoveAllNames(e) ==
  /\ entries' = [entries EXCEPT ![IdOf[e]] = NoSpawn]
  /\ byName' = [k \in Parents \X Names |->
                  IF k[1] = ParentOf[e] THEN NoId ELSE byName[k]]
  /\ timer' = [timer EXCEPT ![e] = FALSE]
  /\ thread' = [thread EXCEPT ![e] = "terminated"]

\* What "done", "error" and terminate() have in common: the entry of spawn e
\* leaves the pool, its session ends, its timer stops, its worker is
\* terminated, and events the worker had posted are not delivered any more.
Remove(e) ==
  /\ entries' = [entries EXCEPT ![IdOf[e]] = NoSpawn]
  /\ byName' = [byName EXCEPT ![Key(e)] = NoId]
  /\ timer' = [timer EXCEPT ![e] = FALSE]
  /\ thread' = [thread EXCEPT ![e] = "terminated"]

\* Mutant: events of a terminated worker are still delivered.
DropHead(s, e) == [outbox EXCEPT ![s] = Tail(@)]

Drop(s, e) == [outbox EXCEPT ![s] = IF s = e THEN <<>> ELSE Tail(@), ![e] = <<>>]

\* A promise settles once.
Settled(s, outcome) ==
  [promise EXCEPT ![s] = IF @ = "pending" THEN outcome ELSE @]

\* handleMessage(id): the entry that has the id now gets the worker's outcome.
HandleDone(s) ==
  LET e == Entry(IdOf[s]) IN
  /\ outbox[s] # <<>> /\ Head(outbox[s]) = "done"
  /\ e # NoSpawn
  /\ Remove(e)
  /\ session' = [session EXCEPT ![e] = "complete"]
  /\ outbox' = Drop(s, e)
  /\ promise' = Settled(e, "resolved")
  /\ result' = [result EXCEPT ![e] = IF promise[e] = "pending" THEN s ELSE @]
  /\ UNCHANGED <<restarts, sent, inbox>>

HandleError(s) ==
  LET e == Entry(IdOf[s]) IN
  /\ outbox[s] # <<>> /\ Head(outbox[s]) = "error"
  /\ e # NoSpawn
  /\ Remove(e)
  /\ session' = [session EXCEPT ![e] = "complete"]
  /\ outbox' = Drop(s, e)
  /\ promise' = Settled(e, "rejected")
  /\ UNCHANGED <<result, restarts, sent, inbox>>

\* No entry has the id: the message is ignored.
HandleStray(s) ==
  /\ outbox[s] # <<>> /\ Head(outbox[s]) \in {"done", "error"}
  /\ Entry(IdOf[s]) = NoSpawn
  /\ outbox' = [outbox EXCEPT ![s] = Tail(@)]
  /\ UNCHANGED <<entries, byName, timer, promise, result, thread, session,
                 restarts, sent, inbox>>

\* worker.onerror ends its OWN session and rejects its OWN promise, and
\* terminates whoever has the id.
HandleOnError(s) ==
  LET e == Entry(IdOf[s]) IN
  /\ outbox[s] # <<>> /\ Head(outbox[s]) = "onerror"
  /\ promise' = Settled(s, "rejected")
  /\ IF e = NoSpawn
     THEN /\ session' = [session EXCEPT ![s] = "complete"]
          /\ outbox' = [outbox EXCEPT ![s] = Tail(@)]
          /\ UNCHANGED <<entries, byName, timer, thread>>
     ELSE /\ session' = [session EXCEPT ![s] = "complete", ![e] = "complete"]
          /\ outbox' = Drop(s, e)
          /\ Remove(e)
  /\ UNCHANGED <<result, restarts, sent, inbox>>

\* terminate(id) and the rejection that follows it.
Terminate(e) ==
  /\ Remove(e)
  /\ session' = [session EXCEPT ![e] = "complete"]
  /\ outbox' = [outbox EXCEPT ![e] = <<>>]
  /\ promise' = Settled(e, "rejected")

\* A worker under the id still runs, so heartbeats for the id arrive and keep
\* the timer of the entry they find from running out.
Beating(s) ==
  /\ Entry(IdOf[s]) = s
  /\ \E t \in Spawns : IdOf[t] = IdOf[s] /\ thread[t] = "running"

\* makeTimer's callback, which looks the id up again.
Timeout(s) ==
  LET e == Entry(IdOf[s]) IN
  /\ timer[s]
  /\ ~Beating(s)
  /\ IF e = NoSpawn
     THEN /\ timer' = [timer EXCEPT ![s] = FALSE]
          /\ UNCHANGED <<entries, byName, promise, thread, outbox, session>>
     ELSE /\ entries' = [entries EXCEPT ![IdOf[e]] = NoSpawn]
          /\ byName' = [byName EXCEPT ![Key(e)] = NoId]
          /\ timer' = [timer EXCEPT ![s] = FALSE, ![e] = FALSE]
          /\ thread' = [thread EXCEPT ![e] = "terminated"]
          /\ session' = [session EXCEPT ![e] = "complete"]
          /\ outbox' = [outbox EXCEPT ![e] = <<>>]
          /\ promise' = Settled(e, "rejected")
  /\ UNCHANGED <<result, restarts, sent, inbox>>

\* Mutant: cancel rejects the caller and leaves the worker in the pool.
CancelCaller(id) ==
  /\ Entry(id) # NoSpawn
  /\ promise' = Settled(Entry(id), "rejected")
  /\ UNCHANGED <<entries, byName, timer, result, thread, outbox, session,
                 restarts, sent, inbox>>

\* cancel(id): Ctrl+C, or a background task's stop button.
Cancel(id) ==
  /\ Entry(id) # NoSpawn
  /\ Terminate(Entry(id))
  /\ UNCHANGED <<result, restarts, sent, inbox>>

\* The process dies with its threads and starts again.  The constructor ends
\* every subagent session whose status is "running".  A process with no worker and
\* no name in memory has nothing to lose by it.
Restart ==
  /\ restarts < MaxRestarts
  /\ \E s \in Spawns : Alive(s) \/ byName[Key(s)] # NoId
  /\ restarts' = restarts + 1
  /\ entries' = [id \in Ids |-> NoSpawn]
  /\ byName' = [k \in Parents \X Names |-> NoId]
  /\ timer' = [s \in Spawns |-> FALSE]
  /\ promise' = [s \in Spawns |-> IF promise[s] = "pending" THEN "gone" ELSE promise[s]]
  /\ thread' = [s \in Spawns |-> IF Alive(s) THEN "terminated" ELSE thread[s]]
  /\ outbox' = [s \in Spawns |-> <<>>]
  /\ session' = [s \in Spawns |-> IF session[s] = "running" THEN "complete" ELSE session[s]]
  /\ UNCHANGED <<result, sent, inbox>>

WorkerEnds(s) == WorkerDone(s) \/ WorkerError(s) \/ WorkerSilent(s)

Handle(s) ==
  \/ Route(s) \/ HandleDone(s) \/ HandleError(s) \/ HandleStray(s) \/ HandleOnError(s)

Next ==
  \/ \E s \in Spawns :
       \/ SpawnFull(s) \/ Spawn(s)
       \/ WorkerEnds(s) \/ WorkerThrows(s) \/ Handle(s) \/ Timeout(s)
  \/ \E m \in Letters : Send(m)
  \/ \E id \in Ids : Cancel(id)
  \/ Restart

Spec == Init /\ [][Next]_vars

-----------------------------------------------------------------------------
(* Properties *)

\* Every variable keeps its type.
TypeOK ==
  /\ entries \in [Ids -> Spawns \cup {NoSpawn}]
  /\ byName \in [Parents \X Names -> Ids \cup {NoId}]
  /\ timer \in [Spawns -> BOOLEAN]
  /\ promise \in [Spawns -> {"none", "pending", "resolved", "rejected", "gone"}]
  /\ result \in [Spawns -> Spawns \cup {NoSpawn}]
  /\ thread \in [Spawns -> {"none", "running", "silent", "exited", "terminated"}]
  /\ outbox \in [Spawns -> Seq({"done", "error", "onerror"} \cup Letters)]
  /\ session \in [Spawns -> {"none", "active", "complete"}]
  /\ restarts \in 0..MaxRestarts
  /\ sent \subseteq Letters
  /\ inbox \in [Spawns -> SUBSET Letters]

\* Nobody else has used the id of s, but for attempts of the same node, each
\* after the last one has settled.
Undisturbed(s) ==
  \A t \in Spawns \ {s} :
    IdOf[s] = IdOf[t] =>
      s \in Predecessors[t] \/ t \in Predecessors[s] \/ promise[t] = "none"

\* The pool knows every thread it has started and nothing else: a thread lives
\* as long as its entry, its promise is pending for as long, and a timer stands
\* behind it, and its session ends with it.  No path through messages, errors,
\* timeouts, cancellations and retries leaks a worker or forgets a caller.  (The
\* timer only ends a worker that has stopped beating: nothing obliges one that
\* waits for its provider to end, see Beating.)
PoolMirrorsWorkers ==
  \A s \in Spawns :
    /\ Undisturbed(s) =>
         /\ Alive(s) <=> Entry(IdOf[s]) = s
         /\ Alive(s) <=> promise[s] = "pending"
         /\ Alive(s) <=> timer[s]
    /\ thread[s] = "terminated" /\ promise[s] # "gone" => session[s] = "complete"

\* Whatever ids the callers choose, an entry in the pool has a thread, a caller
\* that waits for it, and a timer.
EntryIsLive ==
  \A id \in Ids :
    Entry(id) # NoSpawn =>
      Alive(Entry(id)) /\ promise[Entry(id)] = "pending" /\ timer[Entry(id)]

\* What the orchestrate tool means by "containing each sub-task's output": a
\* caller gets the result of the worker it spawned, as long as nobody else uses
\* its id.
OwnResultIfUndisturbed ==
  \A s \in Spawns : promise[s] = "resolved" /\ Undisturbed(s) => result[s] = s

\* docs/multi-agent.md:81, "up to 8 concurrent workers per parent session":
\* maxWorkers bounds the threads of a session.  It does not: the limit is
\* compared with the entries, and a worker whose entry another spawn has
\* replaced under its id runs on without one.
ThreadsBounded ==
  \A p \in Parents :
    Cardinality({s \in Spawns : Alive(s) /\ ParentOf[s] = p}) <= MaxWorkers

\* A running agent can be reached under its name, as long as no other agent of
\* its session was given the same name.
AddressableByName ==
  \A s \in Spawns :
    /\ Alive(s) /\ Undisturbed(s)
    /\ \A t \in Spawns \ {s} :
         Key(t) = Key(s) => promise[t] = "none" \/ t \in Predecessors[s]
    => byName[Key(s)] = IdOf[s]

\* A letter stays in the session of the worker that wrote it, whoever goes by
\* the name or the id it is addressed to, as long as nobody else uses the id of
\* its sender or of the one it reaches.
MailStaysInSession ==
  \A t \in Spawns : \A m \in inbox[t] :
    Undisturbed(t) /\ Undisturbed(From[m]) => ParentOf[t] = ParentOf[From[m]]

=============================================================================
