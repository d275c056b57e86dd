---------------------------- MODULE AgentPoolProofs ----------------------------
(***************************************************************************)
(* Proofs about AgentPool for any spawns, ids, names, sessions and letters.*)
(***************************************************************************)
EXTENDS AgentPool, FiniteSetTheorems, TLAPS

-----------------------------------------------------------------------------
(* The inductive invariant *)

\* Entries stand under their ids and are those of workers that are awaited.
Entered(id) ==
  entries[id] # NoSpawn =>
    /\ IdOf[entries[id]] = id
    /\ Alive(entries[id])
    /\ promise[entries[id]] = "pending"
    /\ timer[entries[id]]

\* What a spawn that was never made has not got, and what must have come
\* before one that was made.
Begun(s) ==
  IF promise[s] = "none" THEN thread[s] = "none"
  ELSE \A t \in Predecessors[s] : promise[t] \in {"resolved", "rejected"}

\* Only a living worker has events that are delivered, letters of its own
\* among them.
Posted(s) ==
  /\ outbox[s] # <<>> => Alive(s)
  /\ \A i \in 1..Len(outbox[s]) : outbox[s][i] \in Letters => From[outbox[s][i]] = s

\* The session ends with the worker, or before it when the promise settles.
Closed(s) ==
  /\ thread[s] = "terminated" /\ promise[s] # "gone" => session[s] = "complete"
  /\ promise[s] \in {"resolved", "rejected"} /\ thread[s] # "none" => session[s] = "complete"

\* A spawn that nobody disturbs lives as long as its entry, its timer and its
\* promise do, and gets its own result.
Mirrored(s) ==
  Undisturbed(s) =>
    /\ Alive(s) <=> Entry(IdOf[s]) = s
    /\ Alive(s) <=> promise[s] = "pending"
    /\ Alive(s) <=> timer[s]
    /\ promise[s] = "resolved" => result[s] = s

\* A name stands for the id of somebody who was spawned under it.
Named(k) ==
  byName[k] # NoId =>
    \E u \in Spawns : Key(u) = k /\ IdOf[u] = byName[k] /\ promise[u] # "none"

Bounded(p) ==
  IsFiniteSet(ActiveFor(p)) /\ Cardinality(ActiveFor(p)) <= MaxWorkers

IInv ==
  /\ TypeOK
  /\ \A id \in Ids : Entered(id)
  /\ \A s \in Spawns : Begun(s) /\ Posted(s) /\ Closed(s) /\ Mirrored(s)
  /\ \A k \in Parents \X Names : Named(k)
  /\ \A p \in Parents : Bounded(p)
  /\ AddressableByName
  /\ MailStaysInSession

\* It holds at first.
LEMMA InvInit == Init => IInv
<1> SUFFICES ASSUME Init PROVE IInv
  OBVIOUS
<1> USE PoolAssumption DEF Init
<1>1. TypeOK
  BY DEF TypeOK
<1>2. \A id \in Ids : Entered(id)
  BY DEF Entered
<1>3. \A s \in Spawns : Begun(s) /\ Posted(s) /\ Closed(s) /\ Mirrored(s)
  BY DEF Begun, Posted, Closed, Mirrored, Alive, Entry
<1>4. \A k \in Parents \X Names : Named(k)
  BY DEF Named
<1>5. ASSUME NEW p \in Parents PROVE Bounded(p)
  <2>1. ActiveFor(p) = {}
    BY DEF ActiveFor, Entry
  <2> QED
    BY <2>1, FS_EmptySet DEF Bounded
<1>6. AddressableByName /\ MailStaysInSession
  BY DEF AddressableByName, MailStaysInSession, Alive
<1> QED
  BY <1>1, <1>2, <1>3, <1>4, <1>5, <1>6 DEF IInv

-----------------------------------------------------------------------------
(* What a worker has posted *)

Events == {"done", "error", "onerror"} \cup Letters
Outboxes == [Spawns -> Seq(Events)]

\* An event joins the end of its worker's.
LEMMA PostedNext ==
  ASSUME outbox \in Outboxes, NEW s \in Spawns, NEW ev \in Events,
         outbox' = [outbox EXCEPT ![s] = Append(@, ev)]
  PROVE  /\ outbox' \in Outboxes
         /\ \A t \in Spawns \ {s} : outbox'[t] = outbox[t]
         /\ \A i \in 1..Len(outbox'[s]) : outbox'[s][i] = ev \/
              (i \in 1..Len(outbox[s]) /\ outbox'[s][i] = outbox[s][i])
<1>1. outbox[s] \in Seq(Events) /\ Append(outbox[s], ev) \in Seq(Events)
  BY DEF Outboxes
<1>2. outbox'[s] = Append(outbox[s], ev)
  BY DEF Outboxes
<1> QED
  BY <1>1, <1>2 DEF Outboxes

\* The first event leaves it.
LEMMA TailLeft ==
  ASSUME outbox \in Outboxes, NEW s \in Spawns, outbox[s] # <<>>
  PROVE  /\ Tail(outbox[s]) \in Seq(Events)
         /\ \A i \in 1..Len(Tail(outbox[s])) :
              i + 1 \in 1..Len(outbox[s]) /\ Tail(outbox[s])[i] = outbox[s][i + 1]
<1>1. outbox[s] \in Seq(Events)
  BY DEF Outboxes
<1> QED
  BY <1>1

\* What Drop makes of every worker's.
LEMMA DropLeft ==
  ASSUME outbox \in Outboxes, NEW s \in Spawns, NEW e \in Spawns, outbox[s] # <<>>
  PROVE  /\ Drop(s, e) \in Outboxes
         /\ Drop(s, e)[e] = <<>>
         /\ s # e => Drop(s, e)[s] = Tail(outbox[s])
         /\ \A t \in Spawns \ {s, e} : Drop(s, e)[t] = outbox[t]
<1>1. Tail(outbox[s]) \in Seq(Events) /\ <<>> \in Seq(Events)
  BY TailLeft
<1> QED
  BY <1>1 DEF Drop, Outboxes

\* The two cases of a timer that runs out, and of an uncaught error.
LEMMA TimeoutCases ==
  ASSUME NEW s \in Spawns, Timeout(s)
  PROVE  /\ timer[s] /\ UNCHANGED <<result, restarts, sent, inbox>>
         /\ Entry(IdOf[s]) = NoSpawn =>
              /\ timer' = [timer EXCEPT ![s] = FALSE]
              /\ UNCHANGED <<entries, byName, promise, thread, outbox, session>>
         /\ Entry(IdOf[s]) # NoSpawn =>
              /\ entries' = [entries EXCEPT ![IdOf[Entry(IdOf[s])]] = NoSpawn]
              /\ byName' = [byName EXCEPT ![Key(Entry(IdOf[s]))] = NoId]
              /\ timer' = [timer EXCEPT ![s] = FALSE, ![Entry(IdOf[s])] = FALSE]
              /\ thread' = [thread EXCEPT ![Entry(IdOf[s])] = "terminated"]
              /\ session' = [session EXCEPT ![Entry(IdOf[s])] = "complete"]
              /\ outbox' = [outbox EXCEPT ![Entry(IdOf[s])] = <<>>]
              /\ promise' = Settled(Entry(IdOf[s]), "rejected")
BY Zenon DEF Timeout

LEMMA OnErrorCases ==
  ASSUME NEW s \in Spawns, HandleOnError(s)
  PROVE  /\ outbox[s] # <<>> /\ promise' = Settled(s, "rejected")
         /\ UNCHANGED <<result, restarts, sent, inbox>>
         /\ Entry(IdOf[s]) = NoSpawn =>
              /\ session' = [session EXCEPT ![s] = "complete"]
              /\ outbox' = [outbox EXCEPT ![s] = Tail(@)]
              /\ UNCHANGED <<entries, byName, timer, thread>>
         /\ Entry(IdOf[s]) # NoSpawn =>
              /\ session' = [session EXCEPT ![s] = "complete", ![Entry(IdOf[s])] = "complete"]
              /\ outbox' = Drop(s, Entry(IdOf[s]))
              /\ Remove(Entry(IdOf[s]))
BY Zenon DEF HandleOnError

\* Every step keeps the types.
LEMMA TypeStep == TypeOK /\ [Next]_vars => TypeOK'
<1> SUFFICES ASSUME TypeOK, [Next]_vars PROVE TypeOK'
  OBVIOUS
<1> USE PoolAssumption DEF Entry, Key
<1>o. outbox \in Outboxes /\ (outbox' \in Outboxes => outbox' \in [Spawns -> Seq({"done", "error", "onerror"} \cup Letters)])
  BY DEF TypeOK, Outboxes, Events
<1>1. CASE UNCHANGED vars
  BY <1>1 DEF vars, TypeOK
<1>2. ASSUME NEW s \in Spawns, SpawnFull(s) PROVE TypeOK'
  BY <1>2 DEF SpawnFull, TypeOK
<1>3. ASSUME NEW s \in Spawns, Spawn(s) PROVE TypeOK'
  BY <1>3 DEF Spawn, TypeOK
<1>4. ASSUME NEW s \in Spawns, NEW ev \in Events, NEW after \in {"running", "silent", "exited"},
             Post(s, ev, after), sent' \subseteq Letters
      PROVE  TypeOK'
  <2>1. outbox' \in Outboxes
    BY <1>4, <1>o, PostedNext DEF Post
  <2> QED
    BY <1>4, <1>o, <2>1 DEF Post, TypeOK
<1>5. ASSUME NEW s \in Spawns, WorkerDone(s) \/ WorkerError(s) \/ WorkerThrows(s) PROVE TypeOK'
  <2>1. PICK ev \in {"done", "error", "onerror"}, after \in {"running", "silent", "exited"} :
          Post(s, ev, after) /\ sent' = sent
    BY <1>5 DEF WorkerDone, WorkerError, WorkerThrows
  <2>2. ev \in Events /\ sent' \subseteq Letters
    BY <2>1 DEF Events, TypeOK
  <2> QED
    BY <1>4, <2>1, <2>2
<1>6. ASSUME NEW s \in Spawns, WorkerSilent(s) PROVE TypeOK'
  BY <1>6 DEF WorkerSilent, TypeOK
<1>7. ASSUME NEW s \in Spawns, Route(s) PROVE TypeOK'
  BY <1>7, <1>o, TailLeft DEF Route, TypeOK, Outboxes
<1>8. ASSUME NEW s \in Spawns, HandleDone(s) PROVE TypeOK'
  <2>1. outbox' \in Outboxes
    BY <1>8, <1>o, DropLeft DEF HandleDone, TypeOK
  <2> QED
    BY <1>8, <1>o, <2>1 DEF HandleDone, Remove, Settled, TypeOK
<1>9. ASSUME NEW s \in Spawns, HandleError(s) PROVE TypeOK'
  <2>1. outbox' \in Outboxes
    BY <1>9, <1>o, DropLeft DEF HandleError, TypeOK
  <2> QED
    BY <1>9, <1>o, <2>1 DEF HandleError, Remove, Settled, TypeOK
<1>10. ASSUME NEW s \in Spawns, HandleStray(s) PROVE TypeOK'
  BY <1>10, <1>o, TailLeft DEF HandleStray, TypeOK, Outboxes
<1>11. ASSUME NEW s \in Spawns, HandleOnError(s) PROVE TypeOK'
  <2> DEFINE e == entries[IdOf[s]]
  <2>1. /\ outbox[s] # <<>> /\ promise' = Settled(s, "rejected")
        /\ UNCHANGED <<result, restarts, sent, inbox>>
    BY <1>11, OnErrorCases
  <2>2. promise' \in [Spawns -> {"none", "pending", "resolved", "rejected", "gone"}]
    BY <2>1 DEF Settled, TypeOK
  <2>3. CASE e = NoSpawn
    <3>1. /\ session' = [session EXCEPT ![s] = "complete"]
          /\ outbox' = [outbox EXCEPT ![s] = Tail(@)]
          /\ UNCHANGED <<entries, byName, timer, thread>>
      BY <1>11, <2>3, OnErrorCases
    <3>2. Tail(outbox[s]) \in Seq(Events)
      BY <1>o, <2>1, TailLeft
    <3>3. outbox' \in Outboxes
      BY <1>o, <3>1, <3>2 DEF Outboxes
    <3> QED
      BY <1>o, <2>1, <2>2, <3>1, <3>3 DEF TypeOK
  <2>4. CASE e # NoSpawn
    <3>1. e \in Spawns
      BY <2>4 DEF TypeOK
    <3>2. /\ session' = [session EXCEPT ![s] = "complete", ![e] = "complete"]
          /\ outbox' = Drop(s, e)
          /\ Remove(e)
      BY <1>11, <2>4, OnErrorCases
    <3>3. outbox' \in Outboxes
      BY <1>o, <2>1, <3>1, <3>2, DropLeft
    <3> QED
      BY <1>o, <2>1, <2>2, <3>1, <3>2, <3>3 DEF Remove, TypeOK
  <2> QED
    BY <2>3, <2>4
<1>12. ASSUME NEW s \in Spawns, Timeout(s) PROVE TypeOK'
  <2> DEFINE e == entries[IdOf[s]]
  <2>1. UNCHANGED <<result, restarts, sent, inbox>>
    BY <1>12, TimeoutCases
  <2>2. CASE e = NoSpawn
    <3>1. /\ timer' = [timer EXCEPT ![s] = FALSE]
          /\ UNCHANGED <<entries, byName, promise, thread, outbox, session>>
      BY <1>12, <2>2, TimeoutCases
    <3> QED
      BY <2>1, <3>1 DEF TypeOK
  <2>3. CASE e # NoSpawn
    <3>1. e \in Spawns
      BY <2>3 DEF TypeOK
    <3>2. /\ entries' = [entries EXCEPT ![IdOf[e]] = NoSpawn]
          /\ byName' = [byName EXCEPT ![Key(e)] = NoId]
          /\ timer' = [timer EXCEPT ![s] = FALSE, ![e] = FALSE]
          /\ thread' = [thread EXCEPT ![e] = "terminated"]
          /\ session' = [session EXCEPT ![e] = "complete"]
          /\ outbox' = [outbox EXCEPT ![e] = <<>>]
          /\ promise' = Settled(e, "rejected")
      BY <1>12, <2>3, TimeoutCases
    <3>3. outbox' \in Outboxes
      BY <1>o, <3>1, <3>2 DEF Outboxes
    <3> QED
      BY <1>o, <2>1, <3>1, <3>2, <3>3 DEF Settled, TypeOK
  <2> QED
    BY <2>2, <2>3
<1>13. ASSUME NEW m \in Letters, Send(m) PROVE TypeOK'
  <2>1. From[m] \in Spawns /\ m \in Events /\ sent' \subseteq Letters
    BY <1>13 DEF Send, Events, TypeOK
  <2>2. Post(From[m], m, "running")
    BY <1>13 DEF Send
  <2> QED
    BY <1>4, <2>1, <2>2
<1>14. ASSUME NEW id \in Ids, Cancel(id) PROVE TypeOK'
  BY <1>14 DEF Cancel, Terminate, Remove, Settled, TypeOK
<1>15. CASE Restart
  BY <1>15 DEF Restart, Alive, TypeOK
<1> QED
  BY <1>1, <1>2, <1>3, <1>5, <1>6, <1>7, <1>8, <1>9, <1>10, <1>11, <1>12,
     <1>13, <1>14, <1>15 DEF Next, WorkerEnds, Handle

-----------------------------------------------------------------------------
(* The kinds of steps *)

\* The entry of e is removed, whoever (x) brought that about under e's id, and
\* the promise of p settles with the outcome o.
Ends(e, x, p, o) ==
  /\ e \in Spawns /\ x \in Spawns /\ p \in {e, x} /\ o \in {"resolved", "rejected"}
  /\ Entry(IdOf[x]) = e
  /\ entries' = [entries EXCEPT ![IdOf[e]] = NoSpawn]
  /\ byName' = [byName EXCEPT ![Key(e)] = NoId]
  /\ thread' = [thread EXCEPT ![e] = "terminated"]
  /\ timer'[e] = FALSE
  /\ \A t \in Spawns \ {e} : timer'[t] = timer[t] \/ (t = x /\ timer[t] /\ ~timer'[t])
  /\ promise' = Settled(p, o)
  /\ \A t \in Spawns : session'[t] = IF t \in {e, p} THEN "complete" ELSE session[t]
  /\ \A t \in Spawns : result'[t] = IF t = e /\ p = e /\ o = "resolved" /\ promise[e] = "pending"
                                      THEN x ELSE result[t]
  /\ p # e => outbox[x] # <<>>
  /\ o = "resolved" => p = e /\ outbox[x] # <<>>

\* Entries and names stay, and so does what goes with them: at most s itself
\* is refused, or settled or rid of its timer when nobody has its id.
Minor(s) ==
  /\ UNCHANGED <<entries, byName, result>>
  /\ \A t \in Spawns : thread'[t] = thread[t] \/ (Alive(t) /\ Alive(t)')
  /\ \A t \in Spawns :
       timer'[t] = timer[t] \/ (t = s /\ Entry(IdOf[t]) = NoSpawn /\ ~timer'[t])
  /\ \A t \in Spawns :
       \/ promise'[t] = promise[t] /\ session'[t] = session[t]
       \/ t = s /\ MayCall(t) /\ promise'[t] = "rejected" /\ session'[t] = session[t]
       \/ /\ t = s /\ outbox[t] # <<>> /\ Entry(IdOf[t]) = NoSpawn
          /\ promise' = Settled(t, "rejected") /\ session'[t] = "complete"

LEMMA TimerCleared ==
  ASSUME timer \in [Spawns -> BOOLEAN], NEW e \in Spawns, timer' = [timer EXCEPT ![e] = FALSE]
  PROVE  timer'[e] = FALSE /\ \A t \in Spawns \ {e} : timer'[t] = timer[t]
OBVIOUS

\* Each step is of one of these kinds, or calls spawn(), or is a restart.
LEMMA StepKinds ==
  ASSUME TypeOK, \A id \in Ids : Entered(id), [Next]_vars
  PROVE  \/ \E e, x, p, o : Ends(e, x, p, o)
         \/ \E s \in Spawns : Minor(s) \/ Spawn(s)
         \/ Restart
         \/ UNCHANGED vars
<1> DEFINE Goal == \/ \E e, x, p, o : Ends(e, x, p, o)
                   \/ \E s \in Spawns : Minor(s) \/ Spawn(s)
<1> USE PoolAssumption DEF TypeOK, Entry
<1>1. ASSUME NEW s \in Spawns, SpawnFull(s) PROVE Minor(s)
  BY <1>1 DEF SpawnFull, Minor, MayCall
<1>2. ASSUME NEW s \in Spawns, NEW ev, NEW after \in {"running", "silent", "exited"}, Post(s, ev, after)
      PROVE  Minor(s)
  BY <1>2 DEF Post, Minor, Alive
<1>3. ASSUME NEW s \in Spawns, WorkerSilent(s) PROVE Minor(s)
  BY <1>3 DEF WorkerSilent, Minor, Alive
<1>4. ASSUME NEW s \in Spawns, Route(s) \/ HandleStray(s) PROVE Minor(s)
  BY <1>4 DEF Route, HandleStray, Minor, Alive
<1>5. ASSUME NEW s \in Spawns, HandleDone(s) PROVE Ends(Entry(IdOf[s]), s, Entry(IdOf[s]), "resolved")
  <2> DEFINE e == entries[IdOf[s]]
  <2>1. e \in Spawns /\ IdOf[e] = IdOf[s] /\ promise[e] = "pending"
    BY <1>5 DEF HandleDone, Entered
  <2>2. /\ outbox[s] # <<>>
        /\ session' = [session EXCEPT ![e] = "complete"]
        /\ promise' = Settled(e, "resolved")
        /\ result' = [result EXCEPT ![e] = IF promise[e] = "pending" THEN s ELSE @]
    BY <1>5 DEF HandleDone
  <2>3. /\ entries' = [entries EXCEPT ![IdOf[e]] = NoSpawn]
        /\ byName' = [byName EXCEPT ![Key(e)] = NoId]
        /\ thread' = [thread EXCEPT ![e] = "terminated"]
        /\ timer' = [timer EXCEPT ![e] = FALSE]
    BY <1>5 DEF HandleDone, Remove
  <2>4. timer'[e] = FALSE /\ \A t \in Spawns \ {e} : timer'[t] = timer[t]
    BY <2>1, <2>3, TimerCleared
  <2>5. \A t \in Spawns : session'[t] = IF t = e THEN "complete" ELSE session[t]
    BY <2>1, <2>2
  <2>6. \A t \in Spawns : result'[t] = IF t = e THEN s ELSE result[t]
    BY <2>1, <2>2
  <2> QED
    BY <2>1, <2>2, <2>3, <2>4, <2>5, <2>6 DEF Ends
<1>6. ASSUME NEW s \in Spawns, HandleError(s) PROVE Ends(Entry(IdOf[s]), s, Entry(IdOf[s]), "rejected")
  <2> DEFINE e == entries[IdOf[s]]
  <2>1. e \in Spawns /\ IdOf[e] = IdOf[s] /\ promise[e] = "pending"
    BY <1>6 DEF HandleError, Entered
  <2>2. /\ result' = result
        /\ session' = [session EXCEPT ![e] = "complete"]
        /\ promise' = Settled(e, "rejected")
    BY <1>6 DEF HandleError
  <2>3. /\ entries' = [entries EXCEPT ![IdOf[e]] = NoSpawn]
        /\ byName' = [byName EXCEPT ![Key(e)] = NoId]
        /\ thread' = [thread EXCEPT ![e] = "terminated"]
        /\ timer' = [timer EXCEPT ![e] = FALSE]
    BY <1>6 DEF HandleError, Remove
  <2>4. timer'[e] = FALSE /\ \A t \in Spawns \ {e} : timer'[t] = timer[t]
    BY <2>1, <2>3, TimerCleared
  <2>5. \A t \in Spawns : session'[t] = IF t = e THEN "complete" ELSE session[t]
    BY <2>1, <2>2
  <2> QED
    BY <2>1, <2>2, <2>3, <2>4, <2>5 DEF Ends
<1>7. ASSUME NEW s \in Spawns, HandleOnError(s)
      PROVE  Minor(s) \/ Ends(Entry(IdOf[s]), s, s, "rejected")
  <2>1. CASE Entry(IdOf[s]) = NoSpawn
    BY <1>7, <2>1, OnErrorCases DEF Minor, Settled
  <2>2. CASE Entry(IdOf[s]) # NoSpawn
    <3> DEFINE e == entries[IdOf[s]]
    <3>1. e \in Spawns /\ IdOf[e] = IdOf[s] /\ promise[e] = "pending"
      BY <2>2 DEF Entered
    <3>2. /\ outbox[s] # <<>> /\ promise' = Settled(s, "rejected") /\ result' = result
          /\ session' = [session EXCEPT ![s] = "complete", ![e] = "complete"]
      BY <1>7, <2>2, OnErrorCases
    <3>3. /\ entries' = [entries EXCEPT ![IdOf[e]] = NoSpawn]
          /\ byName' = [byName EXCEPT ![Key(e)] = NoId]
          /\ thread' = [thread EXCEPT ![e] = "terminated"]
          /\ timer' = [timer EXCEPT ![e] = FALSE]
      BY <1>7, <2>2, OnErrorCases DEF Remove
    <3>4. timer'[e] = FALSE /\ \A t \in Spawns \ {e} : timer'[t] = timer[t]
      BY <3>1, <3>3, TimerCleared
    <3>5. \A t \in Spawns : session'[t] = IF t \in {e, s} THEN "complete" ELSE session[t]
      BY <3>1, <3>2
    <3> QED
      BY <3>1, <3>2, <3>3, <3>4, <3>5 DEF Ends
  <2> QED
    BY <2>1, <2>2
<1>8. ASSUME NEW s \in Spawns, Timeout(s)
      PROVE  Minor(s) \/ Ends(Entry(IdOf[s]), s, Entry(IdOf[s]), "rejected")
  <2>1. CASE Entry(IdOf[s]) = NoSpawn
    BY <1>8, <2>1, TimeoutCases DEF Minor
  <2>2. CASE Entry(IdOf[s]) # NoSpawn
    <3> DEFINE e == entries[IdOf[s]]
    <3>1. e \in Spawns /\ IdOf[e] = IdOf[s] /\ promise[e] = "pending"
      BY <2>2 DEF Entered
    <3> QED
      BY <1>8, <2>2, <3>1, TimeoutCases DEF Ends
  <2> QED
    BY <2>1, <2>2
<1>9. ASSUME NEW id \in Ids, Cancel(id) PROVE Ends(Entry(id), Entry(id), Entry(id), "rejected")
  BY <1>9 DEF Cancel, Terminate, Remove, Ends, Entered
<1>10. ASSUME NEW m \in Letters, Send(m) PROVE Minor(From[m])
  BY <1>2, <1>10 DEF Send
<1>11. ASSUME NEW s \in Spawns, WorkerDone(s) \/ WorkerError(s) \/ WorkerThrows(s) PROVE Minor(s)
  BY <1>2, <1>11 DEF WorkerDone, WorkerError, WorkerThrows
<1> QED
  BY <1>1, <1>3, <1>4, <1>5, <1>6, <1>7, <1>8, <1>9, <1>10, <1>11
     DEF Next, WorkerEnds, Handle

-----------------------------------------------------------------------------
(* Who shares an id *)

\* Nobody is undisturbed who was not so before, as promises do not return to
\* "none".
LEMMA UndisturbedBefore ==
  ASSUME \A t \in Spawns : promise'[t] = "none" => promise[t] = "none"
  PROVE  \A s \in Spawns : Undisturbed(s)' => Undisturbed(s)
BY DEF Undisturbed

\* What comes before an undisturbed spawn is undisturbed itself.
LEMMA UndisturbedPredecessor ==
  ASSUME NEW e \in Spawns, Undisturbed(e), NEW x \in Predecessors[e], x # e
  PROVE  x \in Spawns /\ Undisturbed(x)
<1> USE PoolAssumption
<1>1. x \in Spawns /\ IdOf[x] = IdOf[e] /\ Predecessors[x] \subseteq Predecessors[e]
  OBVIOUS
<1>2. ASSUME NEW u \in Spawns \ {x}, IdOf[x] = IdOf[u]
      PROVE  x \in Predecessors[u] \/ u \in Predecessors[x] \/ promise[u] = "none"
  <2>1. CASE u = e
    BY <2>1
  <2>2. CASE u # e
    <3>1. e \in Predecessors[u] \/ u \in Predecessors[e] \/ promise[u] = "none"
      BY <1>1, <1>2, <2>2 DEF Undisturbed
    <3>2. e \in Predecessors[u] => x \in Predecessors[u]
      OBVIOUS
    <3>3. u \in Predecessors[e] => x \in Predecessors[u] \/ u \in Predecessors[x]
      BY <1>2
    <3> QED
      BY <3>1, <3>2, <3>3
  <2> QED
    BY <2>1, <2>2
<1> QED
  BY <1>1, <1>2 DEF Undisturbed

\* A worker whose events the undisturbed e would answer for is e itself.
LEMMA SenderIsOwner ==
  ASSUME TypeOK, NEW x \in Spawns, NEW e \in Spawns, Entry(IdOf[x]) = e,
         Entered(IdOf[x]), Undisturbed(e), outbox[x] # <<>>,
         Begun(x), Posted(x), Mirrored(x)
  PROVE  x = e
<1> SUFFICES ASSUME x # e PROVE FALSE
  OBVIOUS
<1> USE PoolAssumption DEF Entry
<1>1. IdOf[e] = IdOf[x] /\ promise[e] = "pending"
  BY DEF Entered
<1>2. Alive(x) /\ promise[x] # "none"
  BY DEF Posted, Begun, Alive
<1>3. x \in Predecessors[e]
  BY <1>1, <1>2 DEF Undisturbed, Begun
<1>4. Undisturbed(x)
  BY <1>3, UndisturbedPredecessor
<1> QED
  BY <1>2, <1>4 DEF Mirrored

-----------------------------------------------------------------------------
(* What each kind of step preserves *)

\* All of IInv but for the types and the letters.
Kept ==
  /\ \A id \in Ids : Entered(id)
  /\ \A s \in Spawns : Begun(s) /\ Closed(s) /\ Mirrored(s)
  /\ \A k \in Parents \X Names : Named(k)
  /\ \A p \in Parents : Bounded(p)
  /\ AddressableByName

\* With fewer entries a session stays within its limit.
LEMMA BoundedSubset ==
  ASSUME NEW q \in Parents, Bounded(q), ActiveFor(q)' \subseteq ActiveFor(q)
  PROVE  Bounded(q)'
<1>1. /\ IsFiniteSet(ActiveFor(q)') /\ IsFiniteSet(ActiveFor(q))
      /\ Cardinality(ActiveFor(q)') <= Cardinality(ActiveFor(q))
  BY FS_Subset DEF Bounded
<1>2. Cardinality(ActiveFor(q)') \in Nat /\ Cardinality(ActiveFor(q)) \in Nat
  BY <1>1, FS_CardinalityType
<1> QED
  BY <1>1, <1>2, PoolAssumption DEF Bounded

\* The removal of an entry.
LEMMA EndsKeeps ==
  ASSUME IInv, TypeOK', NEW e, NEW x, NEW p, NEW o, Ends(e, x, p, o)
  PROVE  Kept'
<1> USE PoolAssumption DEF Entry
<1>t. TypeOK /\ \A id \in Ids : Entered(id)
  BY DEF IInv
<1>i. ASSUME NEW s \in Spawns PROVE Begun(s) /\ Posted(s) /\ Closed(s) /\ Mirrored(s)
  BY DEF IInv
<1>1. /\ e \in Spawns /\ x \in Spawns /\ p \in {e, x} /\ o \in {"resolved", "rejected"}
      /\ entries[IdOf[x]] = e /\ IdOf[e] = IdOf[x] /\ promise[e] = "pending" /\ Alive(e)
      /\ p # e \/ o = "resolved" => outbox[x] # <<>>
  BY <1>t DEF Ends, Entered
<1>2. \A id \in Ids : entries'[id] = IF id = IdOf[e] THEN NoSpawn ELSE entries[id]
  BY <1>t, <1>1 DEF Ends, TypeOK
<1>3. \A t \in Spawns : thread'[t] = IF t = e THEN "terminated" ELSE thread[t]
  BY <1>t, <1>1 DEF Ends, TypeOK
<1>4. \A t \in Spawns : promise'[t] = IF t = p /\ promise[t] = "pending" THEN o ELSE promise[t]
  BY <1>t, <1>1 DEF Ends, Settled, TypeOK
<1>5. \A t \in Spawns : promise'[t] = "none" <=> promise[t] = "none"
  BY <1>1, <1>4
<1>6. \A t \in Spawns : Undisturbed(t)' => Undisturbed(t)
  BY <1>5, UndisturbedBefore
<1>7. \A t \in Spawns \ {e} : Alive(t)' <=> Alive(t)
  BY <1>3 DEF Alive
<1>8. ~Alive(e)'
  BY <1>1, <1>3 DEF Alive
<1>9. ASSUME NEW id \in Ids PROVE Entered(id)'
  <2> SUFFICES ASSUME entries'[id] # NoSpawn PROVE Entered(id)'
    BY DEF Entered
  <2> DEFINE f == entries[id]
  <2>1. id # IdOf[e] /\ entries'[id] = f /\ f # NoSpawn
    BY <1>2
  <2>2. f \in Spawns /\ IdOf[f] = id /\ Alive(f) /\ promise[f] = "pending" /\ timer[f]
    BY <1>t, <2>1 DEF Entered, TypeOK
  <2>3. f # e /\ f # x /\ f # p
    BY <1>1, <2>1, <2>2
  <2>4. timer'[f]
    BY <2>2, <2>3 DEF Ends
  <2> QED
    BY <1>4, <1>7, <2>1, <2>2, <2>3, <2>4 DEF Entered
<1>10. ASSUME NEW s \in Spawns PROVE Begun(s)'
  BY <1>1, <1>3, <1>4, <1>5, <1>i DEF Begun
<1>11. ASSUME NEW s \in Spawns PROVE Closed(s)'
  <2>1. session'[s] = IF s \in {e, p} THEN "complete" ELSE session[s]
    BY DEF Ends
  <2> QED
    BY <1>1, <1>3, <1>4, <1>i, <2>1 DEF Closed
<1>12. ASSUME NEW s \in Spawns PROVE Mirrored(s)'
  <2> SUFFICES ASSUME Undisturbed(s)' PROVE Mirrored(s)'
    BY DEF Mirrored
  <2>1. Undisturbed(s)
    BY <1>6
  <2>2. CASE s = e
    <3>1. outbox[x] # <<>> => x = e
      BY <1>1, <1>i, <1>t, <2>1, <2>2, SenderIsOwner
    <3>2. p = e
      BY <1>1, <3>1
    <3>3. promise'[e] = o /\ timer'[e] = FALSE /\ entries'[IdOf[e]] = NoSpawn
      BY <1>1, <1>2, <1>4, <3>2 DEF Ends
    <3>4. o = "resolved" => result'[e] = e
      BY <1>1, <3>1, <3>2 DEF Ends
    <3> QED
      BY <1>1, <1>8, <2>2, <3>3, <3>4 DEF Mirrored
  <2>3. CASE s # e
    <3>1. Alive(s) => entries[IdOf[s]] = s
      BY <1>i, <2>1 DEF Mirrored
    <3>2. s = x => ~Alive(s)
      BY <1>1, <2>3, <3>1
    <3>3. s # p
      BY <1>1, <1>i, <2>3, <3>2 DEF Posted
    <3>4. promise'[s] = promise[s] /\ result'[s] = result[s]
      BY <1>4, <2>3, <3>3 DEF Ends
    <3>5. timer'[s] = timer[s]
      BY <1>i, <2>1, <2>3, <3>2 DEF Ends, Mirrored
    <3>6. entries'[IdOf[s]] = s <=> entries[IdOf[s]] = s
      BY <1>1, <1>2, <2>3
    <3> QED
      BY <1>7, <1>i, <2>1, <2>3, <3>4, <3>5, <3>6 DEF Mirrored
  <2> QED
    BY <2>2, <2>3
<1>13. ASSUME NEW k \in Parents \X Names PROVE Named(k)'
  <2>1. byName'[k] # NoId => byName'[k] = byName[k]
    BY <1>t DEF Ends, TypeOK
  <2> QED
    BY <1>5, <2>1 DEF IInv, Named, Key
<1>14. ASSUME NEW q \in Parents PROVE Bounded(q)'
  <2>1. ActiveFor(q)' \subseteq ActiveFor(q)
    BY <1>2 DEF ActiveFor
  <2>2. Bounded(q)
    BY DEF IInv
  <2> QED
    BY <2>1, <2>2, BoundedSubset
<1>15. AddressableByName'
  <2> SUFFICES ASSUME NEW s \in Spawns, Undisturbed(s)', Alive(s)',
                      \A t \in Spawns \ {s} : Key(t) = Key(s) => promise'[t] = "none" \/ t \in Predecessors[s]
               PROVE  byName'[Key(s)] = IdOf[s]
    BY DEF AddressableByName, Key
  <2>1. s # e /\ Undisturbed(s) /\ Alive(s)
    BY <1>6, <1>7, <1>8
  <2>2. byName[Key(s)] = IdOf[s]
    BY <1>5, <2>1 DEF IInv, AddressableByName
  <2>3. e \notin Predecessors[s]
    BY <1>1, <1>i, <2>1 DEF Begun, Alive
  <2>4. Key(e) # Key(s)
    BY <1>1, <1>5, <2>1, <2>3
  <2> QED
    BY <1>t, <2>2, <2>4 DEF Ends, TypeOK, Key
<1> QED
  BY <1>9, <1>10, <1>11, <1>12, <1>13, <1>14, <1>15 DEF Kept

\* A call of spawn().
LEMMA SpawnKeeps ==
  ASSUME IInv, TypeOK', NEW t \in Spawns, Spawn(t)
  PROVE  Kept'
<1> USE PoolAssumption DEF Entry, Key
<1>t. TypeOK /\ \A id \in Ids : Entered(id)
  BY DEF IInv
<1>i. ASSUME NEW s \in Spawns PROVE Begun(s) /\ Closed(s) /\ Mirrored(s)
  BY DEF IInv
<1>1. /\ promise[t] = "none" /\ thread[t] = "none"
      /\ \A u \in Predecessors[t] : promise[u] \in {"resolved", "rejected"}
  BY <1>i DEF Spawn, MayCall, Begun
<1>2. /\ \A id \in Ids : entries'[id] = IF id = IdOf[t] THEN t ELSE entries[id]
      /\ \A s \in Spawns : thread'[s] = IF s = t THEN "running" ELSE thread[s]
      /\ \A s \in Spawns : promise'[s] = IF s = t THEN "pending" ELSE promise[s]
      /\ \A s \in Spawns : session'[s] = IF s = t THEN "active" ELSE session[s]
      /\ timer'[t] /\ \A s \in Spawns \ {t} : timer'[s] = timer[s]
      /\ \A k \in Parents \X Names : byName'[k] = IF k = Key(t) THEN IdOf[t] ELSE byName[k]
      /\ result' = result
  BY <1>t DEF Spawn, TypeOK
<1>3. ASSUME NEW s \in Spawns, t \in Predecessors[s] PROVE promise[s] = "none"
  BY <1>1, <1>3, <1>i DEF Begun
<1>4. \A s \in Spawns : Undisturbed(s)' => Undisturbed(s)
  BY <1>1, <1>2, UndisturbedBefore
<1>5. \A s \in Spawns \ {t} : Alive(s)' <=> Alive(s)
  BY <1>2 DEF Alive
<1>6. Alive(t)' /\ ~Alive(t)
  BY <1>1, <1>2 DEF Alive
<1>7. ASSUME NEW id \in Ids PROVE Entered(id)'
  <2>1. CASE id = IdOf[t]
    BY <1>2, <1>6, <2>1 DEF Entered
  <2>2. CASE id # IdOf[t]
    <3> SUFFICES ASSUME entries[id] # NoSpawn PROVE Entered(id)'
      BY <1>2, <2>2 DEF Entered
    <3>1. entries[id] \in Spawns \ {t} /\ Entered(id)
      BY <1>t, <2>2 DEF Entered, TypeOK
    <3> QED
      BY <1>2, <1>5, <2>2, <3>1 DEF Entered
  <2> QED
    BY <2>1, <2>2
<1>8. ASSUME NEW s \in Spawns PROVE Begun(s)'
  BY <1>1, <1>2, <1>3, <1>i DEF Begun
<1>9. ASSUME NEW s \in Spawns PROVE Closed(s)'
  BY <1>2, <1>i DEF Closed
<1>10. ASSUME NEW s \in Spawns PROVE Mirrored(s)'
  <2> SUFFICES ASSUME Undisturbed(s)' PROVE Mirrored(s)'
    BY DEF Mirrored
  <2>1. CASE s = t
    BY <1>2, <1>6, <2>1 DEF Mirrored
  <2>2. CASE s # t
    <3>1. Mirrored(s) /\ Undisturbed(s)
      BY <1>4, <1>i
    <3>2. CASE IdOf[s] # IdOf[t]
      BY <1>2, <1>5, <2>2, <3>1, <3>2 DEF Mirrored
    <3>3. CASE IdOf[s] = IdOf[t]
      <4>1. s \in Predecessors[t] \/ t \in Predecessors[s]
        BY <1>2, <2>2, <3>3 DEF Undisturbed
      <4>2. promise[s] # "pending"
        BY <1>1, <1>3, <4>1
      <4>3. ~Alive(s)
        BY <3>1, <4>2 DEF Mirrored
      <4>4. entries'[IdOf[s]] # s
        BY <1>2, <2>2, <3>3
      <4> QED
        BY <1>2, <1>5, <2>2, <3>1, <4>2, <4>3, <4>4 DEF Mirrored
    <3> QED
      BY <3>2, <3>3
  <2> QED
    BY <2>1, <2>2
<1>11. ASSUME NEW k \in Parents \X Names PROVE Named(k)'
  <2>1. CASE k = Key(t)
    BY <1>2, <2>1 DEF Named
  <2>2. CASE k # Key(t)
    <3>1. byName'[k] = byName[k] /\ Named(k)
      BY <1>2, <2>2 DEF IInv
    <3> QED
      BY <1>2, <3>1 DEF Named
  <2> QED
    BY <2>1, <2>2
<1>12. ASSUME NEW q \in Parents PROVE Bounded(q)'
  <2>1. Bounded(q)
    BY DEF IInv
  <2>2. CASE q # ParentOf[t]
    <3>1. ActiveFor(q)' \subseteq ActiveFor(q)
      BY <1>2, <2>2 DEF ActiveFor
    <3> QED
      BY <2>1, <3>1, BoundedSubset
  <2>3. CASE q = ParentOf[t]
    <3> DEFINE Before == ActiveFor(q)
               After == ActiveFor(q)'
    <3>1. After \subseteq Before \cup {IdOf[t]}
      BY <1>2 DEF ActiveFor
    <3>2. IsFiniteSet(Before) /\ Cardinality(Before) < MaxWorkers
      BY <2>1, <2>3 DEF Bounded, Spawn
    <3> HIDE DEF Before, After
    <3>3. /\ IsFiniteSet(Before \cup {IdOf[t]})
          /\ Cardinality(Before \cup {IdOf[t]}) <= Cardinality(Before) + 1
      <4>1. Cardinality(Before) \in Nat
        BY <3>2, FS_CardinalityType
      <4>2. /\ IsFiniteSet(Before \cup {IdOf[t]})
            /\ \/ Cardinality(Before \cup {IdOf[t]}) = Cardinality(Before)
               \/ Cardinality(Before \cup {IdOf[t]}) = Cardinality(Before) + 1
        BY <3>2, FS_AddElement
      <4> QED
        BY <4>1, <4>2
    <3>4. IsFiniteSet(After) /\ Cardinality(After) <= Cardinality(Before \cup {IdOf[t]})
      BY <3>1, <3>3, FS_Subset
    <3>5. Cardinality(After) <= MaxWorkers
      <4>1. Cardinality(Before) \in Nat /\ Cardinality(After) \in Nat /\ Cardinality(Before \cup {IdOf[t]}) \in Nat
        BY <3>2, <3>3, <3>4, FS_CardinalityType
      <4> QED
        BY <3>2, <3>3, <3>4, <4>1
    <3> QED
      BY <3>4, <3>5 DEF After, Bounded
  <2> QED
    BY <2>2, <2>3
<1>13. AddressableByName'
  <2> SUFFICES ASSUME NEW s \in Spawns, Undisturbed(s)', Alive(s)',
                      \A u \in Spawns \ {s} : Key(u) = Key(s) => promise'[u] = "none" \/ u \in Predecessors[s]
               PROVE  byName'[Key(s)] = IdOf[s]
    BY DEF AddressableByName
  <2>1. CASE s = t
    BY <1>2, <2>1
  <2>2. CASE s # t
    <3>1. Alive(s) /\ promise[s] # "none"
      BY <1>5, <1>i, <2>2 DEF Begun, Alive
    <3>2. Key(t) # Key(s)
      BY <1>2, <1>3, <2>2, <3>1
    <3>3. byName[Key(s)] = IdOf[s]
      BY <1>1, <1>2, <1>4, <3>1, <3>2 DEF IInv, AddressableByName
    <3> QED
      BY <1>2, <3>2, <3>3
  <2> QED
    BY <2>1, <2>2
<1> QED
  BY <1>7, <1>8, <1>9, <1>10, <1>11, <1>12, <1>13 DEF Kept

\* A step that leaves the entries alone.
LEMMA MinorKeeps ==
  ASSUME IInv, TypeOK', NEW s \in Spawns, Minor(s)
  PROVE  Kept'
<1> USE PoolAssumption DEF Entry, Key
<1>t. TypeOK /\ \A id \in Ids : Entered(id)
  BY DEF IInv
<1>i. ASSUME NEW t \in Spawns PROVE Begun(t) /\ Posted(t) /\ Closed(t) /\ Mirrored(t)
  BY DEF IInv
<1>1. entries' = entries /\ byName' = byName /\ result' = result
  BY DEF Minor
<1>2. ASSUME NEW t \in Spawns
      PROVE  /\ Alive(t)' <=> Alive(t)
             /\ thread'[t] = thread[t] \/ Alive(t)'
             /\ timer'[t] = timer[t] \/ (entries[IdOf[t]] = NoSpawn /\ ~timer'[t])
  BY DEF Minor, Alive
<1>3. ASSUME NEW t \in Spawns
      PROVE  \/ promise'[t] = promise[t] /\ session'[t] = session[t]
             \/ /\ MayCall(t) /\ promise'[t] = "rejected" /\ session'[t] = session[t]
             \/ /\ outbox[t] # <<>> /\ entries[IdOf[t]] = NoSpawn /\ session'[t] = "complete"
                /\ promise'[t] = IF promise[t] = "pending" THEN "rejected" ELSE promise[t]
  BY <1>t DEF Minor, Settled, TypeOK
<1>4. \A t \in Spawns : promise'[t] = "none" => promise[t] = "none"
  BY <1>3
<1>5. \A t \in Spawns : Undisturbed(t)' => Undisturbed(t)
  BY <1>4, UndisturbedBefore
<1>6. ASSUME NEW t \in Spawns, promise[t] \in {"resolved", "rejected"} PROVE promise'[t] = promise[t]
  BY <1>3, <1>6 DEF MayCall
<1>7. ASSUME NEW id \in Ids PROVE Entered(id)'
  <2> SUFFICES ASSUME entries[id] # NoSpawn PROVE Entered(id)'
    BY <1>1 DEF Entered
  <2> DEFINE f == entries[id]
  <2>1. f \in Spawns /\ IdOf[f] = id /\ Alive(f) /\ promise[f] = "pending" /\ timer[f]
    BY <1>t DEF Entered, TypeOK
  <2>2. promise'[f] = "pending" /\ timer'[f]
    BY <1>2, <1>3, <2>1 DEF MayCall
  <2> QED
    BY <1>1, <1>2, <2>1, <2>2 DEF Entered
<1>8. ASSUME NEW t \in Spawns PROVE Begun(t)'
  <2>1. CASE promise'[t] = "none"
    BY <1>2, <1>4, <1>i, <2>1 DEF Begun, Alive
  <2>2. CASE promise'[t] # "none"
    <3>1. \A u \in Predecessors[t] : promise[u] \in {"resolved", "rejected"}
      BY <1>3, <1>i, <2>2 DEF Begun, MayCall
    <3> QED
      BY <1>6, <2>2, <3>1 DEF Begun
  <2> QED
    BY <2>1, <2>2
<1>9. ASSUME NEW t \in Spawns PROVE Closed(t)'
  BY <1>2, <1>3, <1>i DEF Closed, Begun, MayCall, Alive
<1>10. ASSUME NEW t \in Spawns PROVE Mirrored(t)'
  <2> SUFFICES ASSUME Undisturbed(t)' PROVE Mirrored(t)'
    BY DEF Mirrored
  <2>1. Mirrored(t) /\ Undisturbed(t) /\ Posted(t) /\ t # NoSpawn
    BY <1>5, <1>i
  <2>2. promise'[t] = "pending" <=> promise[t] = "pending"
    BY <1>3, <2>1 DEF Mirrored, Posted, MayCall
  <2>3. promise'[t] = "resolved" => promise[t] = "resolved"
    BY <1>3
  <2>4. timer'[t] <=> timer[t]
    BY <1>2, <2>1 DEF Mirrored
  <2> QED
    BY <1>1, <1>2, <2>1, <2>2, <2>3, <2>4 DEF Mirrored
<1>11. ASSUME NEW k \in Parents \X Names PROVE Named(k)'
  BY <1>1, <1>4 DEF IInv, Named
<1>12. ASSUME NEW q \in Parents PROVE Bounded(q)'
  <2>1. ActiveFor(q)' \subseteq ActiveFor(q)
    BY <1>1 DEF ActiveFor
  <2> QED
    BY <2>1, BoundedSubset DEF IInv
<1>13. AddressableByName'
  BY <1>1, <1>2, <1>4, <1>5 DEF IInv, AddressableByName
<1> QED
  BY <1>7, <1>8, <1>9, <1>10, <1>11, <1>12, <1>13 DEF Kept

\* The process dies and starts again.
LEMMA RestartKeeps ==
  ASSUME IInv, Restart
  PROVE  Kept'
<1> USE PoolAssumption DEF Entry, Key, Restart
<1>t. TypeOK
  BY DEF IInv
<1>i. ASSUME NEW t \in Spawns PROVE Begun(t) /\ Closed(t) /\ Mirrored(t)
  BY DEF IInv
<1>1. \A t \in Spawns : promise'[t] = "none" => promise[t] = "none"
  OBVIOUS
<1>2. \A t \in Spawns : Undisturbed(t)' => Undisturbed(t)
  BY <1>1, UndisturbedBefore
<1>3. \A t \in Spawns : ~Alive(t)'
  BY DEF Alive
<1>4. \A id \in Ids : Entered(id)'
  BY DEF Entered
<1>5. ASSUME NEW t \in Spawns PROVE Begun(t)'
  BY <1>i DEF Begun, Alive
<1>6. ASSUME NEW t \in Spawns PROVE Closed(t)'
  BY <1>i, <1>t DEF Begun, Closed, Alive, TypeOK
<1>7. ASSUME NEW t \in Spawns PROVE Mirrored(t)'
  BY <1>2, <1>3, <1>i DEF Mirrored
<1>8. \A k \in Parents \X Names : Named(k)'
  BY DEF Named
<1>9. ASSUME NEW q \in Parents PROVE Bounded(q)'
  <2>1. ActiveFor(q)' \subseteq ActiveFor(q)
    BY DEF ActiveFor
  <2> QED
    BY <2>1, BoundedSubset DEF IInv
<1>10. AddressableByName'
  BY <1>3 DEF AddressableByName
<1> QED
  BY <1>4, <1>5, <1>6, <1>7, <1>8, <1>9, <1>10 DEF Kept

-----------------------------------------------------------------------------
(* The events of the workers *)

\* Posted speaks of the letters whatever their place.
LEMMA PostedPart ==
  ASSUME TypeOK, TypeOK', NEW t \in Spawns, Posted(t), Alive(t) => Alive(t)',
         \A i \in 1..Len(outbox'[t]) :
            \E j \in 1..Len(outbox[t]) : outbox'[t][i] = outbox[t][j]
  PROVE  Posted(t)'
<1>1. outbox[t] \in Seq(Events) /\ outbox'[t] \in Seq(Events)
  BY DEF TypeOK, Events
<1>2. outbox'[t] # <<>> => outbox[t] # <<>>
  <2> SUFFICES ASSUME outbox'[t] # <<>> PROVE outbox[t] # <<>>
    OBVIOUS
  <2>1. 1 \in 1..Len(outbox'[t])
    BY <1>1
  <2> QED
    BY <1>1, <2>1
<1> QED
  BY <1>2 DEF Posted

\* No worker is asked to deliver what another wrote.
LEMMA PostedStep == IInv /\ TypeOK' /\ [Next]_vars => \A t \in Spawns : Posted(t)'
<1> SUFFICES ASSUME IInv, TypeOK', [Next]_vars, NEW t \in Spawns PROVE Posted(t)'
  OBVIOUS
<1> USE PoolAssumption DEF Entry
<1>t. TypeOK /\ Posted(t) /\ Begun(t) /\ outbox \in Outboxes /\ outbox[t] \in Seq(Events)
  BY DEF IInv, TypeOK, Outboxes, Events
<1>a. ASSUME outbox'[t] = outbox[t], Alive(t) => Alive(t)' PROVE Posted(t)'
  BY <1>a, <1>t, PostedPart
<1>b. ASSUME outbox'[t] = <<>> PROVE Posted(t)'
  BY <1>b DEF Posted
<1>c. ASSUME outbox[t] # <<>>, outbox'[t] = Tail(outbox[t]), Alive(t) => Alive(t)' PROVE Posted(t)'
  <2>1. \A i \in 1..Len(outbox'[t]) :
          i + 1 \in 1..Len(outbox[t]) /\ outbox'[t][i] = outbox[t][i + 1]
    BY <1>c, <1>t, TailLeft
  <2> QED
    <3>1. ASSUME NEW i \in 1..Len(outbox'[t])
          PROVE  \E j \in 1..Len(outbox[t]) : outbox'[t][i] = outbox[t][j]
      BY <2>1
    <3> QED
      BY <1>c, <1>t, <3>1, PostedPart
<1>1. CASE UNCHANGED vars
  BY <1>1, <1>a DEF vars, Alive
<1>2. ASSUME NEW s \in Spawns, SpawnFull(s) \/ Spawn(s) \/ WorkerSilent(s) PROVE Posted(t)'
  <2>1. outbox' = outbox
    BY <1>2 DEF SpawnFull, Spawn, WorkerSilent
  <2>2. Alive(t) => Alive(t)'
    BY <1>2, <1>t DEF SpawnFull, Spawn, WorkerSilent, Alive, TypeOK
  <2> QED
    BY <1>a, <2>1, <2>2
<1>3. ASSUME NEW s \in Spawns, NEW ev \in Events, NEW after \in {"running", "silent", "exited"},
             Post(s, ev, after), ev \in Letters => From[ev] = s
      PROVE  Posted(t)'
  <2>1. outbox' = [outbox EXCEPT ![s] = Append(@, ev)] /\ thread' = [thread EXCEPT ![s] = after]
    BY <1>3 DEF Post
  <2>2. Alive(s)' /\ (Alive(t) => Alive(t)')
    BY <1>t, <2>1 DEF Alive, TypeOK
  <2>3. /\ t # s => outbox'[t] = outbox[t]
        /\ \A i \in 1..Len(outbox'[s]) : outbox'[s][i] = ev \/
              (i \in 1..Len(outbox[s]) /\ outbox'[s][i] = outbox[s][i])
    BY <1>t, <2>1, PostedNext
  <2>4. CASE t = s
    BY <1>3, <1>t, <2>2, <2>3, <2>4 DEF Posted
  <2> QED
    BY <1>a, <2>2, <2>3, <2>4
<1>4. ASSUME NEW s \in Spawns, WorkerDone(s) \/ WorkerError(s) \/ WorkerThrows(s) PROVE Posted(t)'
  <2>1. PICK ev \in {"done", "error", "onerror"}, after \in {"running", "silent", "exited"} :
          Post(s, ev, after)
    BY <1>4 DEF WorkerDone, WorkerError, WorkerThrows
  <2>2. ev \in Events /\ ev \notin Letters
    BY <2>1 DEF Events
  <2> QED
    BY <1>3, <2>1, <2>2
<1>5. ASSUME NEW m \in Letters, Send(m) PROVE Posted(t)'
  <2>1. From[m] \in Spawns /\ m \in Events
    BY DEF Events
  <2>2. Post(From[m], m, "running")
    BY <1>5 DEF Send
  <2> QED
    BY <1>3, <2>1, <2>2
<1>6. ASSUME NEW s \in Spawns, Route(s) \/ HandleStray(s) PROVE Posted(t)'
  <2>1. outbox[s] # <<>> /\ outbox' = [outbox EXCEPT ![s] = Tail(@)] /\ thread' = thread
    BY <1>6 DEF Route, HandleStray
  <2> QED
    BY <1>a, <1>c, <1>t, <2>1 DEF Alive, Outboxes
<1>7. ASSUME NEW s \in Spawns, NEW e \in Spawns, outbox[s] # <<>>, outbox' = Drop(s, e),
             thread' = [thread EXCEPT ![e] = "terminated"]
      PROVE  Posted(t)'
  <2>1. t # e => (Alive(t) => Alive(t)')
    BY <1>7, <1>t DEF Alive, TypeOK
  <2>2. /\ t = e => outbox'[t] = <<>>
        /\ t # e /\ t = s => outbox'[t] = Tail(outbox[t])
        /\ t # e /\ t # s => outbox'[t] = outbox[t]
    BY <1>7, <1>t, DropLeft
  <2> QED
    BY <1>7, <1>a, <1>b, <1>c, <2>1, <2>2
<1>8. ASSUME NEW e \in Spawns, outbox' = [outbox EXCEPT ![e] = <<>>],
             thread' = [thread EXCEPT ![e] = "terminated"]
      PROVE  Posted(t)'
  <2>1. t # e => (Alive(t) => Alive(t)')
    BY <1>8, <1>t DEF Alive, TypeOK
  <2>2. outbox'[t] = IF t = e THEN <<>> ELSE outbox[t]
    BY <1>8, <1>t DEF Outboxes
  <2> QED
    BY <1>a, <1>b, <2>1, <2>2
<1>9. ASSUME NEW s \in Spawns, HandleDone(s) \/ HandleError(s) PROVE Posted(t)'
  <2>1. entries[IdOf[s]] \in Spawns
    BY <1>9, <1>t DEF HandleDone, HandleError, TypeOK
  <2>2. outbox[s] # <<>> /\ outbox' = Drop(s, entries[IdOf[s]])
        /\ thread' = [thread EXCEPT ![entries[IdOf[s]]] = "terminated"]
    BY <1>9 DEF HandleDone, HandleError, Remove
  <2> QED
    BY <1>7, <2>1, <2>2
<1>10. ASSUME NEW s \in Spawns, HandleOnError(s) PROVE Posted(t)'
  <2>1. outbox[s] # <<>>
    BY <1>10, OnErrorCases
  <2>2. CASE entries[IdOf[s]] = NoSpawn
    <3>1. outbox' = [outbox EXCEPT ![s] = Tail(@)] /\ thread' = thread
      BY <1>10, <2>2, OnErrorCases
    <3> QED
      BY <1>a, <1>c, <1>t, <2>1, <3>1 DEF Alive, Outboxes
  <2>3. CASE entries[IdOf[s]] # NoSpawn
    <3>1. entries[IdOf[s]] \in Spawns
      BY <1>t, <2>3 DEF TypeOK
    <3>2. /\ outbox' = Drop(s, entries[IdOf[s]])
          /\ thread' = [thread EXCEPT ![entries[IdOf[s]]] = "terminated"]
      BY <1>10, <2>3, OnErrorCases DEF Remove
    <3> QED
      BY <1>7, <2>1, <3>1, <3>2
  <2> QED
    BY <2>2, <2>3
<1>11. ASSUME NEW s \in Spawns, Timeout(s) PROVE Posted(t)'
  <2>1. CASE entries[IdOf[s]] = NoSpawn
    <3>1. UNCHANGED <<thread, outbox>>
      BY <1>11, <2>1, TimeoutCases
    <3> QED
      BY <1>a, <3>1 DEF Alive
  <2>2. CASE entries[IdOf[s]] # NoSpawn
    <3>1. entries[IdOf[s]] \in Spawns
      BY <1>t, <2>2 DEF TypeOK
    <3>2. /\ outbox' = [outbox EXCEPT ![entries[IdOf[s]]] = <<>>]
          /\ thread' = [thread EXCEPT ![entries[IdOf[s]]] = "terminated"]
      BY <1>11, <2>2, TimeoutCases
    <3> QED
      BY <1>8, <3>1, <3>2
  <2> QED
    BY <2>1, <2>2
<1>12. ASSUME NEW id \in Ids, Cancel(id) PROVE Posted(t)'
  <2>1. entries[id] \in Spawns
    BY <1>12, <1>t DEF Cancel, TypeOK
  <2>2. /\ outbox' = [outbox EXCEPT ![entries[id]] = <<>>]
        /\ thread' = [thread EXCEPT ![entries[id]] = "terminated"]
    BY <1>12 DEF Cancel, Terminate, Remove
  <2> QED
    BY <1>8, <2>1, <2>2
<1>13. CASE Restart
  <2>1. outbox'[t] = <<>>
    BY <1>13 DEF Restart
  <2> QED
    BY <1>b, <2>1
<1> QED
  BY <1>1, <1>2, <1>4, <1>5, <1>6, <1>9, <1>10, <1>11, <1>12, <1>13
     DEF Next, WorkerEnds, Handle

-----------------------------------------------------------------------------
(* The letters *)

\* Two spawns under one id of which one is undisturbed are of one session.
LEMMA SameSession ==
  ASSUME NEW t \in Spawns, NEW u \in Spawns, Undisturbed(t), IdOf[u] = IdOf[t], promise[u] # "none"
  PROVE  ParentOf[u] = ParentOf[t]
BY PoolAssumption DEF Undisturbed

\* Recipients are found by name or among the entries of the session.
LEMMA RecipientsFound ==
  ASSUME TypeOK, NEW m \in Letters, NEW e \in Spawns, NEW i \in Recipients(m, e)
  PROVE  /\ i \in Ids
         /\ i \in ActiveFor(ParentOf[e]) \/ \E n \in Names : i = byName[<<ParentOf[e], n>>] /\ i # NoId
<1> DEFINE named == {byName[<<ParentOf[e], n>>] : n \in {To[m]} \cap Names} \ {NoId}
<1>1. i \in named \/ i \in ActiveFor(ParentOf[e])
  BY DEF Recipients
<1>2. CASE i \in ActiveFor(ParentOf[e])
  BY <1>2 DEF ActiveFor
<1>3. CASE i \in named
  <2>1. i # NoId /\ \E n \in Names : i = byName[<<ParentOf[e], n>>]
    BY <1>3, Zenon
  <2>2. i \in Ids
    BY <2>1, PoolAssumption DEF TypeOK
  <2> QED
    BY <2>1, <2>2
<1> QED
  BY <1>1, <1>2, <1>3

\* Whom a letter reaches is of the session of the one who has its sender's id.
LEMMA RecipientsOfSession ==
  ASSUME IInv, NEW m \in Letters, NEW e \in Spawns, NEW i \in Recipients(m, e),
         entries[i] \in Spawns, Undisturbed(entries[i]), i \in Ids
  PROVE  ParentOf[entries[i]] = ParentOf[e]
<1> USE PoolAssumption DEF Entry
<1>1. CASE i \in ActiveFor(ParentOf[e])
  BY <1>1 DEF ActiveFor
<1>2. CASE i \notin ActiveFor(ParentOf[e])
  <2>0. TypeOK
    BY DEF IInv
  <2>1. PICK n \in Names : i = byName[<<ParentOf[e], n>>] /\ i # NoId
    BY <1>2, <2>0, RecipientsFound
  <2>2. Named(<<ParentOf[e], n>>)
    BY DEF IInv
  <2>3. PICK u \in Spawns : Key(u) = <<ParentOf[e], n>> /\ IdOf[u] = i /\ promise[u] # "none"
    BY <2>1, <2>2 DEF Named
  <2>4. IdOf[entries[i]] = i /\ ParentOf[u] = ParentOf[e]
    BY <2>3 DEF IInv, Entered, Key
  <2> QED
    BY <2>3, <2>4, SameSession
<1> QED
  BY <1>1, <1>2

\* No letter leaves its session.
LEMMA MailStep == IInv /\ TypeOK' /\ [Next]_vars => MailStaysInSession'
<1> SUFFICES ASSUME IInv, TypeOK', [Next]_vars PROVE MailStaysInSession'
  OBVIOUS
<1> USE PoolAssumption DEF Entry
<1>t. TypeOK /\ MailStaysInSession /\ \A id \in Ids : Entered(id)
  BY DEF IInv
<1>1. \A s \in Spawns : promise'[s] = "none" => promise[s] = "none"
  <2>1. CASE \E e, x, p, o : Ends(e, x, p, o)
    BY <1>t, <2>1 DEF Ends, Settled, TypeOK
  <2>2. CASE \E s \in Spawns : Minor(s)
    <3>1. PICK s \in Spawns : Minor(s)
      BY <2>2
    <3>2. ASSUME NEW t \in Spawns, promise' = Settled(t, "rejected"), promise'[t] = "none"
          PROVE  promise[t] = "none"
      BY <1>t, <3>2 DEF Settled, TypeOK
    <3> QED
      BY <3>1, <3>2 DEF Minor
  <2>3. CASE \E s \in Spawns : Spawn(s)
    BY <1>t, <2>3 DEF Spawn, TypeOK
  <2>4. CASE Restart
    BY <2>4 DEF Restart
  <2>5. CASE UNCHANGED vars
    BY <2>5 DEF vars
  <2> QED
    BY <1>t, <2>1, <2>2, <2>3, <2>4, <2>5, StepKinds
<1>2. \A s \in Spawns : Undisturbed(s)' => Undisturbed(s)
  BY <1>1, UndisturbedBefore
<1>3. CASE inbox' = inbox
  BY <1>2, <1>3, <1>t DEF MailStaysInSession, TypeOK
<1>4. ASSUME NEW s \in Spawns, Route(s) PROVE MailStaysInSession'
  <2> SUFFICES ASSUME NEW t \in Spawns, NEW m \in inbox'[t], Undisturbed(t)', Undisturbed(From[m])'
               PROVE  ParentOf[t] = ParentOf[From[m]]
    BY DEF MailStaysInSession
  <2> DEFINE h == Head(outbox[s])
             e == entries[IdOf[s]]
             reached == IF e = NoSpawn THEN {} ELSE {entries[i] : i \in Recipients(h, e)}
  <2>1. /\ outbox[s] # <<>> /\ h \in Letters
        /\ inbox' = [u \in Spawns |-> IF u \in reached THEN inbox[u] \cup {h} ELSE inbox[u]]
    BY <1>4 DEF Route
  <2>2. m \in Letters /\ From[m] \in Spawns /\ Undisturbed(t) /\ Undisturbed(From[m])
    BY <1>2 DEF TypeOK
  <2>3. CASE m \in inbox[t]
    BY <1>t, <2>2, <2>3 DEF MailStaysInSession
  <2>4. CASE m \notin inbox[t]
    <3>1. m = h /\ t \in reached
      BY <2>1, <2>4
    <3>2. PICK i \in Recipients(h, e) : t = entries[i]
      BY <3>1
    <3>3. e \in Spawns
      BY <1>t, <3>1 DEF TypeOK
    <3>4. From[h] = s /\ Begun(s) /\ Posted(s) /\ Mirrored(s)
      <4>1. Posted(s) /\ Begun(s) /\ Mirrored(s)
        BY DEF IInv
      <4>2. outbox[s] \in Seq(Events)
        BY <1>t DEF TypeOK, Events
      <4>3. h = outbox[s][1] /\ 1 \in 1..Len(outbox[s])
        BY <2>1, <4>2
      <4> QED
        BY <2>1, <4>1, <4>3 DEF Posted
    <3>5. Alive(s) /\ e = s
      BY <2>1, <2>2, <3>1, <3>4 DEF Posted, Mirrored
    <3>6. i \in Ids
      BY <1>t, <2>1, <3>2, <3>3, RecipientsFound
    <3> QED
      BY <2>1, <2>2, <3>1, <3>2, <3>3, <3>4, <3>5, <3>6, RecipientsOfSession
  <2> QED
    BY <2>3, <2>4
<1>5. inbox' = inbox \/ \E s \in Spawns : Route(s)
  <2>1. ASSUME NEW s \in Spawns, HandleOnError(s) \/ Timeout(s) PROVE inbox' = inbox
    BY <2>1, OnErrorCases, TimeoutCases
  <2> QED
    BY <2>1 DEF Next, SpawnFull, Spawn, WorkerEnds, WorkerDone, WorkerError, WorkerSilent, WorkerThrows,
       Post, Send, Handle, HandleDone, HandleError, HandleStray, Cancel, Restart, vars
<1> QED
  BY <1>3, <1>4, <1>5

-----------------------------------------------------------------------------
(* The theorems *)

LEMMA InvStep == IInv /\ [Next]_vars => IInv'
<1> SUFFICES ASSUME IInv, [Next]_vars PROVE IInv'
  OBVIOUS
<1>1. TypeOK /\ TypeOK' /\ \A id \in Ids : Entered(id)
  BY TypeStep DEF IInv
<1>2. Kept'
  <2>1. CASE \E e, x, p, o : Ends(e, x, p, o)
    BY <1>1, <2>1, EndsKeeps
  <2>2. CASE \E s \in Spawns : Minor(s) \/ Spawn(s)
    BY <1>1, <2>2, MinorKeeps, SpawnKeeps
  <2>3. CASE Restart
    BY <2>3, RestartKeeps
  <2>4. CASE UNCHANGED vars
    BY <2>4 DEF vars, IInv, Kept, Entered, Begun, Closed, Mirrored, Named, Bounded, AddressableByName,
       Undisturbed, Alive, Entry, ActiveFor
  <2> QED
    BY <1>1, <2>1, <2>2, <2>3, <2>4, StepKinds
<1> QED
  BY <1>1, <1>2, PostedStep, MailStep DEF IInv, Kept

THEOREM Invariant == Spec => []IInv
BY InvInit, InvStep, PTL DEF Spec

\* Every variable keeps its type: no event finds an entry it cannot handle.
THEOREM TypeCorrect == Spec => []TypeOK
<1>1. IInv => TypeOK
  BY DEF IInv
<1> QED
  BY <1>1, Invariant, PTL

\* The pool knows every thread it started and nothing else.
THEOREM PoolMirrors == Spec => []PoolMirrorsWorkers
<1>1. IInv => PoolMirrorsWorkers
  BY DEF IInv, PoolMirrorsWorkers, Mirrored, Closed
<1> QED
  BY <1>1, Invariant, PTL

\* An entry of the pool has a thread, a caller and a timer, under any ids.
THEOREM EntriesLive == Spec => []EntryIsLive
<1>1. IInv => EntryIsLive
  BY DEF IInv, EntryIsLive, Entered, Entry
<1> QED
  BY <1>1, Invariant, PTL

\* A caller gets the result of its own worker.
THEOREM OwnResults == Spec => []OwnResultIfUndisturbed
<1>1. IInv => OwnResultIfUndisturbed
  BY DEF IInv, OwnResultIfUndisturbed, Mirrored
<1> QED
  BY <1>1, Invariant, PTL

\* An agent with a name of its own is found under it.
THEOREM Addressable == Spec => []AddressableByName
<1>1. IInv => AddressableByName
  BY DEF IInv
<1> QED
  BY <1>1, Invariant, PTL

\* No letter reaches another session.
THEOREM MailStays == Spec => []MailStaysInSession
<1>1. IInv => MailStaysInSession
  BY DEF IInv
<1> QED
  BY <1>1, Invariant, PTL

=============================================================================
