--------------------------- MODULE SnapshotHistory ---------------------------
(***************************************************************************)
(* The file snapshots behind undo, rewind and patch rollback:              *)
(* packages/core/src/snapshot/, the tools that take snapshots (write, edit,*)
(* apply_patch, undo), and the turn checkpoints of                         *)
(* packages/cli/src/tui/app/turn-checkpoints.ts.                           *)
(*                                                                         *)
(* A file tool pushes the pre-image of each of its files on the history of *)
(* its session and waits until the history is persisted before it writes.  *)
(* Persists are queued; each one copies ALL histories, awaits the write of *)
(* the history file, and then rebuilds the histories from its copy.  A     *)
(* checkpoint is only the length of the history at the start of a turn.    *)
(***************************************************************************)
EXTENDS Naturals, Sequences, FiniteSets, SequencesExt

CONSTANTS
  Calls,        \* tool calls of the agents
  Patches,      \* the calls that are apply_patch: they roll back on failure
  Undos,        \* the calls of the undo tool
  Paths,        \* files
  FilesOf,      \* the files each call changes, in order; none for an undo
  Scopes,       \* snapshot scopes, one per (workdir, session)
  ScopeOf,      \* the scope of each call
  UserScope,    \* the session whose turns the user rewinds
  User,         \* the user as an actor: takes a checkpoint, rewinds to it
  Original,     \* a file as it was before the agents came, perhaps absent: a
                \*   restore writes or unlinks it, and nothing else differs
  NoCheckpoint, NoCopy,
  MaxEntries,   \* MAX_HISTORY_ENTRIES
  MaxParallel,  \* bound: calls and rewinds under way at once
  MaxFaults     \* bound: skipped snapshots, failed restores, storage given up

Actors == Calls \cup {User}
Contents == Calls \cup {Original}
Snapshots == [path : Paths, content : Contents, scope : Scopes]

ASSUME SnapshotAssumption ==
  /\ Patches \subseteq Calls /\ Undos \subseteq Calls \ Patches
  /\ FilesOf \in [Calls -> Seq(Paths)]
  /\ \A c \in Calls \ Undos : FilesOf[c] # <<>>
  /\ ScopeOf \in [Calls -> Scopes]
  /\ UserScope \in Scopes /\ User \notin Calls /\ Original \notin Calls
  /\ MaxEntries \in Nat \ {0} /\ MaxParallel \in Nat \ {0} /\ MaxFaults \in Nat

VARIABLES
  disk,        \* content of each file
  histories,   \* the Map of SnapshotManager: scope -> array
  order,       \* insertion order of that Map's keys
  queue,       \* persistQueue: the actors whose persist has not finished
  copy,        \* `combined` of the persist being written, or NoCopy
  storage,     \* storageDir # null
  pc,          \* where each actor is
  at,          \* the file a call has got to
  got,         \* the content a takeSnapshot has read
  todo,        \* the snapshots an actor has still to restore
  mark,        \* history length a patch took before its first snapshot
  checkpoint,  \* the user's checkpoint: history length and disk, or NoCheckpoint
  faults,      \* how many of the failures that MaxFaults bounds there were
  accidents    \* history: what has come between the history and the disk

vars == <<disk, histories, order, queue, copy, storage, pc, at, got, todo,
          mark, checkpoint, faults, accidents>>

Scope(a) == IF a = User THEN UserScope ELSE ScopeOf[a]

File(c) == FilesOf[c][at[c]]

Resting == {"idle", "done", "failed"}
InFlight == {c \in Calls : pc[c] \notin Resting}
Peers(a) == {c \in InFlight \ {a} : ScopeOf[c] = Scope(a)}

Init ==
  /\ disk = [p \in Paths |-> Original]
  /\ histories = [s \in Scopes |-> <<>>]
  /\ order = <<>>
  /\ queue = <<>>
  /\ copy = NoCopy
  /\ storage = TRUE
  /\ pc = [a \in Actors |-> "idle"]
  /\ at = [c \in Calls |-> 1]
  /\ got = [c \in Calls |-> Original]
  /\ todo = [a \in Actors |-> <<>>]
  /\ mark = [c \in Calls |-> 0]
  /\ checkpoint = NoCheckpoint
  /\ faults = 0
  /\ accidents = {}

Goto(a, s) == pc' = [pc EXCEPT ![a] = s]

\* history(scope) adds an empty array for a scope the Map does not have.
Touch(s) == order' = IF Contains(order, s) THEN order ELSE Append(order, s)

Fault ==
  /\ faults < MaxFaults
  /\ faults' = faults + 1
  /\ accidents' = accidents \cup {"fault"}

Rewinding == pc[User] \in {"restore", "persist"}

\* The bound on what goes on at once.
Room == Cardinality(InFlight) + (IF Rewinding THEN 1 ELSE 0) < MaxParallel

MayStart(c) == pc[c] = "idle" /\ Room

\* A rollback, an undo, a checkpoint or a rewind and another call of the session
\* are under way at once.  The UI only looks at `loading` before it takes a
\* checkpoint or rewinds: an aborted turn has cleared it while tools of that
\* turn still write, and the next prompt may come while the files of a rewind
\* are being restored.
Overlap(a, others) ==
  IF Peers(a) \cap others # {} \/ (Scope(a) = UserScope /\ Rewinding)
  THEN {"overlap"} ELSE {}

Restoring == {c \in Calls : pc[c] = "restore"}

-----------------------------------------------------------------------------
(* The file tools *)

\* The calls of one step run concurrently.  A patch marks the history before
\* its first snapshot.
Start(c) ==
  /\ MayStart(c)
  /\ c \notin Undos
  /\ Goto(c, "read")
  /\ IF c \in Patches
     THEN /\ mark' = [mark EXCEPT ![c] = Len(histories[ScopeOf[c]])]
          /\ Touch(ScopeOf[c])
     ELSE UNCHANGED <<mark, order>>
  /\ accidents' = accidents \cup Overlap(c, Restoring)
  /\ UNCHANGED <<disk, histories, queue, copy, storage, at, got, todo,
                 checkpoint, faults>>

\* takeSnapshot: stat and readFile; ENOENT is a pre-image as well.
ReadPreImage(c) ==
  /\ pc[c] = "read"
  /\ got' = [got EXCEPT ![c] = disk[File(c)]]
  /\ Goto(c, "push")
  /\ UNCHANGED <<disk, histories, order, queue, copy, storage, at, todo, mark,
                 checkpoint, faults, accidents>>

\* Mutant: the snapshot does not carry its scope.
PushUnscoped(c) ==
  /\ pc[c] = "push"
  /\ histories' = [histories EXCEPT ![ScopeOf[c]] =
       Append(@, [path |-> File(c), content |-> got[c]])]
  /\ Touch(ScopeOf[c])
  /\ queue' = Append(queue, c)
  /\ Goto(c, "snapshot")
  /\ UNCHANGED <<disk, copy, storage, at, got, todo, mark, checkpoint, faults,
                 accidents>>

\* takeSnapshot: push and persist().
PushSnapshot(c) ==
  /\ pc[c] = "push"
  /\ histories' = [histories EXCEPT ![ScopeOf[c]] =
       Append(@, [path |-> File(c), content |-> got[c], scope |-> ScopeOf[c]])]
  /\ Touch(ScopeOf[c])
  /\ queue' = Append(queue, c)
  /\ Goto(c, "snapshot")
  /\ UNCHANGED <<disk, copy, storage, at, got, todo, mark, checkpoint, faults,
                 accidents>>

\* The next file of a call, or what follows the last one.
Advance(c, again, after) ==
  IF at[c] < Len(FilesOf[c])
  THEN at' = [at EXCEPT ![c] = @ + 1] /\ Goto(c, again)
  ELSE at' = [at EXCEPT ![c] = 1] /\ Goto(c, after)

\* takeSnapshot: the file is over 1 MB or unreadable, and the tool goes on.
SkipSnapshot(c) ==
  /\ pc[c] = "read"
  /\ Fault
  /\ Advance(c, "read", "write")
  /\ UNCHANGED <<disk, histories, order, queue, copy, storage, got, todo, mark,
                 checkpoint>>

WriteFile(c) ==
  /\ pc[c] = "write"
  /\ disk' = [disk EXCEPT ![File(c)] = c]
  /\ Advance(c, "write", "done")
  /\ UNCHANGED <<histories, order, queue, copy, storage, got, todo, mark,
                 checkpoint, faults, accidents>>

\* A write that fails, before or after it changed the file.
Spoiled(c) == {disk, [disk EXCEPT ![File(c)] = c]}

\* write and edit report the error and leave it at that.
FailWrite(c) ==
  /\ pc[c] = "write"
  /\ c \notin Patches
  /\ disk' \in Spoiled(c)
  /\ Goto(c, "failed")
  /\ UNCHANGED <<histories, order, queue, copy, storage, at, got, todo, mark,
                 checkpoint, faults, accidents>>

-----------------------------------------------------------------------------
(* Undo, patch rollback and rewind *)

\* Mutant: the entry at the mark is left behind.
TakeBackOneShort(a, m) ==
  LET h == histories[Scope(a)] IN
  /\ todo' = [todo EXCEPT ![a] = Reverse(SubSeq(h, m + 2, Len(h)))]
  /\ histories' = [histories EXCEPT ![Scope(a)] =
                     SubSeq(h, 1, IF m < Len(h) THEN m ELSE Len(h))]
  /\ Touch(Scope(a))
  /\ Goto(a, "restore")

\* Mutant: the entries are restored oldest first.
TakeBackOldestFirst(a, m) ==
  LET h == histories[Scope(a)] IN
  /\ todo' = [todo EXCEPT ![a] = SubSeq(h, m + 1, Len(h))]
  /\ histories' = [histories EXCEPT ![Scope(a)] =
                     SubSeq(h, 1, IF m < Len(h) THEN m ELSE Len(h))]
  /\ Touch(Scope(a))
  /\ Goto(a, "restore")

\* splice(m), or pop() for m = length - 1, and the entries to restore, newest
\* first.
TakeBack(a, m) ==
  LET h == histories[Scope(a)] IN
  /\ todo' = [todo EXCEPT ![a] = Reverse(SubSeq(h, m + 1, Len(h)))]
  /\ histories' = [histories EXCEPT ![Scope(a)] =
                     SubSeq(h, 1, IF m < Len(h) THEN m ELSE Len(h))]
  /\ Touch(Scope(a))
  /\ Goto(a, "restore")

\* A history entry goes that stood before the user's checkpoint.
Below(a, m) ==
  IF checkpoint # NoCheckpoint /\ Scope(a) = UserScope /\ m < checkpoint.mark
  THEN {"below"} ELSE {}

\* undoLast with the session's scope.
Undo(c) ==
  /\ MayStart(c)
  /\ c \in Undos
  /\ LET m == Len(histories[ScopeOf[c]]) IN
     IF m = 0
     THEN /\ Touch(ScopeOf[c])
          /\ Goto(c, "failed")
          /\ UNCHANGED <<todo, histories, accidents>>
     ELSE /\ TakeBack(c, m - 1)
          /\ accidents' = accidents \cup Overlap(c, Calls) \cup Below(c, m - 1)
  /\ UNCHANGED <<disk, queue, copy, storage, at, got, mark, checkpoint, faults>>

\* apply_patch: a staged write fails, so restoreToMark(mark).
FailPatch(c) ==
  /\ pc[c] = "write"
  /\ c \in Patches
  /\ disk' \in Spoiled(c)
  /\ TakeBack(c, mark[c])
  /\ accidents' = accidents \cup Overlap(c, Calls)
  /\ UNCHANGED <<queue, copy, storage, at, got, mark, checkpoint, faults>>

\* restoreSnapshot of the next entry.
RestoreNext(a) ==
  /\ pc[a] = "restore"
  /\ todo[a] # <<>>
  /\ disk' = [disk EXCEPT ![Head(todo[a]).path] = Head(todo[a]).content]
  /\ todo' = [todo EXCEPT ![a] = Tail(@)]
  /\ UNCHANGED <<histories, order, queue, copy, storage, pc, at, got, mark,
                 checkpoint, faults, accidents>>

\* A restore fails: restoreToMark goes on to the next entry, undoLast returns
\* null and does not persist.
RestoreFails(a) ==
  /\ pc[a] = "restore"
  /\ todo[a] # <<>>
  /\ Fault
  /\ todo' = [todo EXCEPT ![a] = Tail(@)]
  /\ IF a \in Undos THEN Goto(a, "failed") ELSE UNCHANGED pc
  /\ UNCHANGED <<disk, histories, order, queue, copy, storage, at, got, mark,
                 checkpoint>>

\* Mutant: the last restore awaits a persist it never queued.
RestoreDoneUnqueued(a) ==
  /\ pc[a] = "restore"
  /\ todo[a] = <<>>
  /\ Goto(a, "persist")
  /\ UNCHANGED <<disk, histories, order, queue, copy, storage, at, got, todo,
                 mark, checkpoint, faults, accidents>>

RestoreDone(a) ==
  /\ pc[a] = "restore"
  /\ todo[a] = <<>>
  /\ queue' = Append(queue, a)
  /\ Goto(a, "persist")
  /\ UNCHANGED <<disk, histories, order, copy, storage, at, got, todo, mark,
                 checkpoint, faults, accidents>>

\* createTurnCheckpoint, before the session's prompt runs.
TakeCheckpoint ==
  /\ pc[User] = "idle"
  /\ checkpoint = NoCheckpoint
  /\ Room
  /\ checkpoint' = [mark |-> Len(histories[UserScope]), disk |-> disk]
  /\ Touch(UserScope)
  /\ accidents' = accidents \cup Overlap(User, Calls)
  /\ UNCHANGED <<disk, histories, queue, copy, storage, pc, at, got, todo,
                 mark, faults>>

\* restoreCheckpointFiles.
Rewind ==
  /\ pc[User] = "idle"
  /\ checkpoint # NoCheckpoint
  /\ Room
  /\ TakeBack(User, checkpoint.mark)
  /\ accidents' = accidents \cup Overlap(User, Calls)
  /\ UNCHANGED <<disk, queue, copy, storage, at, got, mark, checkpoint,
                 faults>>

-----------------------------------------------------------------------------
(* persist() *)

Combined ==
  LET all[n \in 0..Len(order)] ==
        IF n = 0 THEN <<>> ELSE all[n - 1] \o histories[order[n]]
  IN  all[Len(order)]

\* persistHistory: the newest entries, when there is a file to write them to.
Trimmed(h) ==
  IF storage /\ Len(h) > MaxEntries
  THEN SubSeq(h, Len(h) - MaxEntries + 1, Len(h))
  ELSE h

\* The next queued persist copies the histories and starts to write.
PersistStart ==
  /\ queue # <<>>
  /\ copy = NoCopy
  /\ copy' = Trimmed(Combined)
  /\ UNCHANGED <<disk, histories, order, queue, storage, pc, at, got, todo,
                 mark, checkpoint, faults, accidents>>

\* The scopes of h in the order of their first entries.
KeysOf(h) ==
  LET keys[n \in 0..Len(h)] ==
        IF n = 0 THEN <<>>
        ELSE IF Contains(keys[n - 1], h[n].scope) THEN keys[n - 1]
        ELSE Append(keys[n - 1], h[n].scope)
  IN  keys[Len(h)]

\* The entries of h that belong to scope s.
Entries(h, s) ==
  LET of[n \in 0..Len(h)] ==
        IF n = 0 THEN <<>>
        ELSE IF h[n].scope = s THEN Append(of[n - 1], h[n])
        ELSE of[n - 1]
  IN  of[Len(h)]

Rebuilt == [s \in Scopes |-> Entries(copy, s)]

\* What follows a persist: the next file of a tool that has its snapshot, or
\* the end of an undo, a rollback or a rewind.
Resume(a) ==
  IF pc[a] = "snapshot"
  THEN Advance(a, "read", "write")
  ELSE Goto(a, IF a \in Patches THEN "failed" ELSE "done") /\ UNCHANGED at

\* The write ends, well or with an error (`off`: one that disables storage);
\* the histories are rebuilt from the copy; the actor's await returns.
PersistEnd(off) ==
  /\ copy # NoCopy
  /\ off => storage /\ faults < MaxFaults
  /\ faults' = IF off THEN faults + 1 ELSE faults
  /\ histories' = Rebuilt
  /\ order' = KeysOf(copy)
  /\ storage' = (storage /\ ~off)
  /\ queue' = Tail(queue)
  /\ copy' = NoCopy
  /\ Resume(Head(queue))
  /\ accidents' = IF Rebuilt # histories THEN accidents \cup {"rebuild"}
                  ELSE accidents
  /\ UNCHANGED <<disk, got, todo, mark, checkpoint>>

ToolStep(c) ==
  \/ ReadPreImage(c) \/ PushSnapshot(c) \/ SkipSnapshot(c)
  \/ WriteFile(c) \/ FailWrite(c) \/ FailPatch(c)

RestoreStep(a) == RestoreNext(a) \/ RestoreFails(a) \/ RestoreDone(a)

PersistStep == PersistStart \/ \E off \in BOOLEAN : PersistEnd(off)

\* What the event loop runs once a file operation has ended.
Continue ==
  \/ \E c \in Calls : ToolStep(c)
  \/ \E a \in Actors : RestoreStep(a)
  \/ PersistStep

Next ==
  \/ \E c \in Calls : Start(c) \/ Undo(c)
  \/ TakeCheckpoint \/ Rewind
  \/ Continue

\* File operations end and some continuation that is ready runs.  Nothing
\* obliges the agents to call a tool or the user to rewind.
Fairness == WF_vars(Continue)

Spec == Init /\ [][Next]_vars /\ Fairness

-----------------------------------------------------------------------------
(* Properties *)

\* Every variable keeps its type.
TypeOK ==
  /\ disk \in [Paths -> Contents]
  /\ histories \in [Scopes -> Seq(Snapshots)]
  /\ order \in Seq(Scopes)
  /\ queue \in Seq(Actors)
  /\ copy \in Seq(Snapshots) \cup {NoCopy}
  /\ storage \in BOOLEAN
  /\ pc \in [Actors -> Resting \cup
               {"read", "push", "snapshot", "write", "restore", "persist"}]
  /\ at \in [Calls -> Nat \ {0}]
  /\ got \in [Calls -> Contents]
  /\ todo \in [Actors -> Seq(Snapshots)]
  /\ mark \in [Calls -> Nat]
  /\ checkpoint \in [mark : Nat, disk : [Paths -> Contents]] \cup {NoCheckpoint}
  /\ faults \in 0..MaxFaults
  /\ accidents \subseteq {"rebuild", "overlap", "below", "fault"}

\* The files that calls of one session alone change.  What another session does
\* to a file is outside this session's history.
Own(s) == {p \in Paths : \A c \in Calls : p \in Range(FilesOf[c]) => ScopeOf[c] = s}

Rewound == pc[User] = "persist"

\* What the header of turn-checkpoints.ts promises: a rewind leaves every file
\* the session changed since the checkpoint as it was then.
RewindRestores ==
  Rewound => \A p \in Own(UserScope) : disk[p] = checkpoint.disk[p]

\* A rewind keeps that promise in every interleaving of tools, sessions,
\* rollbacks, undos and persists, unless a persist rebuilt the histories
\* without what happened during its write (or with old entries trimmed), a
\* rollback, an undo, the checkpoint or the rewind itself ran beside another
\* call of the session, an undo reached below the checkpoint, or a snapshot was
\* skipped or not restored.
RewindRestoresUnlessAccident == accidents = {} => RewindRestores

\* apply_patch: once a failed patch has rolled back, none of its writes is on
\* disk, then or ever after, with the same exceptions.
FailedPatchLeavesNoTrace ==
  \A c \in Patches :
    pc[c] \in {"persist", "failed"} /\ accidents = {} =>
      \A p \in Own(ScopeOf[c]) : disk[p] # c

\* persistQueue never gets stuck: every call that has started returns, whatever
\* writes of the history file fail.  (A call starts once, so in the end none is
\* in flight.)
EveryCallReturns == <>[](InFlight = {})

=============================================================================
