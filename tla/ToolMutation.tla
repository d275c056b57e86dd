---------------------------- MODULE ToolMutation ----------------------------
(***************************************************************************)
(* One execution of a file tool by packages/core/src/tool/executor.ts:     *)
(* lock the files, read their pre-images, run the tool against its time    *)
(* limit, fingerprint the result, roll a failed call back if the files are *)
(* still as that fingerprint saw them, and give the locks back             *)
(* (transaction/workspace-transaction.ts, acquireFileLocks of              *)
(* agent/file-lock.ts).                                                    *)
(*                                                                         *)
(* Only workers lock; the main session and the user's editor write as they *)
(* like.  A tool whose time is up is not stopped: the file tools do not    *)
(* look at their abort signal.  Every file is read and written by an await *)
(* of its own, and anybody may come between two of them.  The lock on one  *)
(* file is taken as a lease that outlives the call; FileLock says when a   *)
(* lease stands.                                                           *)
(***************************************************************************)
EXTENDS Naturals, Sequences, FiniteSets, Functions

CONSTANTS
  Calls,      \* executions of file tools, and saves in the user's editor
  Workers,    \* the calls of subagents, which lock
  Patches,    \* the calls of apply_patch, which undoes its own failed writes
  Saves,      \* the saves
  Owners,     \* worker sessions
  OwnerOf,    \* the session of each call
  Paths,
  FilesOf,    \* the files of each call, sorted, as a patch names them too
  Original,   \* a file as it was at first, perhaps absent
  NoOwner,
  Faulty,     \* bound: the calls that may meet a fault
  MaxFaults   \* bound: faults: file operations of the executor that fail, and
              \*   tools that go on after their time is up

Executions == Calls \ Saves
Contents == Calls \cup {Original}

ASSUME MutationAssumption ==
  /\ Workers \subseteq Executions /\ Patches \subseteq Executions
  /\ Saves \subseteq Calls /\ Faulty \subseteq Calls
  /\ OwnerOf \in [Calls -> Owners]
  /\ FilesOf \in [Calls -> Seq(Paths)]
  /\ \A c \in Calls : FilesOf[c] # <<>> /\ IsInjective(FilesOf[c])
  /\ NoOwner \notin Owners /\ Original \notin Calls
  /\ MaxFaults \in Nat

VARIABLES
  disk,      \* content of each file: the call that wrote it last, or Original
  locks,     \* owner of the lock on each file, or NoOwner
  pc,        \* where the executor is in each call
  at,        \* the file it has got to
  acquired,  \* acquiredLockPaths: the locks a call has to give back
  pre,       \* the captured files of its transaction
  seen,      \* resultRevision, per file
  intact,    \* the comparison has found no difference yet
  failed,    \* the result of the tool is an error
  status,    \* status of the transaction record, or how it came to none
  tool,      \* where the tool is, which may outlive its call
  tat,       \* the file the tool has got to
  snap,      \* the snapshots of a patch
  faults,
  stray      \* history: calls whose tool changed a file after they had gone on

exec == <<locks, pc, at, acquired, pre, seen, intact, failed, status, faults>>
toolVars == <<tool, tat, snap, stray>>
vars == <<disk, exec, toolVars>>

File(c) == FilesOf[c][at[c]]
ToolFile(c) == FilesOf[c][tat[c]]
Files(c) == Range(FilesOf[c])

Untouched == [f \in Paths |-> Original]

\* Mutant: the call of a worker does not lock.
FirstUnlocked(c) == IF c \in Saves THEN "save" ELSE "begin"

\* Where a call begins: those of workers lock.
First(c) ==
  IF c \in Saves THEN "save" ELSE IF c \in Workers THEN "lock" ELSE "begin"

Init ==
  /\ disk = Untouched
  /\ locks = [f \in Paths |-> NoOwner]
  /\ pc = [c \in Calls |-> First(c)]
  /\ at = [c \in Calls |-> 1]
  /\ acquired = [c \in Calls |-> {}]
  /\ pre = [c \in Calls |-> Untouched]
  /\ seen = [c \in Calls |-> Untouched]
  /\ intact = [c \in Calls |-> TRUE]
  /\ failed = [c \in Calls |-> FALSE]
  /\ status = [c \in Calls |-> "none"]
  /\ tool = [c \in Calls |-> "none"]
  /\ tat = [c \in Calls |-> 1]
  /\ snap = [c \in Calls |-> Untouched]
  /\ faults = 0
  /\ stray = {}

Goto(c, s) == pc' = [pc EXCEPT ![c] = s]

Last(c) == at[c] = Len(FilesOf[c])

\* The next file, or after the last one the next stage.
Advance(c, next) ==
  IF Last(c)
  THEN at' = [at EXCEPT ![c] = 1] /\ Goto(c, next)
  ELSE at' = [at EXCEPT ![c] = @ + 1] /\ UNCHANGED pc

\* How the call ends.
Conclude(c, s) == status' = [status EXCEPT ![c] = s]

-----------------------------------------------------------------------------
(* Locks *)

\* "acquired": the call owns the lock and has to give it back.
LockAcquired(c) ==
  /\ pc[c] = "lock"
  /\ locks[File(c)] = NoOwner
  /\ locks' = [locks EXCEPT ![File(c)] = OwnerOf[c]]
  /\ acquired' = [acquired EXCEPT ![c] = @ \cup {File(c)}]
  /\ Advance(c, "begin")
  /\ UNCHANGED <<disk, pre, seen, intact, failed, status, faults, toolVars>>

\* "owned": another call of the session has it, and gives it back.
LockOwned(c) ==
  /\ pc[c] = "lock"
  /\ locks[File(c)] = OwnerOf[c]
  /\ Advance(c, "begin")
  /\ UNCHANGED <<disk, locks, acquired, pre, seen, intact, failed, status,
                 faults, toolVars>>

\* Mutant: the locks taken before the refusal are kept.
LockRefusedKeeping(c) ==
  /\ pc[c] = "lock"
  /\ locks[File(c)] \notin {NoOwner, OwnerOf[c]}
  /\ Conclude(c, "locked")
  /\ Goto(c, "done")
  /\ acquired' = [acquired EXCEPT ![c] = {}]
  /\ UNCHANGED <<disk, locks, at, pre, seen, intact, failed, faults, toolVars>>

\* "locked": the locks taken so far go back and the call ends with an error.
LockRefused(c) ==
  /\ pc[c] = "lock"
  /\ locks[File(c)] \notin {NoOwner, OwnerOf[c]}
  /\ Conclude(c, "locked")
  /\ Goto(c, "release")
  /\ UNCHANGED <<disk, locks, at, acquired, pre, seen, intact, failed, faults,
                 toolVars>>

\* The call is over, and its variables with it.
Finish(c) ==
  /\ Goto(c, "done")
  /\ pre' = [pre EXCEPT ![c] = Untouched]
  /\ seen' = [seen EXCEPT ![c] = Untouched]
  /\ intact' = [intact EXCEPT ![c] = TRUE]
  /\ failed' = [failed EXCEPT ![c] = FALSE]

\* releaseFileLocks, in the finally block; a lock goes back to its owner only.
Release(c) ==
  /\ pc[c] = "release"
  /\ \E f \in acquired[c] :
       /\ acquired' = [acquired EXCEPT ![c] = @ \ {f}]
       /\ locks' = [locks EXCEPT ![f] = IF @ = OwnerOf[c] THEN NoOwner ELSE @]
       /\ IF acquired[c] = {f}
          THEN Finish(c)
          ELSE UNCHANGED <<pc, pre, seen, intact, failed>>
  /\ UNCHANGED <<disk, at, status, faults, toolVars>>

\* A call with no lock to give back.
ReleaseNothing(c) ==
  /\ pc[c] = "release"
  /\ acquired[c] = {}
  /\ Finish(c)
  /\ UNCHANGED <<disk, locks, at, acquired, status, faults, toolVars>>

-----------------------------------------------------------------------------
(* The transaction *)

\* begin() reads a pre-image; after the last one the tool starts.
Begin(c) ==
  /\ pc[c] = "begin"
  /\ pre' = [pre EXCEPT ![c][File(c)] = disk[File(c)]]
  /\ Advance(c, "execute")
  /\ tool' = IF Last(c)
             THEN [tool EXCEPT ![c] = IF c \in Patches THEN "snapshot" ELSE "write"]
             ELSE tool
  /\ UNCHANGED <<disk, locks, acquired, seen, intact, failed, status, faults,
                 tat, snap, stray>>

\* The tool is over, and its variables with it.
EndTool(c, how) ==
  /\ tool' = [tool EXCEPT ![c] = how]
  /\ tat' = [tat EXCEPT ![c] = 1]
  /\ snap' = [snap EXCEPT ![c] = Untouched]

\* Mutant: the tool has no time limit.
TimeoutNever(c) == FALSE /\ UNCHANGED vars

\* The time is up, that of the tool or the one edit sets for its write: the
\* executor goes on with an error.  The tool hangs and touches no file any
\* more, or it goes on as well.
Timeout(c) ==
  /\ pc[c] = "execute"
  /\ failed' = [failed EXCEPT ![c] = TRUE]
  /\ Goto(c, "commit")
  /\ \/ EndTool(c, "ended") /\ UNCHANGED faults
     \/ /\ c \in Faulty
        /\ faults < MaxFaults
        /\ faults' = faults + 1
        /\ UNCHANGED <<tool, tat, snap>>
  /\ UNCHANGED <<disk, locks, at, acquired, pre, seen, intact, status, stray>>

\* commit() fingerprints the result, of a failed call as well.
Commit(c) ==
  /\ pc[c] = "commit"
  /\ seen' = [seen EXCEPT ![c][File(c)] = disk[File(c)]]
  /\ Advance(c, IF failed[c] THEN "compare" ELSE "release")
  /\ IF Last(c) /\ ~failed[c] THEN Conclude(c, "committed") ELSE UNCHANGED status
  /\ UNCHANGED <<disk, locks, acquired, pre, intact, failed, faults, toolVars>>

\* rollback() fingerprints the files again; a difference is a conflict.
Compare(c) ==
  LET same == intact[c] /\ disk[File(c)] = seen[c][File(c)] IN
  /\ pc[c] = "compare"
  /\ intact' = [intact EXCEPT ![c] = same]
  /\ Advance(c, IF same THEN "restore" ELSE "release")
  /\ IF Last(c) /\ ~same THEN Conclude(c, "rollback_conflict") ELSE UNCHANGED status
  /\ UNCHANGED <<disk, locks, acquired, pre, seen, failed, faults, toolVars>>

\* Mutant: what is put back is what commit() saw.
RestoreSeen(c) ==
  /\ pc[c] = "restore"
  /\ disk' = [disk EXCEPT ![File(c)] = seen[c][File(c)]]
  /\ Advance(c, "release")
  /\ IF Last(c) THEN Conclude(c, "rolled_back") ELSE UNCHANGED status
  /\ UNCHANGED <<locks, acquired, pre, seen, intact, failed, faults, toolVars>>

Restore(c) ==
  /\ pc[c] = "restore"
  /\ disk' = [disk EXCEPT ![File(c)] = pre[c][File(c)]]
  /\ Advance(c, "release")
  /\ IF Last(c) THEN Conclude(c, "rolled_back") ELSE UNCHANGED status
  /\ UNCHANGED <<locks, acquired, pre, seen, intact, failed, faults, toolVars>>

\* A file operation of the executor throws: executeTool throws, once it has
\* given the locks back.
Fault(c) ==
  /\ c \in Faulty
  /\ pc[c] \in {"lock", "begin", "commit", "compare", "restore"}
  /\ faults < MaxFaults
  /\ faults' = faults + 1
  /\ at' = [at EXCEPT ![c] = 1]
  /\ Conclude(c, "threw")
  /\ Goto(c, "release")
  /\ UNCHANGED <<disk, locks, acquired, pre, seen, intact, failed, toolVars>>

-----------------------------------------------------------------------------
(* The tools, and the user *)

\* The tool returns; a call that has timed out does not listen any more.
Return(c, error) ==
  IF pc[c] = "execute"
  THEN Goto(c, "commit") /\ failed' = [failed EXCEPT ![c] = error]
  ELSE UNCHANGED <<pc, failed>>

\* The tool changes a file, in time or not.
Put(c, content) ==
  /\ disk' = [disk EXCEPT ![ToolFile(c)] = content]
  /\ stray' = IF pc[c] = "execute" THEN stray ELSE stray \cup {c}

\* apply_patch takes the snapshots of all its files first.
ToolSnapshot(c) ==
  /\ tool[c] = "snapshot"
  /\ snap' = [snap EXCEPT ![c][ToolFile(c)] = disk[ToolFile(c)]]
  /\ IF tat[c] < Len(FilesOf[c])
     THEN tat' = [tat EXCEPT ![c] = @ + 1] /\ UNCHANGED tool
     ELSE tat' = [tat EXCEPT ![c] = 1] /\ tool' = [tool EXCEPT ![c] = "write"]
  /\ UNCHANGED <<disk, exec, stray>>

ToolWrite(c) ==
  /\ tool[c] = "write"
  /\ Put(c, c)
  /\ IF tat[c] < Len(FilesOf[c])
     THEN tat' = [tat EXCEPT ![c] = @ + 1] /\ UNCHANGED <<tool, snap, pc, failed>>
     ELSE EndTool(c, "ended") /\ Return(c, FALSE)
  /\ UNCHANGED <<locks, at, acquired, pre, seen, intact, status, faults>>

\* The tool fails, before or after it changed the file: the text to replace is
\* not there, or the write fails.  A patch goes on to restoreToMark.
ToolFail(c) ==
  /\ tool[c] = "write"
  /\ Put(c, c) \/ UNCHANGED <<disk, stray>>
  /\ IF c \in Patches
     THEN /\ tool' = [tool EXCEPT ![c] = "undo"]
          /\ tat' = [tat EXCEPT ![c] = Len(FilesOf[c])]
          /\ UNCHANGED <<snap, pc, failed>>
     ELSE EndTool(c, "ended") /\ Return(c, TRUE)
  /\ UNCHANGED <<locks, at, acquired, pre, seen, intact, status, faults>>

\* restoreToMark puts the snapshots back, newest first, and ignores failures.
ToolUndo(c) ==
  /\ tool[c] = "undo"
  /\ Put(c, snap[c][ToolFile(c)]) \/ UNCHANGED <<disk, stray>>
  /\ IF tat[c] > 1
     THEN tat' = [tat EXCEPT ![c] = @ - 1] /\ UNCHANGED <<tool, snap, pc, failed>>
     ELSE EndTool(c, "ended") /\ Return(c, TRUE)
  /\ UNCHANGED <<locks, at, acquired, pre, seen, intact, status, faults>>

\* The user saves a file.
Save(c) ==
  /\ pc[c] = "save"
  /\ disk' = [disk EXCEPT ![File(c)] = c]
  /\ Goto(c, "done")
  /\ UNCHANGED <<locks, at, acquired, pre, seen, intact, failed, status, faults,
                 toolVars>>

Lock(c) == LockAcquired(c) \/ LockOwned(c) \/ LockRefused(c)

ExecutorStep(c) ==
  \/ Lock(c) \/ Begin(c) \/ Timeout(c) \/ Commit(c) \/ Compare(c) \/ Restore(c)
  \/ Release(c) \/ ReleaseNothing(c)

ToolStep(c) == ToolSnapshot(c) \/ ToolWrite(c) \/ ToolFail(c) \/ ToolUndo(c)

Next ==
  \E c \in Calls :
    Save(c) \/ ExecutorStep(c) \/ Fault(c) \/ ToolStep(c)

Spec == Init /\ [][Next]_vars

-----------------------------------------------------------------------------
(* Properties *)

Stages == {"save", "lock", "begin", "execute", "commit", "compare", "restore",
           "release", "done"}

\* Every variable keeps its type.
TypeOK ==
  /\ disk \in [Paths -> Contents]
  /\ locks \in [Paths -> Owners \cup {NoOwner}]
  /\ pc \in [Calls -> Stages]
  /\ at \in [Calls -> Nat \ {0}]
  /\ acquired \in [Calls -> SUBSET Paths]
  /\ pre \in [Calls -> [Paths -> Contents]]
  /\ seen \in [Calls -> [Paths -> Contents]]
  /\ intact \in [Calls -> BOOLEAN]
  /\ failed \in [Calls -> BOOLEAN]
  /\ status \in [Calls -> {"none", "locked", "committed", "rolled_back",
                           "rollback_conflict", "threw"}]
  /\ tool \in [Calls -> {"none", "snapshot", "write", "undo", "ended"}]
  /\ tat \in [Calls -> Nat \ {0}]
  /\ snap \in [Calls -> [Paths -> Contents]]
  /\ faults \in 0..MaxFaults
  /\ stray \subseteq Calls

Started(c) == pc[c] # First(c) \/ at[c] > 1

\* The calls that have had to do with the files of c.
Near(c) == {d \in Calls : d = c \/ (Started(d) /\ Files(d) \cap Files(c) # {})}

\* They are workers, each of another session; no tool of theirs has changed a
\* file after its call had gone on; none has broken off with an exception.
Isolated(c) ==
  /\ Near(c) \subseteq Workers \ stray
  /\ IsInjective(Restrict(OwnerOf, Near(c)))
  /\ \A d \in Near(c) : status[d] # "threw"

\* Under their locks, calls of workers are atomic whatever the order of their
\* steps: one that commits leaves its own content in all its files, one that
\* fails leaves what it found in all of them, for as long as it has their locks,
\* and none is refused its rollback.
IsolatedCallIsAtomic ==
  \A c \in Workers :
    pc[c] = "release" /\ Isolated(c) =>
      /\ status[c] = "committed" => \A f \in acquired[c] : disk[f] = c
      /\ status[c] = "rolled_back" => \A f \in acquired[c] : disk[f] = pre[c][f]
      /\ status[c] # "rollback_conflict"

\* When all calls are so isolated, none works from a half-done change or from
\* one that will be taken back: what it finds is the result of a committed call.
NoDirtyRead ==
  (\A c \in Calls : Started(c) => Isolated(c)) =>
    \A c \in Calls, f \in Paths :
      pre[c][f] # Original => status[pre[c][f]] = "committed"

\* A lock stands exactly as long as a call in flight has to give it back: no
\* path through refusals, time limits, errors and exceptions keeps one.
LocksAreHeld ==
  \A f \in Paths :
    locks[f] # NoOwner <=>
      \E c \in Workers : f \in acquired[c] /\ OwnerOf[c] = locks[f]

\* An execution waits for nobody: whatever locks others hold and even if its
\* tool hangs, its own awaits and timers bring it to its end.
WaitsForNobody ==
  \A c \in Executions :
    pc[c] # "done" => ENABLED ExecutorStep(c)

\* A rollback overwrites what its own call wrote, and never the change of
\* somebody else: docs/agent-runtime.md has it end as a rollback_conflict.
RollbackKeepsOthers ==
  [][\A c \in Executions :
       Restore(c) => disk[File(c)] \in {c, pre[c][File(c)]}]_vars

=============================================================================
