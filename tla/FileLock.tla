------------------------------ MODULE FileLock ------------------------------
(***************************************************************************)
(* The cross-worker file lock of packages/core/src/agent/file-lock.ts.     *)
(*                                                                         *)
(* Each worker of the agent pool runs in a thread of its own, so the lock  *)
(* on an edited file is a file itself: `.aurict/locks/<sha1>.lock`, whose  *)
(* bytes name the owner and the time the lease ends.  A stale lease is     *)
(* taken over, and a lease is given back, by renaming the lock file to a   *)
(* private claim file and comparing the bytes found there with the bytes   *)
(* read before ("rename as compare-and-swap").                             *)
(*                                                                         *)
(* The module follows the lock file of ONE edited path through every file  *)
(* system call of acquireFileLockResult and releaseFileLock, with any      *)
(* number of callers between any two of those calls.  writeFile is two     *)
(* steps, open(O_EXCL) and write, because the file is visible and empty in *)
(* between, and because a rename takes the open file along: a writer's     *)
(* bytes land wherever its file has gone.                                  *)
(***************************************************************************)
EXTENDS Naturals, FiniteSets

CONSTANTS
  Callers,     \* tool calls of workers that contend for the edited path
  Owners,      \* (agentId, sessionId) pairs; the executor passes one id as both
  OwnerOf,     \* the owner each caller acts for
  TTL,         \* ttlMs, in ticks
  PruneAge,    \* the age pruneOrphanClaims sweeps at, in ticks
  MaxTime,     \* bound: the clock stops here
  MaxCrashes,  \* bound: how many callers may die
  Nobody,      \* no caller has the file open for writing
  NoFile,      \* the path does not exist
  Blank        \* bytes that do not parse as a lock, the empty file among them

Locks == [owner : Owners, expires : Nat]
Bytes == Locks \cup {Blank}
Files == [bytes : Bytes, writer : Callers \cup {Nobody}, mtime : Nat]

ASSUME ConstantsAssumption ==
  /\ OwnerOf \in [Callers -> Owners]
  /\ TTL \in Nat \ {0}
  /\ PruneAge \in Nat
  /\ MaxTime \in Nat
  /\ MaxCrashes \in Nat

ASSUME NullsAssumption ==
  /\ Nobody \notin Callers
  /\ Blank \notin Locks
  /\ NoFile \notin Files

VARIABLES
  now,    \* Date.now(), shared by the threads of the process
  slot,   \* the file at lockPathFor(workdir, filePath), or NoFile
  claim,  \* each caller's `.reclaim.` / `.release.` file, or NoFile
  pc,     \* the await each caller is suspended at
  stamp,  \* the `now` an acquire read when it started
  kept,   \* the bytes a caller holds in a local: existingRaw, then capturedRaw
  lease,  \* the lock whose acquire returned "acquired" or "owned", else Blank
  lost,   \* history: locks a capture took although it had read other bytes,
          \*   and that have not been put back
  torn,   \* history: a capture took a file between its open and its write
  failed  \* history: a write failed after its open

vars == <<now, slot, claim, pc, stamp, kept, lease, lost, torn, failed>>

AcquireStates == {"createWrite", "read", "prune", "rename", "check",
                  "install", "installWrite", "unlinkHold"}
ReleaseStates == {"releaseRename", "releaseCheck"}
SharedStates  == {"restore", "restoreWrite", "unlink"}
States == {"idle", "holding", "sharing", "dead"}
            \cup AcquireStates \cup ReleaseStates \cup SharedStates

-----------------------------------------------------------------------------
(* Bytes and files *)

\* What readFile sees: an opened file shows nothing until its write.
Contents(f) == IF f.writer = Nobody THEN f.bytes ELSE Blank

\* Mutant: the lock file does not name its owner.
LockUnowned(c, t) == [expires |-> t + TTL]

LockOf(c, t) == [owner |-> OwnerOf[c], expires |-> t + TTL]

Expired(l, t) == l.expires <= t

Owns(c, bytes) == bytes # Blank /\ bytes.owner = OwnerOf[c]

\* The write of c's open file, wherever a rename has taken it.
Written(f, c) ==
  IF f # NoFile /\ f.writer = c
  THEN [f EXCEPT !.writer = Nobody, !.mtime = now]
  ELSE f

\* That write is not made: the file stays as empty as its open left it.
Abandoned(f, c) ==
  IF f # NoFile /\ f.writer = c
  THEN [f EXCEPT !.writer = Nobody, !.bytes = Blank]
  ELSE f

Holding(c) == pc[c] \in {"holding", "sharing", "unlinkHold"}
Dead == {c \in Callers : pc[c] = "dead"}

-----------------------------------------------------------------------------
Init ==
  /\ now = 0
  /\ slot = NoFile
  /\ claim = [c \in Callers |-> NoFile]
  /\ pc = [c \in Callers |-> "idle"]
  /\ stamp = [c \in Callers |-> 0]
  /\ kept = [c \in Callers |-> Blank]
  /\ lease = [c \in Callers |-> Blank]
  /\ lost = {}
  /\ torn = FALSE
  /\ failed = FALSE

Goto(c, s) == pc' = [pc EXCEPT ![c] = s]

\* A call that returns without the lock; its locals are gone.
Return(c) ==
  /\ Goto(c, "idle")
  /\ stamp' = [stamp EXCEPT ![c] = 0]
  /\ kept' = [kept EXCEPT ![c] = Blank]

\* Mutant: flag "w", which truncates a file that is there.
OpenTruncate(c, bytes) ==
  slot' = [bytes |-> bytes, writer |-> c, mtime |-> now]

\* writeFile(..., {flag: "wx"}): the open fails unless the path is free.
OpenExclusive(c, bytes) ==
  /\ slot = NoFile
  /\ slot' = [bytes |-> bytes, writer |-> c, mtime |-> now]

FinishWrite(c) ==
  /\ slot' = Written(slot, c)
  /\ claim' = [d \in Callers |-> Written(claim[d], c)]

LeaveEmpty(c) ==
  /\ slot' = Abandoned(slot, c)
  /\ claim' = [d \in Callers |-> Abandoned(claim[d], c)]

-----------------------------------------------------------------------------
(* acquireFileLockResult: the fast path and the decision *)

\* mkdir, Date.now() and the open of the fast path.
Create(c) ==
  /\ pc[c] = "idle"
  /\ OpenExclusive(c, LockOf(c, now))
  /\ stamp' = [stamp EXCEPT ![c] = now]
  /\ Goto(c, "createWrite")
  /\ UNCHANGED <<now, claim, kept, lease, lost, torn, failed>>

CreateWrite(c) ==
  /\ pc[c] = "createWrite"
  /\ FinishWrite(c)
  /\ lease' = [lease EXCEPT ![c] = LockOf(c, stamp[c])]
  /\ Goto(c, "holding")
  /\ UNCHANGED <<now, stamp, kept, lost, torn, failed>>

CreateFails(c) ==
  /\ pc[c] = "idle"
  /\ slot # NoFile
  /\ stamp' = [stamp EXCEPT ![c] = now]
  /\ Goto(c, "read")
  /\ UNCHANGED <<now, slot, claim, kept, lease, lost, torn, failed>>

\* Unreadable or unparseable, or another owner's live lease: "locked".
ReadLocked(c) ==
  /\ pc[c] = "read"
  /\ \/ slot = NoFile
     \/ slot # NoFile /\ Contents(slot) = Blank
     \/ /\ slot # NoFile /\ Contents(slot) # Blank
        /\ ~Expired(Contents(slot), stamp[c])
        /\ ~Owns(c, Contents(slot))
  /\ Return(c)
  /\ UNCHANGED <<now, slot, claim, lease, lost, torn, failed>>

\* The caller's own live lease: "owned", shared with whoever acquired it.
ReadOwned(c) ==
  /\ pc[c] = "read"
  /\ slot # NoFile
  /\ Owns(c, Contents(slot))
  /\ ~Expired(Contents(slot), stamp[c])
  /\ lease' = [lease EXCEPT ![c] = Contents(slot)]
  /\ Goto(c, "sharing")
  /\ UNCHANGED <<now, slot, claim, stamp, kept, lost, torn, failed>>

\* Mutant: the lease found is taken for stale without a look at its end.
ReadAnyStale(c) ==
  /\ pc[c] = "read"
  /\ slot # NoFile
  /\ Contents(slot) # Blank
  /\ kept' = [kept EXCEPT ![c] = Contents(slot)]
  /\ Goto(c, "prune")
  /\ UNCHANGED <<now, slot, claim, stamp, lease, lost, torn, failed>>

ReadStale(c) ==
  /\ pc[c] = "read"
  /\ slot # NoFile
  /\ Contents(slot) # Blank
  /\ Expired(Contents(slot), stamp[c])
  /\ kept' = [kept EXCEPT ![c] = Contents(slot)]
  /\ Goto(c, "prune")
  /\ UNCHANGED <<now, slot, claim, stamp, lease, lost, torn, failed>>

-----------------------------------------------------------------------------
(* acquireFileLockResult: reclaiming a stale lease *)

\* A rename keeps the mtime of the lock, so the sweep takes the claim of a
\* call in flight as readily as the claim a crash left behind.
PruneOrphanClaims(c) ==
  /\ pc[c] = "prune"
  /\ claim' = [d \in Callers |->
                 IF claim[d] # NoFile /\ claim[d].mtime + PruneAge < now
                 THEN NoFile ELSE claim[d]]
  /\ Goto(c, "rename")
  /\ UNCHANGED <<now, slot, stamp, kept, lease, lost, torn, failed>>

\* rename(path, claimPath).  `expected` says whether the file taken is the
\* one the caller means to take; the code can only find out afterwards.
Capture(c, expected) ==
  /\ slot # NoFile
  /\ claim' = [claim EXCEPT ![c] = slot]
  /\ slot' = NoFile
  /\ lost' = IF expected THEN lost ELSE lost \cup ({slot.bytes} \ {Blank})
  /\ torn' = (torn \/ slot.writer # Nobody)

RenameToReclaim(c) ==
  /\ pc[c] = "rename"
  /\ Capture(c, slot.writer = Nobody /\ slot.bytes = kept[c])
  /\ Goto(c, "check")
  /\ UNCHANGED <<now, stamp, kept, lease, failed>>

\* ENOENT: somebody else moved the file first.
RenameFails(c) ==
  /\ pc[c] \in {"rename", "releaseRename"}
  /\ slot = NoFile
  /\ Return(c)
  /\ UNCHANGED <<now, slot, claim, lease, lost, torn, failed>>

CheckMatches(c) ==
  /\ pc[c] = "check"
  /\ claim[c] # NoFile
  /\ Contents(claim[c]) = kept[c]
  /\ Goto(c, "install")
  /\ UNCHANGED <<now, slot, claim, stamp, kept, lease, lost, torn, failed>>

CheckMismatch(c) ==
  /\ pc[c] = "check"
  /\ claim[c] # NoFile
  /\ Contents(claim[c]) # kept[c]
  /\ kept' = [kept EXCEPT ![c] = Contents(claim[c])]
  /\ Goto(c, "restore")
  /\ UNCHANGED <<now, slot, claim, stamp, lease, lost, torn, failed>>

\* The sweep of another caller removed the claim: nothing to put back.
CheckPruned(c) ==
  /\ pc[c] \in {"check", "releaseCheck"}
  /\ claim[c] = NoFile
  /\ Goto(c, "unlink")
  /\ UNCHANGED <<now, slot, claim, stamp, kept, lease, lost, torn, failed>>

Install(c) ==
  /\ pc[c] = "install"
  /\ OpenExclusive(c, LockOf(c, stamp[c]))
  /\ Goto(c, "installWrite")
  /\ UNCHANGED <<now, claim, stamp, kept, lease, lost, torn, failed>>

InstallWrite(c) ==
  /\ pc[c] = "installWrite"
  /\ FinishWrite(c)
  /\ lease' = [lease EXCEPT ![c] = LockOf(c, stamp[c])]
  /\ Goto(c, "unlinkHold")
  /\ UNCHANGED <<now, stamp, kept, lost, torn, failed>>

\* A fresh acquirer, or another restore, filled the slot in the gap.
SlotReoccupied(c) ==
  /\ pc[c] \in {"install", "restore"}
  /\ slot # NoFile
  /\ Goto(c, "unlink")
  /\ UNCHANGED <<now, slot, claim, stamp, kept, lease, lost, torn, failed>>

\* Mutant: the lock is put back without its bytes.
RestoreEmpty(c) ==
  /\ pc[c] = "restore"
  /\ OpenExclusive(c, Blank)
  /\ lost' = lost \ {kept[c]}
  /\ Goto(c, "restoreWrite")
  /\ UNCHANGED <<now, claim, stamp, kept, lease, torn, failed>>

Restore(c) ==
  /\ pc[c] = "restore"
  /\ OpenExclusive(c, kept[c])
  /\ lost' = lost \ {kept[c]}
  /\ Goto(c, "restoreWrite")
  /\ UNCHANGED <<now, claim, stamp, kept, lease, torn, failed>>

RestoreWrite(c) ==
  /\ pc[c] = "restoreWrite"
  /\ FinishWrite(c)
  /\ Goto(c, "unlink")
  /\ UNCHANGED <<now, stamp, kept, lease, lost, torn, failed>>

\* The device refuses the write after the open has made the file (no space, an
\* I/O error): the `catch` meant for a path that is taken goes on, as it does
\* then, with reading the slot or with unlinking the claim, and the file stays
\* empty.  A restore loses so the lock it was putting back.
WriteFails(c) ==
  /\ pc[c] \in {"createWrite", "installWrite", "restoreWrite"}
  /\ LeaveEmpty(c)
  /\ lost' = IF slot # NoFile /\ slot.writer = c
             THEN lost \cup ({slot.bytes} \ {Blank, LockOf(c, stamp[c])})
             ELSE lost
  /\ failed' = TRUE
  /\ Goto(c, IF pc[c] = "createWrite" THEN "read" ELSE "unlink")
  /\ UNCHANGED <<now, stamp, kept, lease, torn>>

\* The `finally` of both operations, after "locked" or a finished release.
UnlinkClaim(c) ==
  /\ pc[c] = "unlink"
  /\ claim' = [claim EXCEPT ![c] = NoFile]
  /\ Return(c)
  /\ UNCHANGED <<now, slot, lease, lost, torn, failed>>

\* The same `finally`, after "acquired".
UnlinkClaimHolding(c) ==
  /\ pc[c] = "unlinkHold"
  /\ claim' = [claim EXCEPT ![c] = NoFile]
  /\ Goto(c, "holding")
  /\ UNCHANGED <<now, slot, stamp, kept, lease, lost, torn, failed>>

-----------------------------------------------------------------------------
(* releaseFileLock, called when the tool is done with a path it acquired *)

\* readLock and the ownership test: not ours any more, so a pure no-op.
ReleaseNotOwned(c) ==
  /\ pc[c] = "holding"
  /\ slot # NoFile => ~Owns(c, Contents(slot))
  /\ lease' = [lease EXCEPT ![c] = Blank]
  /\ Return(c)
  /\ UNCHANGED <<now, slot, claim, lost, torn, failed>>

ReleaseOwned(c) ==
  /\ pc[c] = "holding"
  /\ slot # NoFile
  /\ Owns(c, Contents(slot))
  /\ lease' = [lease EXCEPT ![c] = Blank]
  /\ kept' = [kept EXCEPT ![c] = Contents(slot)]
  /\ Goto(c, "releaseRename")
  /\ UNCHANGED <<now, slot, claim, stamp, lost, torn, failed>>

RenameToRelease(c) ==
  /\ pc[c] = "releaseRename"
  /\ Capture(c, Owns(c, slot.bytes))
  /\ Goto(c, "releaseCheck")
  /\ UNCHANGED <<now, stamp, kept, lease, failed>>

ReleaseDone(c) ==
  /\ pc[c] = "releaseCheck"
  /\ claim[c] # NoFile
  /\ Owns(c, Contents(claim[c]))
  /\ Goto(c, "unlink")
  /\ UNCHANGED <<now, slot, claim, stamp, kept, lease, lost, torn, failed>>

ReleaseMismatch(c) ==
  /\ pc[c] = "releaseCheck"
  /\ claim[c] # NoFile
  /\ ~Owns(c, Contents(claim[c]))
  /\ kept' = [kept EXCEPT ![c] = Contents(claim[c])]
  /\ Goto(c, "restore")
  /\ UNCHANGED <<now, slot, claim, stamp, lease, lost, torn, failed>>

\* A path that was "owned" is not in acquiredPaths: nothing is released.
FinishShared(c) ==
  /\ pc[c] = "sharing"
  /\ lease' = [lease EXCEPT ![c] = Blank]
  /\ Return(c)
  /\ UNCHANGED <<now, slot, claim, lost, torn, failed>>

-----------------------------------------------------------------------------
(* The environment *)

Tick ==
  /\ now < MaxTime
  /\ now' = now + 1
  /\ UNCHANGED <<slot, claim, pc, stamp, kept, lease, lost, torn, failed>>

\* AgentPool.terminate kills the worker's thread at any await.
Crash(c) ==
  /\ pc[c] # "dead"
  /\ Cardinality(Dead) < MaxCrashes
  /\ Goto(c, "dead")
  /\ LeaveEmpty(c)
  /\ lease' = [lease EXCEPT ![c] = Blank]
  /\ lost' = IF slot # NoFile /\ slot.writer = c
             THEN lost \cup ({slot.bytes} \ {Blank}) ELSE lost
  /\ stamp' = [stamp EXCEPT ![c] = 0]
  /\ kept' = [kept EXCEPT ![c] = Blank]
  /\ UNCHANGED <<now, torn, failed>>

Acquire(c) ==
  \/ Create(c) \/ CreateWrite(c) \/ CreateFails(c)
  \/ ReadLocked(c) \/ ReadOwned(c) \/ ReadStale(c)
  \/ PruneOrphanClaims(c) \/ RenameToReclaim(c)
  \/ CheckMatches(c) \/ CheckMismatch(c)
  \/ Install(c) \/ InstallWrite(c) \/ UnlinkClaimHolding(c)

Release(c) ==
  \/ ReleaseNotOwned(c) \/ ReleaseOwned(c) \/ RenameToRelease(c)
  \/ ReleaseDone(c) \/ ReleaseMismatch(c) \/ FinishShared(c)

\* Steps the two operations share.
Settle(c) ==
  \/ RenameFails(c) \/ CheckPruned(c) \/ SlotReoccupied(c)
  \/ Restore(c) \/ RestoreWrite(c) \/ WriteFails(c) \/ UnlinkClaim(c)

Next ==
  \/ Tick
  \/ \E c \in Callers : Acquire(c) \/ Release(c) \/ Settle(c) \/ Crash(c)

Spec == Init /\ [][Next]_vars

-----------------------------------------------------------------------------
(* Properties *)

\* Every variable keeps its type.
TypeOK ==
  /\ now \in 0..MaxTime
  /\ slot \in Files \cup {NoFile}
  /\ claim \in [Callers -> Files \cup {NoFile}]
  /\ pc \in [Callers -> States]
  /\ stamp \in [Callers -> 0..MaxTime]
  /\ kept \in [Callers -> Bytes]
  /\ lease \in [Callers -> Bytes]
  /\ lost \subseteq Locks
  /\ torn \in BOOLEAN
  /\ failed \in BOOLEAN

\* A caller inside a lease that has not run out.
InLease(c) == Holding(c) /\ ~Expired(lease[c], now)

\* The caller is the only call in flight of its owner.
Alone(c) == \A d \in Callers \ {c} : OwnerOf[d] # OwnerOf[c]

\* The lock file of a caller inside a live lease stands in the slot for all
\* to read, unless a reclaim or a release that had read other bytes renamed
\* it away and failed to put it back.
LeaseStandsUnlessLost ==
  \A c \in Callers :
    Alone(c) /\ InLease(c) /\ lease[c] \notin lost
      => slot # NoFile /\ slot.bytes = lease[c]

\* Hence two owners with one call each are inside live leases on one file
\* only if such a capture took the lock of one of them.  Every other
\* interleaving of creates, takeovers, releases, sweeps, expiries and deaths
\* keeps the file exclusive.
ExclusiveUnlessLost ==
  \A c, d \in Callers :
    /\ Alone(c) /\ Alone(d) /\ c # d
    /\ InLease(c) /\ InLease(d)
    => lease[c] \in lost \/ lease[d] \in lost

\* The slot holds bytes nobody will ever parse, which no acquire reclaims,
\* only after a death between open and write, a capture of a file between the
\* two, or a write that failed after its open: restoring, expiring, sweeping
\* and releasing leave none.
BlankNeedsTear ==
  slot # NoFile /\ slot.writer = Nobody /\ slot.bytes = Blank
    => torn \/ failed \/ Dead # {}

\* What the comment above acquireFileLock promises: while another agent's
\* lease is live, acquire does not succeed.
ExclusiveLease ==
  \A c, d \in Callers :
    InLease(c) /\ InLease(d) => OwnerOf[c] = OwnerOf[d]

=============================================================================
