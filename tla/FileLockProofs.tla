--------------------------- MODULE FileLockProofs ---------------------------
(***************************************************************************)
(* Proofs about FileLock for every set of callers and owners, every TTL,   *)
(* sweep age and crash budget.                                             *)
(***************************************************************************)
EXTENDS FileLock, TLAPS

-----------------------------------------------------------------------------
(* Lemmas about files and bytes *)

\* A caller's lock is a lock.
LEMMA LockOfType ==
  ASSUME NEW c \in Callers, NEW t \in Nat
  PROVE  LockOf(c, t) \in Locks /\ LockOf(c, t) # Blank
  BY ConstantsAssumption, NullsAssumption DEF LockOf, Locks

\* readFile returns bytes, and a lock only if the file holds it.
LEMMA ContentsType ==
  ASSUME NEW f \in Files
  PROVE  /\ Contents(f) \in Bytes
         /\ Contents(f) # Blank => Contents(f) = f.bytes /\ f.bytes \in Locks
  BY DEF Contents, Files, Bytes

\* A finished write changes neither the existence of a file nor its bytes.
LEMMA WrittenType ==
  ASSUME NEW f \in Files \cup {NoFile}, NEW c \in Callers, now \in Nat
  PROVE  /\ Written(f, c) \in Files \cup {NoFile}
         /\ Written(f, c) = NoFile <=> f = NoFile
         /\ f # NoFile => Written(f, c).bytes = f.bytes
         /\ f # NoFile /\ f.writer = Nobody => Written(f, c) = f
  BY NullsAssumption DEF Written, Files

\* A file whose writer died keeps existing; other files are untouched.
LEMMA AbandonedType ==
  ASSUME NEW f \in Files \cup {NoFile}, NEW c \in Callers
  PROVE  /\ Abandoned(f, c) \in Files \cup {NoFile}
         /\ Abandoned(f, c) = NoFile <=> f = NoFile
         /\ f # NoFile /\ f.writer # c => Abandoned(f, c) = f
  BY NullsAssumption DEF Abandoned, Files, Bytes

-----------------------------------------------------------------------------
(* Type correctness *)

\* Every step keeps the types.
LEMMA TypeStep == TypeOK /\ [Next]_vars => TypeOK'
<1> SUFFICES ASSUME TypeOK, [Next]_vars PROVE TypeOK'
  OBVIOUS
<1> USE ConstantsAssumption, NullsAssumption
    DEF TypeOK, States, AcquireStates, ReleaseStates, SharedStates
<1>1. CASE UNCHANGED vars
  BY <1>1 DEF vars
<1>2. CASE Tick
  BY <1>2 DEF Tick
<1>t. 0..MaxTime \subseteq Nat /\ now \in Nat /\ 0 \in 0..MaxTime
  OBVIOUS
<1>3. ASSUME NEW e \in Callers, Create(e) PROVE TypeOK'
  BY <1>3, <1>t, LockOfType
     DEF Create, Goto, OpenExclusive, Files, Bytes
<1>4. ASSUME NEW e \in Callers, CreateWrite(e) PROVE TypeOK'
  BY <1>4, <1>t, LockOfType, WrittenType
     DEF CreateWrite, Goto, FinishWrite, Files, Bytes
<1>5. ASSUME NEW e \in Callers, CreateFails(e) PROVE TypeOK'
  BY <1>5, <1>t
     DEF CreateFails, Goto, Files, Bytes
<1>6. ASSUME NEW e \in Callers, ReadLocked(e) PROVE TypeOK'
  BY <1>6, <1>t, ContentsType
     DEF ReadLocked, Goto, Return, Files, Bytes
<1>7. ASSUME NEW e \in Callers, ReadOwned(e) PROVE TypeOK'
  BY <1>7, <1>t, ContentsType
     DEF ReadOwned, Goto, Files, Bytes
<1>8. ASSUME NEW e \in Callers, ReadStale(e) PROVE TypeOK'
  BY <1>8, <1>t, ContentsType
     DEF ReadStale, Goto, Files, Bytes
<1>9. ASSUME NEW e \in Callers, PruneOrphanClaims(e) PROVE TypeOK'
  BY <1>9, <1>t
     DEF PruneOrphanClaims, Goto, Files, Bytes
<1>10. ASSUME NEW e \in Callers, RenameToReclaim(e) PROVE TypeOK'
  BY <1>10, <1>t
     DEF RenameToReclaim, Goto, Capture, Files, Bytes
<1>11. ASSUME NEW e \in Callers, CheckMatches(e) PROVE TypeOK'
  BY <1>11, <1>t, ContentsType
     DEF CheckMatches, Goto, Files, Bytes
<1>12. ASSUME NEW e \in Callers, CheckMismatch(e) PROVE TypeOK'
  BY <1>12, <1>t, ContentsType
     DEF CheckMismatch, Goto, Files, Bytes
<1>13. ASSUME NEW e \in Callers, Install(e) PROVE TypeOK'
  BY <1>13, <1>t, LockOfType
     DEF Install, Goto, OpenExclusive, Files, Bytes
<1>14. ASSUME NEW e \in Callers, InstallWrite(e) PROVE TypeOK'
  BY <1>14, <1>t, LockOfType, WrittenType
     DEF InstallWrite, Goto, FinishWrite, Files, Bytes
<1>15. ASSUME NEW e \in Callers, UnlinkClaimHolding(e) PROVE TypeOK'
  BY <1>15, <1>t
     DEF UnlinkClaimHolding, Goto, Files, Bytes
<1>16. ASSUME NEW e \in Callers, ReleaseNotOwned(e) PROVE TypeOK'
  BY <1>16, <1>t, ContentsType
     DEF ReleaseNotOwned, Goto, Return, Files, Bytes
<1>17. ASSUME NEW e \in Callers, ReleaseOwned(e) PROVE TypeOK'
  BY <1>17, <1>t, ContentsType
     DEF ReleaseOwned, Goto, Files, Bytes
<1>18. ASSUME NEW e \in Callers, RenameToRelease(e) PROVE TypeOK'
  BY <1>18, <1>t
     DEF RenameToRelease, Goto, Capture, Files, Bytes
<1>19. ASSUME NEW e \in Callers, ReleaseDone(e) PROVE TypeOK'
  BY <1>19, <1>t, ContentsType
     DEF ReleaseDone, Goto, Files, Bytes
<1>20. ASSUME NEW e \in Callers, ReleaseMismatch(e) PROVE TypeOK'
  BY <1>20, <1>t, ContentsType
     DEF ReleaseMismatch, Goto, Files, Bytes
<1>21. ASSUME NEW e \in Callers, FinishShared(e) PROVE TypeOK'
  BY <1>21, <1>t
     DEF FinishShared, Goto, Return, Files, Bytes
<1>22. ASSUME NEW e \in Callers, RenameFails(e) PROVE TypeOK'
  BY <1>22, <1>t
     DEF RenameFails, Goto, Return, Files, Bytes
<1>23. ASSUME NEW e \in Callers, CheckPruned(e) PROVE TypeOK'
  BY <1>23, <1>t
     DEF CheckPruned, Goto, Files, Bytes
<1>24. ASSUME NEW e \in Callers, SlotReoccupied(e) PROVE TypeOK'
  BY <1>24, <1>t
     DEF SlotReoccupied, Goto, Files, Bytes
<1>25. ASSUME NEW e \in Callers, Restore(e) PROVE TypeOK'
  BY <1>25, <1>t
     DEF Restore, Goto, OpenExclusive, Files, Bytes
<1>26. ASSUME NEW e \in Callers, RestoreWrite(e) PROVE TypeOK'
  BY <1>26, <1>t, WrittenType
     DEF RestoreWrite, Goto, FinishWrite, Files, Bytes
<1>27. ASSUME NEW e \in Callers, UnlinkClaim(e) PROVE TypeOK'
  BY <1>27, <1>t
     DEF UnlinkClaim, Goto, Return, Files, Bytes
<1>28. ASSUME NEW e \in Callers, Crash(e) PROVE TypeOK'
  BY <1>28, <1>t, AbandonedType
     DEF Crash, LeaveEmpty, Goto, Files, Bytes
<1>29. ASSUME NEW e \in Callers, WriteFails(e) PROVE TypeOK'
  BY <1>29, <1>t, AbandonedType, LockOfType
     DEF WriteFails, LeaveEmpty, Goto, Files, Bytes
<1> QED
  BY <1>1, <1>2, <1>3, <1>4, <1>5, <1>6, <1>7, <1>8, <1>9, <1>10, <1>11,
     <1>12, <1>13, <1>14, <1>15, <1>16, <1>17, <1>18, <1>19, <1>20, <1>21,
     <1>22, <1>23, <1>24, <1>25, <1>26, <1>27, <1>28, <1>29 DEF Next, Acquire,
     Release, Settle

\* Type correctness of every reachable state: each call is suspended at an
\* await the code has, with the locals that await can see.
THEOREM TypeCorrect == Spec => []TypeOK
<1>1. ASSUME Init PROVE TypeOK
  <2>1. 0 \in 0..MaxTime /\ Blank \in Bytes /\ "idle" \in States
    BY ConstantsAssumption DEF Bytes, States
  <2>2. now \in 0..MaxTime /\ stamp \in [Callers -> 0..MaxTime]
    BY <1>1, <2>1 DEF Init
  <2>3. pc \in [Callers -> States]
    BY <1>1, <2>1 DEF Init
  <2>4. kept \in [Callers -> Bytes] /\ lease \in [Callers -> Bytes]
    BY <1>1, <2>1 DEF Init
  <2>5. slot \in Files \cup {NoFile} /\ claim \in [Callers -> Files \cup {NoFile}]
    BY <1>1 DEF Init
  <2> QED
    BY <1>1, <2>2, <2>3, <2>4, <2>5 DEF Init, TypeOK
<1> QED
  BY <1>1, TypeStep, PTL DEF Spec

-----------------------------------------------------------------------------
(* A lease is lost only to a mismatching capture *)

\* What a reclaim is about to take over had run out when the call started.
KeptIsStale ==
  \A c \in Callers :
    /\ stamp[c] <= now
    /\ pc[c] \in {"prune", "rename"}
         => kept[c] \in Locks /\ Expired(kept[c], stamp[c])

\* The lease of a caller names the caller's owner.
LeaseIsOwn ==
  \A c \in Callers :
    Holding(c) => lease[c] \in Locks /\ lease[c].owner = OwnerOf[c]

\* A caller between the open and the write of its lock is as safe as one that
\* holds it.
Pending(c) ==
  pc[c] \in {"createWrite", "installWrite"} /\ ~Expired(LockOf(c, stamp[c]), now)

InSlot(l) == slot # NoFile /\ slot.bytes = l

PendingStands ==
  \A c \in Callers :
    Alone(c) /\ Pending(c) /\ LockOf(c, stamp[c]) \notin lost
      => InSlot(LockOf(c, stamp[c]))

LeaseInv == KeptIsStale /\ LeaseIsOwn /\ PendingStands /\ LeaseStandsUnlessLost

\* Every step keeps the first two conjuncts.
LEMMA LocalStep ==
  TypeOK /\ KeptIsStale /\ LeaseIsOwn /\ [Next]_vars
    => KeptIsStale' /\ LeaseIsOwn'
<1> SUFFICES ASSUME TypeOK, KeptIsStale, LeaseIsOwn, [Next]_vars
             PROVE  KeptIsStale' /\ LeaseIsOwn'
  OBVIOUS
<1> USE ConstantsAssumption, NullsAssumption
    DEF TypeOK, KeptIsStale, LeaseIsOwn, Holding, Expired
<1>1. CASE UNCHANGED vars
  BY <1>1 DEF vars
<1>2. CASE Tick
  BY <1>2 DEF Tick, Locks
<1>t. 0..MaxTime \subseteq Nat /\ now \in Nat
  OBVIOUS
<1>3. ASSUME NEW e \in Callers, Create(e) PROVE KeptIsStale' /\ LeaseIsOwn'
  BY <1>3, <1>t, LockOfType
     DEF Create, Goto, LockOf, Bytes
<1>4. ASSUME NEW e \in Callers, CreateWrite(e) PROVE KeptIsStale' /\ LeaseIsOwn'
  BY <1>4, <1>t, LockOfType
     DEF CreateWrite, Goto, LockOf, Bytes
<1>5. ASSUME NEW e \in Callers, CreateFails(e) PROVE KeptIsStale' /\ LeaseIsOwn'
  BY <1>5, <1>t
     DEF CreateFails, Goto, Bytes
<1>6. ASSUME NEW e \in Callers, ReadLocked(e) PROVE KeptIsStale' /\ LeaseIsOwn'
  BY <1>6, <1>t, ContentsType
     DEF ReadLocked, Goto, Return, Owns, Bytes
<1>7. ASSUME NEW e \in Callers, ReadOwned(e) PROVE KeptIsStale' /\ LeaseIsOwn'
  BY <1>7, <1>t, ContentsType
     DEF ReadOwned, Goto, Owns, Bytes
<1>8. ASSUME NEW e \in Callers, ReadStale(e) PROVE KeptIsStale' /\ LeaseIsOwn'
  BY <1>8, <1>t, ContentsType
     DEF ReadStale, Goto, Bytes
<1>9. ASSUME NEW e \in Callers, PruneOrphanClaims(e) PROVE KeptIsStale' /\ LeaseIsOwn'
  BY <1>9, <1>t
     DEF PruneOrphanClaims, Goto, Bytes
<1>10. ASSUME NEW e \in Callers, RenameToReclaim(e) PROVE KeptIsStale' /\ LeaseIsOwn'
  BY <1>10, <1>t
     DEF RenameToReclaim, Goto, Bytes
<1>11. ASSUME NEW e \in Callers, CheckMatches(e) PROVE KeptIsStale' /\ LeaseIsOwn'
  BY <1>11, <1>t, ContentsType
     DEF CheckMatches, Goto, Bytes
<1>12. ASSUME NEW e \in Callers, CheckMismatch(e) PROVE KeptIsStale' /\ LeaseIsOwn'
  BY <1>12, <1>t, ContentsType
     DEF CheckMismatch, Goto, Bytes
<1>13. ASSUME NEW e \in Callers, Install(e) PROVE KeptIsStale' /\ LeaseIsOwn'
  BY <1>13, <1>t, LockOfType
     DEF Install, Goto, LockOf, Bytes
<1>14. ASSUME NEW e \in Callers, InstallWrite(e) PROVE KeptIsStale' /\ LeaseIsOwn'
  BY <1>14, <1>t, LockOfType
     DEF InstallWrite, Goto, LockOf, Bytes
<1>15. ASSUME NEW e \in Callers, UnlinkClaimHolding(e) PROVE KeptIsStale' /\ LeaseIsOwn'
  BY <1>15, <1>t
     DEF UnlinkClaimHolding, Goto, Bytes
<1>16. ASSUME NEW e \in Callers, ReleaseNotOwned(e) PROVE KeptIsStale' /\ LeaseIsOwn'
  BY <1>16, <1>t, ContentsType
     DEF ReleaseNotOwned, Goto, Return, Owns, Bytes
<1>17. ASSUME NEW e \in Callers, ReleaseOwned(e) PROVE KeptIsStale' /\ LeaseIsOwn'
  BY <1>17, <1>t, ContentsType
     DEF ReleaseOwned, Goto, Owns, Bytes
<1>18. ASSUME NEW e \in Callers, RenameToRelease(e) PROVE KeptIsStale' /\ LeaseIsOwn'
  BY <1>18, <1>t
     DEF RenameToRelease, Goto, Owns, Bytes
<1>19. ASSUME NEW e \in Callers, ReleaseDone(e) PROVE KeptIsStale' /\ LeaseIsOwn'
  BY <1>19, <1>t, ContentsType
     DEF ReleaseDone, Goto, Owns, Bytes
<1>20. ASSUME NEW e \in Callers, ReleaseMismatch(e) PROVE KeptIsStale' /\ LeaseIsOwn'
  BY <1>20, <1>t, ContentsType
     DEF ReleaseMismatch, Goto, Owns, Bytes
<1>21. ASSUME NEW e \in Callers, FinishShared(e) PROVE KeptIsStale' /\ LeaseIsOwn'
  BY <1>21, <1>t
     DEF FinishShared, Goto, Return, Bytes
<1>22. ASSUME NEW e \in Callers, RenameFails(e) PROVE KeptIsStale' /\ LeaseIsOwn'
  BY <1>22, <1>t
     DEF RenameFails, Goto, Return, Bytes
<1>23. ASSUME NEW e \in Callers, CheckPruned(e) PROVE KeptIsStale' /\ LeaseIsOwn'
  BY <1>23, <1>t
     DEF CheckPruned, Goto, Bytes
<1>24. ASSUME NEW e \in Callers, SlotReoccupied(e) PROVE KeptIsStale' /\ LeaseIsOwn'
  BY <1>24, <1>t
     DEF SlotReoccupied, Goto, Bytes
<1>25. ASSUME NEW e \in Callers, Restore(e) PROVE KeptIsStale' /\ LeaseIsOwn'
  BY <1>25, <1>t
     DEF Restore, Goto, Bytes
<1>26. ASSUME NEW e \in Callers, RestoreWrite(e) PROVE KeptIsStale' /\ LeaseIsOwn'
  BY <1>26, <1>t
     DEF RestoreWrite, Goto, Bytes
<1>27. ASSUME NEW e \in Callers, UnlinkClaim(e) PROVE KeptIsStale' /\ LeaseIsOwn'
  BY <1>27, <1>t
     DEF UnlinkClaim, Goto, Return, Bytes
<1>28. ASSUME NEW e \in Callers, Crash(e) PROVE KeptIsStale' /\ LeaseIsOwn'
  BY <1>28, <1>t
     DEF Crash, Goto, Bytes
<1>29. ASSUME NEW e \in Callers, WriteFails(e) PROVE KeptIsStale' /\ LeaseIsOwn'
  BY <1>29, <1>t
     DEF WriteFails, Goto, Bytes
<1> QED
  BY <1>1, <1>2, <1>3, <1>4, <1>5, <1>6, <1>7, <1>8, <1>9, <1>10, <1>11,
     <1>12, <1>13, <1>14, <1>15, <1>16, <1>17, <1>18, <1>19, <1>20, <1>21,
     <1>22, <1>23, <1>24, <1>25, <1>26, <1>27, <1>28, <1>29 DEF Next, Acquire,
     Release, Settle

\* Every step keeps the locks of pending and running leases in the slot.
LEMMA StandsStep ==
  TypeOK /\ LeaseInv /\ [Next]_vars => PendingStands' /\ LeaseStandsUnlessLost'
<1> SUFFICES ASSUME TypeOK, LeaseInv, [Next]_vars
             PROVE  PendingStands' /\ LeaseStandsUnlessLost'
  OBVIOUS
<1> USE ConstantsAssumption, NullsAssumption DEF TypeOK, LeaseInv
<1>1. CASE UNCHANGED vars
  BY <1>1 DEF vars, LockOf, PendingStands, LeaseStandsUnlessLost, Pending, InSlot,
              Holding, InLease, Expired
<1>2. CASE Tick
  BY <1>2 DEF Tick, LockOf, Locks, PendingStands, LeaseStandsUnlessLost, LeaseIsOwn,
              Pending, InSlot, Holding, InLease, Expired
<1>t. 0..MaxTime \subseteq Nat /\ now \in Nat
  OBVIOUS
\* A step that moves no lock file and starts no lease.
<1>q. ASSUME UNCHANGED <<now, slot, lost>>,
             \A c \in Callers : Pending(c)' => Pending(c) /\ stamp'[c] = stamp[c],
             \A c \in Callers : InLease(c)' => InLease(c) /\ lease'[c] = lease[c]
      PROVE  PendingStands' /\ LeaseStandsUnlessLost'
  BY <1>q DEF PendingStands, LeaseStandsUnlessLost, LockOf, InSlot
<1>3. ASSUME NEW e \in Callers, Create(e)
      PROVE  PendingStands' /\ LeaseStandsUnlessLost'
  <2> USE <1>3 DEF Create, Goto, OpenExclusive
  <2>1. slot = NoFile /\ slot' # NoFile /\ slot'.bytes = LockOf(e, now)
    BY LockOfType, <1>t DEF Files, Bytes
  <2>2. ASSUME NEW c \in Callers, Alone(c), Pending(c)', LockOf(c, stamp'[c]) \notin lost'
        PROVE  InSlot(LockOf(c, stamp[c]))'
    <3>1. CASE c = e
      BY <3>1, <2>1, <2>2 DEF InSlot, Pending
    <3>2. CASE c # e
      <4>1. Pending(c) /\ stamp'[c] = stamp[c]
        BY <3>2, <2>2 DEF Pending
      <4> QED
        BY <4>1, <2>1, <2>2 DEF PendingStands, InSlot
    <3> QED
      BY <3>1, <3>2
  <2>3. ASSUME NEW c \in Callers, Alone(c), InLease(c)', lease'[c] \notin lost'
        PROVE  InSlot(lease[c])'
    BY <2>1, <2>3 DEF LeaseStandsUnlessLost, InSlot, InLease, Holding
  <2> QED
    BY <2>2, <2>3 DEF PendingStands, LeaseStandsUnlessLost, InSlot
<1>4. ASSUME NEW e \in Callers, CreateWrite(e)
      PROVE  PendingStands' /\ LeaseStandsUnlessLost'
  <2> USE <1>4 DEF CreateWrite, Goto, FinishWrite
  <2>1. /\ slot' # NoFile <=> slot # NoFile
        /\ slot # NoFile => slot'.bytes = slot.bytes
    BY WrittenType, <1>t
  <2>2. ASSUME NEW c \in Callers, Alone(c), Pending(c)', LockOf(c, stamp'[c]) \notin lost'
        PROVE  InSlot(LockOf(c, stamp[c]))'
    <3>1. Pending(c)
      BY <2>2 DEF Pending
    <3> QED
      BY <3>1, <2>1, <2>2 DEF PendingStands, InSlot
  <2>3. ASSUME NEW c \in Callers, Alone(c), InLease(c)', lease'[c] \notin lost'
        PROVE  InSlot(lease[c])'
    <3>1. CASE c = e
      <4>1. lease'[c] = LockOf(e, stamp[e]) /\ Pending(c)
        BY <3>1, <2>3 DEF Pending, InLease
      <4> QED
        BY <4>1, <3>1, <2>1, <2>3 DEF PendingStands, InSlot
    <3>2. CASE c # e
      BY <3>2, <2>1, <2>3 DEF LeaseStandsUnlessLost, InSlot, InLease, Holding
    <3> QED
      BY <3>1, <3>2
  <2> QED
    BY <2>2, <2>3 DEF PendingStands, LeaseStandsUnlessLost, InSlot
<1>5. ASSUME NEW e \in Callers, CreateFails(e)
      PROVE  PendingStands' /\ LeaseStandsUnlessLost'
  BY <1>5, <1>q DEF CreateFails, Goto, Pending, InLease, Holding
<1>6. ASSUME NEW e \in Callers, ReadLocked(e)
      PROVE  PendingStands' /\ LeaseStandsUnlessLost'
  BY <1>6, <1>q DEF ReadLocked, Goto, Return, Pending, InLease, Holding
<1>7. ASSUME NEW e \in Callers, ReadOwned(e)
      PROVE  PendingStands' /\ LeaseStandsUnlessLost'
  BY <1>7, <1>t, ContentsType
     DEF ReadOwned, Goto, Owns, Bytes, Locks, PendingStands,
         LeaseStandsUnlessLost, KeptIsStale, LeaseIsOwn, Pending, InSlot,
         Holding, InLease, Alone, Expired
<1>8. ASSUME NEW e \in Callers, ReadStale(e)
      PROVE  PendingStands' /\ LeaseStandsUnlessLost'
  BY <1>8, <1>q DEF ReadStale, Goto, Pending, InLease, Holding
<1>9. ASSUME NEW e \in Callers, PruneOrphanClaims(e)
      PROVE  PendingStands' /\ LeaseStandsUnlessLost'
  BY <1>9, <1>q DEF PruneOrphanClaims, Goto, Pending, InLease, Holding
<1>10. ASSUME NEW e \in Callers, RenameToReclaim(e)
      PROVE  PendingStands' /\ LeaseStandsUnlessLost'
  <2> USE <1>10 DEF RenameToReclaim, Goto, Capture
  <2> DEFINE Safe(l) == ~Expired(l, now) /\ l \notin lost'
  <2>1. /\ slot \in Files /\ slot # NoFile /\ lost \subseteq lost'
        /\ slot.bytes \notin lost' => \/ slot.bytes = Blank
                                      \/ kept[e] = slot.bytes /\ Expired(kept[e], stamp[e])
    BY DEF Files, KeptIsStale
  <2>2. ASSUME NEW c \in Callers, Alone(c), NEW l \in Locks, l.owner = OwnerOf[c],
               Safe(l), InSlot(l), c # e
        PROVE  FALSE
    BY <2>1, <2>2, <1>t, NullsAssumption DEF InSlot, Expired, KeptIsStale, Locks
  <2>3. ASSUME NEW c \in Callers, Alone(c), Pending(c)', LockOf(c, stamp'[c]) \notin lost'
        PROVE  FALSE
    <3>1. Pending(c) /\ c # e
      BY <2>3 DEF Pending
    <3>2. /\ LockOf(c, stamp[c]) \in Locks /\ LockOf(c, stamp[c]).owner = OwnerOf[c]
          /\ Safe(LockOf(c, stamp[c]))
      BY <3>1, <2>3, LockOfType, <1>t DEF LockOf, Pending
    <3>3. InSlot(LockOf(c, stamp[c]))
      BY <3>1, <3>2, <2>1, <2>3 DEF PendingStands
    <3> QED
      BY <3>1, <3>2, <3>3, <2>2, <2>3
  <2>4. ASSUME NEW c \in Callers, Alone(c), InLease(c)', lease'[c] \notin lost'
        PROVE  FALSE
    <3>1. InLease(c) /\ c # e
      BY <2>4 DEF InLease, Holding
    <3>2. lease[c] \in Locks /\ lease[c].owner = OwnerOf[c] /\ Safe(lease[c])
      BY <3>1, <2>4 DEF InLease, LeaseIsOwn
    <3>3. InSlot(lease[c])
      BY <3>1, <3>2, <2>1, <2>4 DEF LeaseStandsUnlessLost, InSlot
    <3> QED
      BY <3>1, <3>2, <3>3, <2>2, <2>4
  <2> QED
    BY <2>3, <2>4 DEF PendingStands, LeaseStandsUnlessLost
<1>11. ASSUME NEW e \in Callers, CheckMatches(e)
      PROVE  PendingStands' /\ LeaseStandsUnlessLost'
  BY <1>11, <1>q DEF CheckMatches, Goto, Pending, InLease, Holding
<1>12. ASSUME NEW e \in Callers, CheckMismatch(e)
      PROVE  PendingStands' /\ LeaseStandsUnlessLost'
  BY <1>12, <1>q DEF CheckMismatch, Goto, Pending, InLease, Holding
<1>13. ASSUME NEW e \in Callers, Install(e)
      PROVE  PendingStands' /\ LeaseStandsUnlessLost'
  <2> USE <1>13 DEF Install, Goto, OpenExclusive
  <2>1. slot = NoFile /\ slot' # NoFile /\ slot'.bytes = LockOf(e, stamp[e])
    BY LockOfType, <1>t DEF Files, Bytes
  <2>2. ASSUME NEW c \in Callers, Alone(c), Pending(c)', LockOf(c, stamp'[c]) \notin lost'
        PROVE  InSlot(LockOf(c, stamp[c]))'
    <3>1. CASE c = e
      BY <3>1, <2>1, <2>2 DEF InSlot, Pending
    <3>2. CASE c # e
      <4>1. Pending(c) /\ stamp'[c] = stamp[c]
        BY <3>2, <2>2 DEF Pending
      <4> QED
        BY <4>1, <2>1, <2>2 DEF PendingStands, InSlot
    <3> QED
      BY <3>1, <3>2
  <2>3. ASSUME NEW c \in Callers, Alone(c), InLease(c)', lease'[c] \notin lost'
        PROVE  InSlot(lease[c])'
    BY <2>1, <2>3 DEF LeaseStandsUnlessLost, InSlot, InLease, Holding
  <2> QED
    BY <2>2, <2>3 DEF PendingStands, LeaseStandsUnlessLost, InSlot
<1>14. ASSUME NEW e \in Callers, InstallWrite(e)
      PROVE  PendingStands' /\ LeaseStandsUnlessLost'
  <2> USE <1>14 DEF InstallWrite, Goto, FinishWrite
  <2>1. /\ slot' # NoFile <=> slot # NoFile
        /\ slot # NoFile => slot'.bytes = slot.bytes
    BY WrittenType, <1>t
  <2>2. ASSUME NEW c \in Callers, Alone(c), Pending(c)', LockOf(c, stamp'[c]) \notin lost'
        PROVE  InSlot(LockOf(c, stamp[c]))'
    <3>1. Pending(c)
      BY <2>2 DEF Pending
    <3> QED
      BY <3>1, <2>1, <2>2 DEF PendingStands, InSlot
  <2>3. ASSUME NEW c \in Callers, Alone(c), InLease(c)', lease'[c] \notin lost'
        PROVE  InSlot(lease[c])'
    <3>1. CASE c = e
      <4>1. lease'[c] = LockOf(e, stamp[e]) /\ Pending(c)
        BY <3>1, <2>3 DEF Pending, InLease
      <4> QED
        BY <4>1, <3>1, <2>1, <2>3 DEF PendingStands, InSlot
    <3>2. CASE c # e
      BY <3>2, <2>1, <2>3 DEF LeaseStandsUnlessLost, InSlot, InLease, Holding
    <3> QED
      BY <3>1, <3>2
  <2> QED
    BY <2>2, <2>3 DEF PendingStands, LeaseStandsUnlessLost, InSlot
<1>15. ASSUME NEW e \in Callers, UnlinkClaimHolding(e)
      PROVE  PendingStands' /\ LeaseStandsUnlessLost'
  BY <1>15, <1>q DEF UnlinkClaimHolding, Goto, Pending, InLease, Holding
<1>16. ASSUME NEW e \in Callers, ReleaseNotOwned(e)
      PROVE  PendingStands' /\ LeaseStandsUnlessLost'
  BY <1>16, <1>q DEF ReleaseNotOwned, Goto, Return, Pending, InLease, Holding
<1>17. ASSUME NEW e \in Callers, ReleaseOwned(e)
      PROVE  PendingStands' /\ LeaseStandsUnlessLost'
  BY <1>17, <1>q DEF ReleaseOwned, Goto, Pending, InLease, Holding
<1>18. ASSUME NEW e \in Callers, RenameToRelease(e)
      PROVE  PendingStands' /\ LeaseStandsUnlessLost'
  <2> USE <1>18 DEF RenameToRelease, Goto, Capture
  <2> DEFINE Safe(l) == ~Expired(l, now) /\ l \notin lost'
  <2>1. /\ slot \in Files /\ slot # NoFile /\ lost \subseteq lost'
        /\ slot.bytes \notin lost' => slot.bytes = Blank \/ Owns(e, slot.bytes)
    BY DEF Files, KeptIsStale
  <2>2. ASSUME NEW c \in Callers, Alone(c), NEW l \in Locks, l.owner = OwnerOf[c],
               Safe(l), InSlot(l), c # e
        PROVE  FALSE
    BY <2>1, <2>2, NullsAssumption DEF InSlot, Owns, Alone
  <2>3. ASSUME NEW c \in Callers, Alone(c), Pending(c)', LockOf(c, stamp'[c]) \notin lost'
        PROVE  FALSE
    <3>1. Pending(c) /\ c # e
      BY <2>3 DEF Pending
    <3>2. /\ LockOf(c, stamp[c]) \in Locks /\ LockOf(c, stamp[c]).owner = OwnerOf[c]
          /\ Safe(LockOf(c, stamp[c]))
      BY <3>1, <2>3, LockOfType, <1>t DEF LockOf, Pending
    <3>3. InSlot(LockOf(c, stamp[c]))
      BY <3>1, <3>2, <2>1, <2>3 DEF PendingStands
    <3> QED
      BY <3>1, <3>2, <3>3, <2>2, <2>3
  <2>4. ASSUME NEW c \in Callers, Alone(c), InLease(c)', lease'[c] \notin lost'
        PROVE  FALSE
    <3>1. InLease(c) /\ c # e
      BY <2>4 DEF InLease, Holding
    <3>2. lease[c] \in Locks /\ lease[c].owner = OwnerOf[c] /\ Safe(lease[c])
      BY <3>1, <2>4 DEF InLease, LeaseIsOwn
    <3>3. InSlot(lease[c])
      BY <3>1, <3>2, <2>1, <2>4 DEF LeaseStandsUnlessLost, InSlot
    <3> QED
      BY <3>1, <3>2, <3>3, <2>2, <2>4
  <2> QED
    BY <2>3, <2>4 DEF PendingStands, LeaseStandsUnlessLost
<1>19. ASSUME NEW e \in Callers, ReleaseDone(e)
      PROVE  PendingStands' /\ LeaseStandsUnlessLost'
  BY <1>19, <1>q DEF ReleaseDone, Goto, Pending, InLease, Holding
<1>20. ASSUME NEW e \in Callers, ReleaseMismatch(e)
      PROVE  PendingStands' /\ LeaseStandsUnlessLost'
  BY <1>20, <1>q DEF ReleaseMismatch, Goto, Pending, InLease, Holding
<1>21. ASSUME NEW e \in Callers, FinishShared(e)
      PROVE  PendingStands' /\ LeaseStandsUnlessLost'
  BY <1>21, <1>q DEF FinishShared, Goto, Return, Pending, InLease, Holding
<1>22. ASSUME NEW e \in Callers, RenameFails(e)
      PROVE  PendingStands' /\ LeaseStandsUnlessLost'
  BY <1>22, <1>q DEF RenameFails, Goto, Return, Pending, InLease, Holding
<1>23. ASSUME NEW e \in Callers, CheckPruned(e)
      PROVE  PendingStands' /\ LeaseStandsUnlessLost'
  BY <1>23, <1>q DEF CheckPruned, Goto, Pending, InLease, Holding
<1>24. ASSUME NEW e \in Callers, SlotReoccupied(e)
      PROVE  PendingStands' /\ LeaseStandsUnlessLost'
  BY <1>24, <1>q DEF SlotReoccupied, Goto, Pending, InLease, Holding
<1>25. ASSUME NEW e \in Callers, Restore(e)
      PROVE  PendingStands' /\ LeaseStandsUnlessLost'
  <2> USE <1>25 DEF Restore, Goto, OpenExclusive
  <2>1. slot = NoFile /\ slot' # NoFile /\ slot'.bytes = kept[e]
    BY DEF Files, Bytes
  <2>2. ASSUME NEW l, l \notin lost', l \notin lost => InSlot(l)
        PROVE  InSlot(l)'
    BY <2>1, <2>2 DEF InSlot
  <2>3. ASSUME NEW c \in Callers, Alone(c), Pending(c)', LockOf(c, stamp'[c]) \notin lost'
        PROVE  InSlot(LockOf(c, stamp[c]))'
    <3>1. Pending(c) /\ stamp' = stamp
      BY <2>3 DEF Pending
    <3> QED
      BY <3>1, <2>2, <2>3 DEF PendingStands
  <2>4. ASSUME NEW c \in Callers, Alone(c), InLease(c)', lease'[c] \notin lost'
        PROVE  InSlot(lease[c])'
    <3>1. InLease(c) /\ lease' = lease
      BY <2>4 DEF InLease, Holding
    <3> QED
      BY <3>1, <2>2, <2>4 DEF LeaseStandsUnlessLost, InSlot
  <2> QED
    BY <2>3, <2>4 DEF PendingStands, LeaseStandsUnlessLost, InSlot
<1>26. ASSUME NEW e \in Callers, RestoreWrite(e)
      PROVE  PendingStands' /\ LeaseStandsUnlessLost'
  BY <1>26, <1>t, WrittenType
     DEF RestoreWrite, Goto, FinishWrite, Bytes, Locks, PendingStands,
         LeaseStandsUnlessLost, KeptIsStale, LeaseIsOwn, Pending, InSlot,
         Holding, InLease, Alone, Expired
<1>27. ASSUME NEW e \in Callers, UnlinkClaim(e)
      PROVE  PendingStands' /\ LeaseStandsUnlessLost'
  BY <1>27, <1>q DEF UnlinkClaim, Goto, Return, Pending, InLease, Holding
<1>28. ASSUME NEW e \in Callers, Crash(e)
      PROVE  PendingStands' /\ LeaseStandsUnlessLost'
  <2> USE <1>28 DEF Crash, LeaveEmpty, Goto
  <2>1. ASSUME NEW l \in Locks, l \notin lost', InSlot(l)
        PROVE  InSlot(l)'
    <3>1. slot # NoFile /\ slot.bytes = l /\ l # Blank
      BY <2>1 DEF InSlot
    <3>2. slot.writer # e
      BY <2>1, <3>1
    <3> QED
      BY <3>1, <3>2, AbandonedType DEF InSlot
  <2>2. ASSUME NEW c \in Callers, Alone(c), Pending(c)', LockOf(c, stamp'[c]) \notin lost'
        PROVE  InSlot(LockOf(c, stamp[c]))'
    <3>1. c # e /\ Pending(c) /\ stamp'[c] = stamp[c]
      BY <2>2 DEF Pending
    <3>2. InSlot(LockOf(c, stamp[c]))
      BY <3>1, <2>2 DEF PendingStands
    <3> QED
      BY <3>1, <3>2, <2>1, <2>2, <1>t, LockOfType
  <2>3. ASSUME NEW c \in Callers, Alone(c), InLease(c)', lease'[c] \notin lost'
        PROVE  InSlot(lease[c])'
    <3>1. c # e /\ InLease(c) /\ lease'[c] = lease[c] /\ lease[c] \in Locks
      BY <2>3 DEF InLease, Holding, LeaseIsOwn
    <3>2. InSlot(lease[c])
      BY <3>1, <2>3 DEF LeaseStandsUnlessLost, InSlot
    <3> QED
      BY <3>1, <3>2, <2>1, <2>3
  <2> QED
    BY <2>2, <2>3 DEF PendingStands, LeaseStandsUnlessLost, InSlot
<1>29. ASSUME NEW e \in Callers, WriteFails(e)
      PROVE  PendingStands' /\ LeaseStandsUnlessLost'
  <2> USE <1>29 DEF WriteFails, LeaveEmpty, Goto
  <2>1. ASSUME NEW l \in Locks, l \notin lost', InSlot(l), l.owner # OwnerOf[e]
        PROVE  InSlot(l)'
    <3>1. slot # NoFile /\ slot.bytes = l /\ l # Blank
      BY <2>1 DEF InSlot
    <3>2. l # LockOf(e, stamp[e])
      BY <2>1 DEF LockOf
    <3>3. slot.writer # e
      BY <2>1, <3>1, <3>2
    <3> QED
      BY <3>1, <3>3, AbandonedType DEF InSlot
  <2>2. ASSUME NEW c \in Callers, Alone(c), Pending(c)', LockOf(c, stamp'[c]) \notin lost'
        PROVE  InSlot(LockOf(c, stamp[c]))'
    <3>1. c # e /\ Pending(c) /\ stamp' = stamp
      BY <2>2 DEF Pending
    <3>2. InSlot(LockOf(c, stamp[c]))
      BY <3>1, <2>2 DEF PendingStands
    <3>3. LockOf(c, stamp[c]).owner # OwnerOf[e]
      BY <3>1, <2>2 DEF Alone, LockOf
    <3> QED
      BY <3>1, <3>2, <3>3, <2>1, <2>2, <1>t, LockOfType
  <2>3. ASSUME NEW c \in Callers, Alone(c), InLease(c)', lease'[c] \notin lost'
        PROVE  InSlot(lease[c])'
    <3>1. c # e /\ InLease(c) /\ lease' = lease
      BY <2>3 DEF InLease, Holding
    <3>2. lease[c] \in Locks /\ lease[c].owner = OwnerOf[c]
      BY <3>1 DEF InLease, LeaseIsOwn
    <3>3. InSlot(lease[c])
      BY <3>1, <2>3 DEF LeaseStandsUnlessLost, InSlot
    <3>4. lease[c].owner # OwnerOf[e]
      BY <3>1, <3>2, <2>3 DEF Alone
    <3> QED
      BY <3>1, <3>2, <3>3, <3>4, <2>1, <2>3
  <2> QED
    BY <2>2, <2>3 DEF PendingStands, LeaseStandsUnlessLost, InSlot
<1> QED
  BY <1>1, <1>2, <1>3, <1>4, <1>5, <1>6, <1>7, <1>8, <1>9, <1>10, <1>11,
     <1>12, <1>13, <1>14, <1>15, <1>16, <1>17, <1>18, <1>19, <1>20, <1>21,
     <1>22, <1>23, <1>24, <1>25, <1>26, <1>27, <1>28, <1>29 DEF Next, Acquire,
     Release, Settle

\* The strengthening is an invariant.
LEMMA LeaseInvariant == Spec => []LeaseInv
<1>1. Init => LeaseInv
  BY ConstantsAssumption
     DEF Init, LeaseInv, KeptIsStale, LeaseIsOwn, PendingStands,
         LeaseStandsUnlessLost, Pending, Holding, InLease
<1>2. TypeOK /\ LeaseInv /\ [Next]_vars => LeaseInv'
  BY LocalStep, StandsStep DEF LeaseInv
<1> QED
  BY <1>1, <1>2, TypeCorrect, PTL DEF Spec

\* The lease of a lone caller stands in the slot for all to read unless a
\* mismatching capture took it: file-lock.ts loses a live lease in no other way.
THEOREM LeaseStands == Spec => []LeaseStandsUnlessLost
<1>1. LeaseInv => LeaseStandsUnlessLost
  BY DEF LeaseInv
<1> QED
  BY <1>1, LeaseInvariant, PTL

\* Two owners with one call each are inside live leases on one file only if a
\* mismatching capture took the lock of one of them.
THEOREM Exclusive == Spec => []ExclusiveUnlessLost
<1>1. LeaseInv => ExclusiveUnlessLost
  <2> SUFFICES ASSUME LeaseInv,
                      NEW c \in Callers, NEW d \in Callers,
                      Alone(c), Alone(d), c # d, InLease(c), InLease(d),
                      lease[c] \notin lost, lease[d] \notin lost
               PROVE  FALSE
    BY DEF ExclusiveUnlessLost
  <2>1. lease[c] = slot.bytes /\ lease[d] = slot.bytes
    BY DEF LeaseInv, LeaseStandsUnlessLost
  <2>2. lease[c].owner = OwnerOf[c] /\ lease[d].owner = OwnerOf[d]
    BY DEF LeaseInv, LeaseIsOwn, InLease
  <2>3. OwnerOf[c] # OwnerOf[d]
    BY DEF Alone
  <2> QED
    BY <2>1, <2>2, <2>3
<1> QED
  BY <1>1, LeaseInvariant, PTL

-----------------------------------------------------------------------------
(* The slot stays readable *)

\* Without a death, a failed write and a capture between an open and its write,
\* no file and no local holds blank bytes, and no claim is open for writing.
Tear == torn \/ failed \/ Dead # {}

Readable ==
  \/ Tear
  \/ /\ slot # NoFile => slot.bytes # Blank
     /\ \A c \in Callers :
          /\ claim[c] # NoFile => claim[c].bytes # Blank /\ claim[c].writer = Nobody
          /\ pc[c] = "restore" => kept[c] # Blank

\* Every step keeps the files readable.
LEMMA ReadableStep == TypeOK /\ Readable /\ [Next]_vars => Readable'
<1> SUFFICES ASSUME TypeOK, Readable, [Next]_vars PROVE Readable'
  OBVIOUS
<1> USE ConstantsAssumption, NullsAssumption DEF TypeOK
<1>1. CASE UNCHANGED vars
  BY <1>1 DEF vars, Readable, Tear, Dead
<1>2. CASE Tick
  BY <1>2 DEF Tick, Readable, Tear, Dead
<1>t. 0..MaxTime \subseteq Nat /\ now \in Nat
  OBVIOUS
<1>d. /\ Tear /\ (torn => torn') /\ (failed => failed')
      /\ \A c \in Callers : pc[c] = "dead" => pc'[c] = "dead"
      => Readable'
  BY DEF Tear, Readable, Dead
<1>w. ASSUME NEW e \in Callers, FinishWrite(e), ~Tear
      PROVE  /\ slot' # NoFile => slot'.bytes # Blank
             /\ \A c \in Callers :
                  claim'[c] # NoFile => claim'[c].bytes # Blank /\ claim'[c].writer = Nobody
  <2>1. slot' # NoFile => slot # NoFile /\ slot'.bytes = slot.bytes
    BY <1>w, <1>t, WrittenType DEF FinishWrite
  <2>2. ASSUME NEW c \in Callers, claim'[c] # NoFile
        PROVE  claim'[c] = claim[c] /\ claim[c] # NoFile
    <3>1. claim[c] \in Files \cup {NoFile} /\ claim'[c] = Written(claim[c], e)
      BY <1>w DEF FinishWrite
    <3>2. claim[c] # NoFile
      BY <3>1, <2>2, <1>t, WrittenType
    <3> QED
      BY <3>1, <3>2, <1>w, <1>t, WrittenType DEF Readable
  <2> QED
    BY <1>w, <2>1, <2>2 DEF Readable
<1>3. ASSUME NEW e \in Callers, Create(e) PROVE Readable'
  BY <1>3, <1>t, <1>d, LockOfType
     DEF Create, Goto, OpenExclusive, Readable, Tear, Dead
<1>4. ASSUME NEW e \in Callers, CreateWrite(e) PROVE Readable'
  <2>1. CASE Tear
    BY <2>1, <1>4, <1>d DEF CreateWrite, Goto
  <2>2. CASE ~Tear
    BY <2>2, <1>4, <1>w DEF CreateWrite, Goto, Readable
  <2> QED
    BY <2>1, <2>2
<1>5. ASSUME NEW e \in Callers, CreateFails(e) PROVE Readable'
  BY <1>5, <1>t, <1>d
     DEF CreateFails, Goto, Readable, Tear, Dead
<1>6. ASSUME NEW e \in Callers, ReadLocked(e) PROVE Readable'
  BY <1>6, <1>t, <1>d, ContentsType
     DEF ReadLocked, Goto, Return, Contents, Readable, Tear, Dead
<1>7. ASSUME NEW e \in Callers, ReadOwned(e) PROVE Readable'
  BY <1>7, <1>t, <1>d, ContentsType
     DEF ReadOwned, Goto, Contents, Readable, Tear, Dead
<1>8. ASSUME NEW e \in Callers, ReadStale(e) PROVE Readable'
  BY <1>8, <1>t, <1>d, ContentsType
     DEF ReadStale, Goto, Contents, Readable, Tear, Dead
<1>9. ASSUME NEW e \in Callers, PruneOrphanClaims(e) PROVE Readable'
  BY <1>9, <1>t, <1>d
     DEF PruneOrphanClaims, Goto, Readable, Tear, Dead
<1>10. ASSUME NEW e \in Callers, RenameToReclaim(e) PROVE Readable'
  BY <1>10, <1>t, <1>d
     DEF RenameToReclaim, Goto, Capture, Readable, Tear, Dead
<1>11. ASSUME NEW e \in Callers, CheckMatches(e) PROVE Readable'
  BY <1>11, <1>t, <1>d, ContentsType
     DEF CheckMatches, Goto, Contents, Readable, Tear, Dead
<1>12. ASSUME NEW e \in Callers, CheckMismatch(e) PROVE Readable'
  BY <1>12, <1>t, <1>d, ContentsType
     DEF CheckMismatch, Goto, Contents, Readable, Tear, Dead
<1>13. ASSUME NEW e \in Callers, Install(e) PROVE Readable'
  BY <1>13, <1>t, <1>d, LockOfType
     DEF Install, Goto, OpenExclusive, Readable, Tear, Dead
<1>14. ASSUME NEW e \in Callers, InstallWrite(e) PROVE Readable'
  <2>1. CASE Tear
    BY <2>1, <1>14, <1>d DEF InstallWrite, Goto
  <2>2. CASE ~Tear
    BY <2>2, <1>14, <1>w DEF InstallWrite, Goto, Readable
  <2> QED
    BY <2>1, <2>2
<1>15. ASSUME NEW e \in Callers, UnlinkClaimHolding(e) PROVE Readable'
  BY <1>15, <1>t, <1>d
     DEF UnlinkClaimHolding, Goto, Readable, Tear, Dead
<1>16. ASSUME NEW e \in Callers, ReleaseNotOwned(e) PROVE Readable'
  BY <1>16, <1>t, <1>d, ContentsType
     DEF ReleaseNotOwned, Goto, Return, Contents, Readable, Tear, Dead
<1>17. ASSUME NEW e \in Callers, ReleaseOwned(e) PROVE Readable'
  BY <1>17, <1>t, <1>d, ContentsType
     DEF ReleaseOwned, Goto, Contents, Readable, Tear, Dead
<1>18. ASSUME NEW e \in Callers, RenameToRelease(e) PROVE Readable'
  BY <1>18, <1>t, <1>d
     DEF RenameToRelease, Goto, Capture, Readable, Tear, Dead
<1>19. ASSUME NEW e \in Callers, ReleaseDone(e) PROVE Readable'
  BY <1>19, <1>t, <1>d, ContentsType
     DEF ReleaseDone, Goto, Contents, Readable, Tear, Dead
<1>20. ASSUME NEW e \in Callers, ReleaseMismatch(e) PROVE Readable'
  BY <1>20, <1>t, <1>d, ContentsType
     DEF ReleaseMismatch, Goto, Contents, Readable, Tear, Dead
<1>21. ASSUME NEW e \in Callers, FinishShared(e) PROVE Readable'
  BY <1>21, <1>t, <1>d
     DEF FinishShared, Goto, Return, Readable, Tear, Dead
<1>22. ASSUME NEW e \in Callers, RenameFails(e) PROVE Readable'
  BY <1>22, <1>t, <1>d
     DEF RenameFails, Goto, Return, Readable, Tear, Dead
<1>23. ASSUME NEW e \in Callers, CheckPruned(e) PROVE Readable'
  BY <1>23, <1>t, <1>d
     DEF CheckPruned, Goto, Readable, Tear, Dead
<1>24. ASSUME NEW e \in Callers, SlotReoccupied(e) PROVE Readable'
  BY <1>24, <1>t, <1>d
     DEF SlotReoccupied, Goto, Readable, Tear, Dead
<1>25. ASSUME NEW e \in Callers, Restore(e) PROVE Readable'
  BY <1>25, <1>t, <1>d
     DEF Restore, Goto, OpenExclusive, Readable, Tear, Dead
<1>26. ASSUME NEW e \in Callers, RestoreWrite(e) PROVE Readable'
  <2>1. CASE Tear
    BY <2>1, <1>26, <1>d DEF RestoreWrite, Goto
  <2>2. CASE ~Tear
    BY <2>2, <1>26, <1>w DEF RestoreWrite, Goto, Readable
  <2> QED
    BY <2>1, <2>2
<1>27. ASSUME NEW e \in Callers, UnlinkClaim(e) PROVE Readable'
  BY <1>27, <1>t, <1>d
     DEF UnlinkClaim, Goto, Return, Readable, Tear, Dead
<1>28. ASSUME NEW e \in Callers, Crash(e) PROVE Readable'
  BY <1>28, <1>t, <1>d, AbandonedType
     DEF Crash, LeaveEmpty, Goto, Readable, Tear, Dead
<1>29. ASSUME NEW e \in Callers, WriteFails(e) PROVE Readable'
  BY <1>29 DEF WriteFails, Readable, Tear
<1> QED
  BY <1>1, <1>2, <1>3, <1>4, <1>5, <1>6, <1>7, <1>8, <1>9, <1>10, <1>11,
     <1>12, <1>13, <1>14, <1>15, <1>16, <1>17, <1>18, <1>19, <1>20, <1>21,
     <1>22, <1>23, <1>24, <1>25, <1>26, <1>27, <1>28, <1>29 DEF Next, Acquire,
     Release, Settle

\* The slot holds unparseable bytes for good only after a death between open
\* and write, a write that failed there, or a capture of a file between the two.
THEOREM BlankOnlyByTear == Spec => []BlankNeedsTear
<1>1. Init => Readable
  BY DEF Init, Readable
<1>2. Readable => BlankNeedsTear
  BY DEF Readable, Tear, BlankNeedsTear
<1> QED
  BY <1>1, <1>2, ReadableStep, TypeCorrect, PTL DEF Spec

=============================================================================
