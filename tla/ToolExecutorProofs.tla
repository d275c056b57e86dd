-------------------------- MODULE ToolExecutorProofs --------------------------
(***************************************************************************)
(* Proofs about executeTool(): ToolMutation for any calls of any sessions  *)
(* over any files, and ToolCache for any calls, threads and changes.       *)
(***************************************************************************)
EXTENDS ToolMutation, ToolCache, TLAPS

-----------------------------------------------------------------------------
(* The inductive invariant *)

\* What the stage of a call says of the rest of it.
Staged(c) ==
  /\ at[c] \in DOMAIN FilesOf[c] /\ tat[c] \in DOMAIN FilesOf[c]
  /\ pc[c] = "save" => c \in Saves
  /\ c \in Saves => pc[c] \in {"save", "done"}
  /\ pc[c] = "lock" => c \in Workers
  /\ pc[c] = "execute" => at[c] = 1
  /\ pc[c] \notin {"release", "done"} => status[c] = "none"
  /\ tool[c] \in {"snapshot", "write", "undo"} => pc[c] \notin {"save", "lock", "begin"}
  /\ tool[c] \in {"none", "ended"} => tat[c] = 1
  /\ acquired[c] \subseteq Files(c)
  /\ acquired[c] # {} => c \in Workers
  /\ pc[c] = "lock" => acquired[c] \subseteq {FilesOf[c][j] : j \in 1..(at[c] - 1)}

\* A lock a call has to give back is its session's, and no other call's to
\* give back.
Locked ==
  /\ \A c \in Calls : \A f \in acquired[c] : locks[f] = OwnerOf[c]
  /\ \A c \in Calls, d \in Calls : acquired[c] \cap acquired[d] # {} => c = d
  /\ LocksAreHeld

\* What isolation comes to for one file: all calls that have had to do with it
\* are workers of different sessions, whose tools are not late and which have
\* not thrown.
Users(f) == {d \in Calls : Started(d) /\ f \in Files(d)}

Clean(f) ==
  \A d \in Users(f) :
    /\ d \in Workers \ stray /\ status[d] # "threw"
    /\ \A e \in Users(f) : OwnerOf[d] = OwnerOf[e] => d = e

AllClean == \A f \in Paths : Clean(f)

\* Past the locking of a file.
Holds(c, i) ==
  \/ pc[c] \in {"begin", "execute", "commit", "compare", "restore"}
  \/ pc[c] = "lock" /\ i < at[c]

\* While a clean file is locked it holds what the stage of the call says.
Tracked(c, i) ==
  LET f == FilesOf[c][i] IN
    /\ Holds(c, i) => f \in acquired[c]
    /\ pc[c] = "execute" /\ tool[c] = "write" /\ i < tat[c] => disk[f] = c
    /\ pc[c] = "commit" /\ ~failed[c] => disk[f] = c
    /\ pc[c] = "commit" /\ i < at[c] => seen[c][f] = disk[f]
    /\ pc[c] = "compare" => seen[c][f] = disk[f]
    /\ pc[c] = "restore" /\ i < at[c] => disk[f] = pre[c][f]
    /\ pc[c] = "release" /\ f \in acquired[c] =>
         /\ status[c] = "committed" => disk[f] = c
         /\ status[c] = "rolled_back" => disk[f] = pre[c][f]

AllTracked ==
  \A c \in Workers : \A i \in DOMAIN FilesOf[c] : Clean(FilesOf[c][i]) => Tracked(c, i)

NoConflict ==
  \A c \in Workers :
    (\A f \in Files(c) : Clean(f)) => intact[c] /\ status[c] # "rollback_conflict"

\* A clean file holds the result of a committed call, but for the time a call
\* that has locked it is at work.
Settled(x) == x # Original => status[x] = "committed"
AtWork(c) == pc[c] \in {"execute", "commit", "compare", "restore"}

AllSettled ==
  AllClean =>
    /\ \A c \in Calls, f \in Paths : Settled(pre[c][f])
    /\ \A f \in Paths : Settled(disk[f]) \/ \E c \in Workers : f \in acquired[c] /\ AtWork(c)

IInv ==
  /\ TypeOK
  /\ \A c \in Calls : Staged(c)
  /\ Locked
  /\ AllTracked
  /\ NoConflict
  /\ AllSettled

\* The actions of a call, and what they are made of.
Step(c) == Save(c) \/ ExecutorStep(c) \/ Fault(c) \/ ToolStep(c)

-----------------------------------------------------------------------------
(* The files of a call, and the initial states *)

LEMMA FileFacts ==
  ASSUME NEW c \in Calls
  PROVE  /\ FilesOf[c] \in Seq(Paths) /\ Len(FilesOf[c]) \in Nat \ {0}
         /\ DOMAIN FilesOf[c] = 1..Len(FilesOf[c])
         /\ \A i \in DOMAIN FilesOf[c] : FilesOf[c][i] \in Files(c) /\ FilesOf[c][i] \in Paths
         /\ \A f \in Files(c) : f \in Paths /\ \E i \in DOMAIN FilesOf[c] : f = FilesOf[c][i]
         /\ \A i, j \in DOMAIN FilesOf[c] : FilesOf[c][i] = FilesOf[c][j] => i = j
         /\ OwnerOf[c] \in Owners /\ OwnerOf[c] # NoOwner
         /\ c \in Contents /\ Original \in Contents /\ c # Original
<1>1. FilesOf[c] \in Seq(Paths) /\ FilesOf[c] # <<>> /\ IsInjective(FilesOf[c])
  BY MutationAssumption
<1>2. /\ Len(FilesOf[c]) \in Nat \ {0} /\ DOMAIN FilesOf[c] = 1..Len(FilesOf[c])
      /\ \A i \in DOMAIN FilesOf[c] : FilesOf[c][i] \in Paths
  BY <1>1
<1>3. \A i, j \in DOMAIN FilesOf[c] : FilesOf[c][i] = FilesOf[c][j] => i = j
  BY <1>1, Zenon DEF IsInjective
<1>4. \A f : f \in Files(c) <=> \E i \in DOMAIN FilesOf[c] : f = FilesOf[c][i]
  BY DEF Files, Range
<1> QED
  BY <1>1, <1>2, <1>3, <1>4, MutationAssumption DEF Contents

LEMMA FirstStage ==
  ASSUME NEW c \in Calls
  PROVE  /\ c \in Saves => First(c) = "save"
         /\ c \in Workers => First(c) = "lock" /\ c \notin Saves
         /\ First(c) \in {"save", "lock", "begin"}
         /\ First(c) = "begin" => c \notin Workers /\ c \notin Saves
         /\ First(c) = "lock" => c \in Workers
         /\ First(c) = "save" => c \in Saves
BY MutationAssumption DEF First, Executions

LEMMA InvInit == Init => IInv
<1> SUFFICES ASSUME Init PROVE IInv
  OBVIOUS
<1> USE DEF Init
<1>1. TypeOK
  <2>1. Untouched \in [Paths -> Contents]
    BY DEF Untouched, Contents
  <2>2. pc \in [Calls -> Stages]
    BY FirstStage DEF Stages
  <2>3. faults \in 0..MaxFaults
    BY MutationAssumption
  <2> QED
    BY <2>1, <2>2, <2>3 DEF TypeOK
<1>2. ASSUME NEW c \in Calls PROVE Staged(c)
  BY FirstStage, FileFacts DEF Staged
<1>3. \A f \in Paths : locks[f] = NoOwner
  OBVIOUS
<1>4. \A c \in Calls : acquired[c] = {} /\ ~Started(c) /\ intact[c] /\ status[c] = "none"
  BY DEF Started
<1>5. Locked
  BY <1>3, <1>4, MutationAssumption DEF Locked, LocksAreHeld, Executions
<1>6. AllTracked
  <2> SUFFICES ASSUME NEW c \in Workers, NEW i \in DOMAIN FilesOf[c] PROVE Tracked(c, i)
    BY DEF AllTracked
  <2>1. c \in Calls /\ pc[c] = "lock" /\ at[c] = 1
    BY FirstStage, MutationAssumption DEF Executions
  <2>2. i \in Nat /\ ~(i < 1)
    BY <2>1, FileFacts
  <2> QED
    BY <2>1, <2>2 DEF Tracked, Holds
<1>7. NoConflict
  BY <1>4, MutationAssumption DEF NoConflict, Executions
<1>8. AllSettled
  BY DEF AllSettled, Settled, Untouched
<1> QED
  BY <1>1, <1>2, <1>5, <1>6, <1>7, <1>8 DEF IInv

-----------------------------------------------------------------------------
(* Types, and what a step leaves alone *)

\* A call moves on through its files and stages, if it does.
LEMMA AdvanceForm ==
  ASSUME NEW c, NEW next, Advance(c, next)
  PROVE  \/ Last(c) /\ at' = [at EXCEPT ![c] = 1] /\ pc' = [pc EXCEPT ![c] = next]
         \/ ~Last(c) /\ at' = [at EXCEPT ![c] = at[c] + 1] /\ pc' = pc
BY DEF Advance, Goto

LEMMA ReturnForm ==
  ASSUME NEW c, NEW error, Return(c, error)
  PROVE  \/ /\ pc[c] = "execute" /\ pc' = [pc EXCEPT ![c] = "commit"]
            /\ failed' = [failed EXCEPT ![c] = error]
         \/ pc[c] # "execute" /\ pc' = pc /\ failed' = failed
BY DEF Return, Goto

LEMMA PutForm ==
  ASSUME NEW c, NEW x, Put(c, x)
  PROVE  /\ disk' = [disk EXCEPT ![ToolFile(c)] = x]
         /\ stray \subseteq stray' /\ stray' \subseteq stray \cup {c}
         /\ pc[c] # "execute" => c \in stray'
BY DEF Put

LEMMA AdvanceTypes ==
  ASSUME TypeOK, NEW c \in Calls, NEW next \in Stages, Advance(c, next)
  PROVE  at' \in [Calls -> Nat \ {0}] /\ pc' \in [Calls -> Stages]
<1>1. at \in [Calls -> Nat \ {0}] /\ pc \in [Calls -> Stages]
  BY DEF TypeOK
<1>2. at[c] + 1 \in Nat \ {0} /\ 1 \in Nat \ {0}
  BY <1>1
<1> QED
  BY <1>1, <1>2, AdvanceForm

Tools == {"none", "snapshot", "write", "undo", "ended"}

LEMMA EndToolTypes ==
  ASSUME TypeOK, NEW c \in Calls, EndTool(c, "ended")
  PROVE  /\ tool' \in [Calls -> Tools] /\ tat' \in [Calls -> Nat \ {0}]
         /\ snap' \in [Calls -> [Paths -> Contents]]
<1>1. Untouched \in [Paths -> Contents] /\ "ended" \in Tools
  BY DEF Untouched, Contents, Tools
<1> QED
  BY <1>1 DEF EndTool, TypeOK, Tools

\* A flag of a call is set.
LEMMA FlagSet ==
  ASSUME NEW g \in [Calls -> BOOLEAN], NEW c \in Calls, NEW b \in BOOLEAN
  PROVE  [g EXCEPT ![c] = b] \in [Calls -> BOOLEAN]
BY Zenon

LEMMA TypeStep ==
  ASSUME IInv, NEW c \in Calls, Step(c)
  PROVE  TypeOK'
<1>t. TypeOK
  BY DEF IInv
<1>f. /\ File(c) \in Paths /\ ToolFile(c) \in Paths /\ disk[File(c)] \in Contents
      /\ disk[ToolFile(c)] \in Contents /\ pre[c][File(c)] \in Contents
      /\ snap[c][ToolFile(c)] \in Contents
  <2>1. at[c] \in DOMAIN FilesOf[c] /\ tat[c] \in DOMAIN FilesOf[c]
    BY DEF IInv, Staged
  <2>2. File(c) \in Paths /\ ToolFile(c) \in Paths
    BY <2>1, FileFacts DEF File, ToolFile
  <2> QED
    BY <1>t, <2>2 DEF TypeOK
<1>u. Untouched \in [Paths -> Contents]
  BY DEF Untouched, Contents
<1>o. OwnerOf[c] \in Owners /\ c \in Contents
  BY FileFacts
<1>n. faults < MaxFaults => faults + 1 \in 0..MaxFaults
  BY <1>t, MutationAssumption DEF TypeOK
<1>m. tat[c] + 1 \in Nat \ {0} /\ Len(FilesOf[c]) \in Nat \ {0} /\ (tat[c] > 1 => tat[c] - 1 \in Nat \ {0})
  BY <1>t, FileFacts DEF TypeOK
<1>s. {"begin", "execute", "compare", "release", "restore", "commit", "done"} \subseteq Stages
  BY DEF Stages
<1>1. CASE LockAcquired(c)
  <2>1. Advance(c, "begin")
    BY <1>1 DEF LockAcquired
  <2> QED
    BY <1>t, <1>f, <1>o, <1>s, <2>1, <1>1, AdvanceTypes DEF LockAcquired, TypeOK, toolVars
<1>2. CASE LockOwned(c)
  <2>1. Advance(c, "begin")
    BY <1>2 DEF LockOwned
  <2> QED
    BY <1>t, <1>s, <2>1, <1>2, AdvanceTypes DEF LockOwned, TypeOK, toolVars
<1>3. CASE LockRefused(c)
  BY <1>t, <1>s, <1>3 DEF LockRefused, Conclude, Goto, TypeOK, toolVars
<1>4. CASE Release(c)
  <2>1. acquired' \in [Calls -> SUBSET Paths] /\ locks' \in [Paths -> Owners \cup {NoOwner}]
    BY <1>t, <1>4 DEF Release, TypeOK
  <2>2. Finish(c) \/ UNCHANGED <<pc, pre, seen, intact, failed>>
    BY <1>4 DEF Release
  <2>3. /\ pc' \in [Calls -> Stages] /\ pre' \in [Calls -> [Paths -> Contents]]
        /\ seen' \in [Calls -> [Paths -> Contents]] /\ intact' \in [Calls -> BOOLEAN]
        /\ failed' \in [Calls -> BOOLEAN]
    <3>1. CASE Finish(c)
      <4>1. intact' = [intact EXCEPT ![c] = TRUE] /\ failed' = [failed EXCEPT ![c] = FALSE]
        BY <3>1 DEF Finish
      <4>2. intact' \in [Calls -> BOOLEAN] /\ failed' \in [Calls -> BOOLEAN]
        BY <1>t, <4>1, FlagSet DEF TypeOK
      <4>3. /\ pc' \in [Calls -> Stages] /\ pre' \in [Calls -> [Paths -> Contents]]
            /\ seen' \in [Calls -> [Paths -> Contents]]
        BY <1>t, <1>u, <1>s, <3>1 DEF Finish, Goto, TypeOK
      <4> QED
        BY <4>2, <4>3
    <3>2. CASE UNCHANGED <<pc, pre, seen, intact, failed>>
      BY <1>t, <3>2 DEF TypeOK
    <3> QED
      BY <2>2, <3>1, <3>2
  <2> QED
    BY <1>t, <1>4, <2>1, <2>3 DEF Release, TypeOK, toolVars
<1>5. CASE ReleaseNothing(c)
  BY <1>t, <1>u, <1>s, <1>5 DEF ReleaseNothing, Finish, Goto, TypeOK, toolVars
<1>6. CASE Begin(c)
  <2>1. Advance(c, "execute")
    BY <1>6 DEF Begin
  <2>2. pre' \in [Calls -> [Paths -> Contents]]
    BY <1>t, <1>f, <1>6 DEF Begin, TypeOK
  <2>3. tool' \in [Calls -> {"none", "snapshot", "write", "undo", "ended"}]
    BY <1>t, <1>6 DEF Begin, TypeOK
  <2> QED
    BY <1>t, <1>s, <2>1, <2>2, <2>3, <1>6, AdvanceTypes DEF Begin, TypeOK
<1>7. CASE Timeout(c)
  <2>1. faults' \in 0..MaxFaults
    BY <1>t, <1>n, <1>7 DEF Timeout, TypeOK
  <2>2. /\ tool' \in [Calls -> Tools]
        /\ tat' \in [Calls -> Nat \ {0}] /\ snap' \in [Calls -> [Paths -> Contents]]
    <3>1. EndTool(c, "ended") \/ UNCHANGED <<tool, tat, snap>>
      BY <1>7 DEF Timeout
    <3> QED
      BY <1>t, <3>1, EndToolTypes DEF TypeOK, Tools
  <2> QED
    <3>1. failed' \in [Calls -> BOOLEAN]
      BY <1>t, <1>7, FlagSet DEF Timeout, TypeOK
    <3> QED
      BY <1>t, <1>s, <2>1, <2>2, <3>1, <1>7 DEF Timeout, Goto, TypeOK, Tools
<1>8. CASE Commit(c)
  <2>1. Advance(c, IF failed[c] THEN "compare" ELSE "release")
    BY <1>8 DEF Commit
  <2>2. at' \in [Calls -> Nat \ {0}] /\ pc' \in [Calls -> Stages]
    BY <1>t, <1>s, <2>1, AdvanceTypes
  <2>3. seen' \in [Calls -> [Paths -> Contents]]
    BY <1>t, <1>f, <1>8 DEF Commit, TypeOK
  <2> QED
    BY <1>t, <2>2, <2>3, <1>8 DEF Commit, Conclude, TypeOK, toolVars
<1>9. CASE Compare(c)
  <2> DEFINE same == intact[c] /\ disk[File(c)] = seen[c][File(c)]
  <2>1. Advance(c, IF same THEN "restore" ELSE "release")
    BY <1>9 DEF Compare
  <2>2. at' \in [Calls -> Nat \ {0}] /\ pc' \in [Calls -> Stages]
    BY <1>t, <1>s, <2>1, AdvanceTypes
  <2>3. intact' \in [Calls -> BOOLEAN]
    BY <1>t, <1>9 DEF Compare, TypeOK
  <2> QED
    BY <1>t, <2>2, <2>3, <1>9 DEF Compare, Conclude, TypeOK, toolVars
<1>10. CASE Restore(c)
  <2>1. Advance(c, "release")
    BY <1>10 DEF Restore
  <2> QED
    BY <1>t, <1>f, <1>s, <2>1, <1>10, AdvanceTypes DEF Restore, Conclude, TypeOK, toolVars
<1>11. CASE Fault(c)
  BY <1>t, <1>s, <1>n, <1>11 DEF Fault, Conclude, Goto, TypeOK, toolVars
<1>12. CASE Save(c)
  BY <1>t, <1>f, <1>o, <1>s, <1>12 DEF Save, Goto, TypeOK, toolVars
<1>13. CASE ToolSnapshot(c)
  <2>1. snap' \in [Calls -> [Paths -> Contents]]
    BY <1>t, <1>f, <1>13 DEF ToolSnapshot, TypeOK
  <2>2. /\ tool' \in [Calls -> {"none", "snapshot", "write", "undo", "ended"}]
        /\ tat' \in [Calls -> Nat \ {0}]
    <3>1. \/ tat' = [tat EXCEPT ![c] = @ + 1] /\ tool' = tool
          \/ tat' = [tat EXCEPT ![c] = 1] /\ tool' = [tool EXCEPT ![c] = "write"]
      BY <1>13 DEF ToolSnapshot
    <3>2. tool' \in [Calls -> {"none", "snapshot", "write", "undo", "ended"}]
      BY <1>t, <3>1 DEF TypeOK
    <3>3. tat' = [tat EXCEPT ![c] = tat[c] + 1] \/ tat' = [tat EXCEPT ![c] = 1]
      BY <3>1
    <3>4. tat' \in [Calls -> Nat \ {0}]
      <4>1. tat \in [Calls -> Nat \ {0}]
        BY <1>t DEF TypeOK
      <4> QED
        BY <1>m, <3>3, <4>1
    <3> QED
      BY <3>2, <3>4
  <2> QED
    BY <1>t, <2>1, <2>2, <1>13 DEF ToolSnapshot, TypeOK, exec
<1>14. CASE ToolWrite(c) \/ ToolFail(c) \/ ToolUndo(c)
  <2>1. /\ disk' = disk \/ \E x \in Contents : disk' = [disk EXCEPT ![ToolFile(c)] = x]
        /\ stray' \subseteq stray \cup {c}
    <3>1. (Put(c, c) \/ Put(c, snap[c][ToolFile(c)])) \/ UNCHANGED <<disk, stray>>
      BY <1>14 DEF ToolWrite, ToolFail, ToolUndo
    <3> QED
      BY <1>f, <1>o, <3>1, PutForm
  <2>2. /\ tool' \in [Calls -> Tools]
        /\ tat' \in [Calls -> Nat \ {0}] /\ snap' \in [Calls -> [Paths -> Contents]]
    <3>1. \/ EndTool(c, "ended")
          \/ /\ snap' = snap
             /\ tool' = tool \/ tool' = [tool EXCEPT ![c] = "undo"]
             /\ \/ tat' = [tat EXCEPT ![c] = @ + 1]
                \/ tat' = [tat EXCEPT ![c] = Len(FilesOf[c])]
                \/ tat[c] > 1 /\ tat' = [tat EXCEPT ![c] = @ - 1]
      BY <1>14 DEF ToolWrite, ToolFail, ToolUndo
    <3>2. CASE EndTool(c, "ended")
      BY <1>t, <3>2, EndToolTypes
    <3>3. CASE ~EndTool(c, "ended")
      BY <1>t, <1>m, <3>1, <3>3 DEF TypeOK, Tools
    <3> QED
      BY <3>2, <3>3
  <2>3. UNCHANGED <<pc, failed>> \/ Return(c, TRUE) \/ Return(c, FALSE)
    BY <1>14 DEF ToolWrite, ToolFail, ToolUndo
  <2>4. pc' \in [Calls -> Stages] /\ failed' \in [Calls -> BOOLEAN]
    <3>1. CASE UNCHANGED <<pc, failed>>
      BY <1>t, <3>1 DEF TypeOK
    <3>2. ASSUME NEW b \in BOOLEAN, Return(c, b)
          PROVE  pc' \in [Calls -> Stages] /\ failed' \in [Calls -> BOOLEAN]
      <4>1. \/ pc' = [pc EXCEPT ![c] = "commit"] /\ failed' = [failed EXCEPT ![c] = b]
            \/ pc' = pc /\ failed' = failed
        BY <3>2, ReturnForm
      <4>2. failed' \in [Calls -> BOOLEAN]
        BY <1>t, <4>1, FlagSet DEF TypeOK
      <4>3. pc' = [pc EXCEPT ![c] = "commit"] \/ pc' = pc
        BY <4>1
      <4>4. pc' \in [Calls -> Stages]
        BY <1>t, <1>s, <4>3 DEF TypeOK
      <4> QED
        BY <4>2, <4>4
    <3> QED
      BY <2>3, <3>1, <3>2
  <2>5. UNCHANGED <<locks, at, acquired, pre, seen, intact, status, faults>>
    BY <1>14 DEF ToolWrite, ToolFail, ToolUndo
  <2>6. disk' \in [Paths -> Contents] /\ stray' \subseteq Calls
    BY <1>t, <2>1 DEF TypeOK
  <2> QED
    BY <1>t, <2>2, <2>4, <2>5, <2>6 DEF TypeOK, Tools
<1> QED
  BY <1>1, <1>2, <1>3, <1>4, <1>5, <1>6, <1>7, <1>8, <1>9, <1>10, <1>11, <1>12, <1>13, <1>14
     DEF Step, ExecutorStep, ToolStep, Lock

\* What a call keeps of its own.
Same(d) ==
  /\ pc'[d] = pc[d] /\ at'[d] = at[d] /\ acquired'[d] = acquired[d] /\ pre'[d] = pre[d]
  /\ seen'[d] = seen[d] /\ intact'[d] = intact[d] /\ failed'[d] = failed[d]
  /\ status'[d] = status[d] /\ tool'[d] = tool[d] /\ tat'[d] = tat[d]

LEMMA Domains ==
  ASSUME TypeOK
  PROVE  /\ DOMAIN disk = Paths /\ DOMAIN locks = Paths
         /\ DOMAIN pc = Calls /\ DOMAIN at = Calls /\ DOMAIN acquired = Calls
         /\ DOMAIN pre = Calls /\ DOMAIN seen = Calls /\ DOMAIN intact = Calls
         /\ DOMAIN failed = Calls /\ DOMAIN status = Calls /\ DOMAIN tool = Calls
         /\ DOMAIN tat = Calls /\ DOMAIN snap = Calls
         /\ \A c \in Calls : DOMAIN pre[c] = Paths /\ DOMAIN seen[c] = Paths
BY DEF TypeOK

\* A step of one call leaves the others alone.
LEMMA OthersStay ==
  ASSUME TypeOK, NEW c \in Calls, Step(c), NEW d \in Calls, d # c
  PROVE  Same(d)
<1> USE Domains
<1>a. ASSUME NEW next, Advance(c, next) PROVE pc'[d] = pc[d] /\ at'[d] = at[d]
  BY <1>a, AdvanceForm
<1>e. ASSUME EndTool(c, "ended") PROVE tool'[d] = tool[d] /\ tat'[d] = tat[d]
  BY <1>e DEF EndTool
<1>r. ASSUME NEW b, Return(c, b) PROVE pc'[d] = pc[d] /\ failed'[d] = failed[d]
  BY <1>r, ReturnForm
<1>g. ASSUME Finish(c)
      PROVE  /\ pc'[d] = pc[d] /\ pre'[d] = pre[d] /\ seen'[d] = seen[d]
             /\ intact'[d] = intact[d] /\ failed'[d] = failed[d]
  BY <1>g DEF Finish, Goto
<1>1. CASE LockAcquired(c)
  BY <1>1, <1>a, <1>e, <1>g DEF Same, LockAcquired, Conclude, Goto, exec, toolVars
<1>2. CASE LockOwned(c)
  BY <1>2, <1>a, <1>e, <1>g DEF Same, LockOwned, Conclude, Goto, exec, toolVars
<1>3. CASE LockRefused(c)
  BY <1>3, <1>a, <1>e, <1>g DEF Same, LockRefused, Conclude, Goto, exec, toolVars
<1>4. CASE Release(c)
  BY <1>4, <1>a, <1>e, <1>g DEF Same, Release, Conclude, Goto, exec, toolVars
<1>5. CASE ReleaseNothing(c)
  BY <1>5, <1>a, <1>e, <1>g DEF Same, ReleaseNothing, Conclude, Goto, exec, toolVars
<1>6. CASE Begin(c)
  BY <1>6, <1>a, <1>e, <1>g DEF Same, Begin, Conclude, Goto, exec, toolVars
<1>7. CASE Timeout(c)
  BY <1>7, <1>a, <1>e, <1>g DEF Same, Timeout, Conclude, Goto, exec, toolVars
<1>8. CASE Commit(c)
  BY <1>8, <1>a, <1>e, <1>g DEF Same, Commit, Conclude, Goto, exec, toolVars
<1>9. CASE Compare(c)
  BY <1>9, <1>a, <1>e, <1>g DEF Same, Compare, Conclude, Goto, exec, toolVars
<1>10. CASE Restore(c)
  BY <1>10, <1>a, <1>e, <1>g DEF Same, Restore, Conclude, Goto, exec, toolVars
<1>11. CASE Fault(c)
  BY <1>11, <1>a, <1>e, <1>g DEF Same, Fault, Conclude, Goto, exec, toolVars
<1>12. CASE Save(c)
  BY <1>12, <1>a, <1>e, <1>g DEF Same, Save, Conclude, Goto, exec, toolVars
<1>13. CASE ToolSnapshot(c)
  BY <1>13, <1>a, <1>e, <1>g DEF Same, ToolSnapshot, Conclude, Goto, exec, toolVars
<1>14. CASE ToolWrite(c) \/ ToolFail(c) \/ ToolUndo(c)
  <2>1. UNCHANGED <<pc, failed>> \/ Return(c, TRUE) \/ Return(c, FALSE)
    BY <1>14 DEF ToolWrite, ToolFail, ToolUndo
  <2>2. pc'[d] = pc[d] /\ failed'[d] = failed[d]
    BY <1>r, <2>1
  <2>3. UNCHANGED <<locks, at, acquired, pre, seen, intact, status, faults>>
    BY <1>14 DEF ToolWrite, ToolFail, ToolUndo
  <2>4. tool'[d] = tool[d] /\ tat'[d] = tat[d]
    BY <1>14, <1>e DEF ToolWrite, ToolFail, ToolUndo
  <2> QED
    BY <2>2, <2>3, <2>4 DEF Same
<1> QED
  BY <1>1, <1>2, <1>3, <1>4, <1>5, <1>6, <1>7, <1>8, <1>9, <1>10, <1>11, <1>12, <1>13, <1>14
     DEF Step, ExecutorStep, ToolStep, Lock

-----------------------------------------------------------------------------
(* Stages *)

\* Where a call is once it has moved on.
LEMMA AdvancePoint ==
  ASSUME IInv, NEW c \in Calls, NEW next, Advance(c, next)
  PROVE  /\ at'[c] \in DOMAIN FilesOf[c]
         /\ \/ Last(c) /\ at[c] = Len(FilesOf[c]) /\ at'[c] = 1 /\ pc'[c] = next
            \/ ~Last(c) /\ at[c] < Len(FilesOf[c]) /\ at'[c] = at[c] + 1 /\ pc'[c] = pc[c]
<1>1. TypeOK /\ at[c] \in DOMAIN FilesOf[c]
  BY DEF IInv, Staged
<1>2. at[c] \in 1..Len(FilesOf[c]) /\ Len(FilesOf[c]) \in Nat \ {0} /\ DOMAIN FilesOf[c] = 1..Len(FilesOf[c])
  BY <1>1, FileFacts
<1>3. c \in DOMAIN at /\ c \in DOMAIN pc
  BY <1>1, Domains
<1>4. CASE Last(c)
  <2>1. at' = [at EXCEPT ![c] = 1] /\ pc' = [pc EXCEPT ![c] = next]
    BY <1>4, AdvanceForm
  <2> QED
    BY <1>2, <1>3, <1>4, <2>1 DEF Last
<1>5. CASE ~Last(c)
  <2>1. at' = [at EXCEPT ![c] = at[c] + 1] /\ pc' = pc
    BY <1>5, AdvanceForm
  <2> QED
    BY <1>2, <1>3, <1>5, <2>1 DEF Last
<1> QED
  BY <1>4, <1>5

\* What a tool leaves of its call.
LEMMA ToolPoint ==
  ASSUME IInv, NEW c \in Calls, ToolStep(c)
  PROVE  /\ tool[c] \in {"snapshot", "write", "undo"}
         /\ tat'[c] \in DOMAIN FilesOf[c]
         /\ tool'[c] \in {"snapshot", "write", "undo"} \/ (tool'[c] = "ended" /\ tat'[c] = 1)
         /\ UNCHANGED <<locks, at, acquired, pre, seen, intact, status, faults>>
         /\ \/ pc'[c] = pc[c] /\ failed'[c] = failed[c]
            \/ pc[c] = "execute" /\ pc'[c] = "commit" /\ failed'[c] \in BOOLEAN
<1>d. TypeOK /\ tat[c] \in DOMAIN FilesOf[c]
  BY DEF IInv, Staged
<1>n. /\ tat[c] \in 1..Len(FilesOf[c]) /\ Len(FilesOf[c]) \in Nat \ {0}
      /\ DOMAIN FilesOf[c] = 1..Len(FilesOf[c])
  BY <1>d, FileFacts
<1> USE <1>d, Domains
<1>e. ASSUME EndTool(c, "ended") PROVE tool'[c] = "ended" /\ tat'[c] = 1
  BY <1>e DEF EndTool
<1>r. ASSUME NEW b \in BOOLEAN, Return(c, b)
      PROVE  \/ pc'[c] = pc[c] /\ failed'[c] = failed[c]
             \/ pc[c] = "execute" /\ pc'[c] = "commit" /\ failed'[c] \in BOOLEAN
  BY <1>r, ReturnForm
<1>1. CASE ToolSnapshot(c)
  <2>1. /\ tool[c] = "snapshot"
        /\ \/ tat[c] < Len(FilesOf[c]) /\ tat' = [tat EXCEPT ![c] = @ + 1] /\ tool' = tool
           \/ tat' = [tat EXCEPT ![c] = 1] /\ tool' = [tool EXCEPT ![c] = "write"]
        /\ UNCHANGED exec
    BY <1>1 DEF ToolSnapshot
  <2>2. tat'[c] \in DOMAIN FilesOf[c] /\ tool'[c] \in {"snapshot", "write"}
    BY <1>n, <2>1
  <2> QED
    BY <2>1, <2>2 DEF exec
<1>2. CASE ToolWrite(c)
  <2>1. /\ tool[c] = "write"
        /\ \/ /\ tat[c] < Len(FilesOf[c]) /\ tat' = [tat EXCEPT ![c] = @ + 1]
              /\ UNCHANGED <<tool, pc, failed>>
           \/ EndTool(c, "ended") /\ Return(c, FALSE)
        /\ UNCHANGED <<locks, at, acquired, pre, seen, intact, status, faults>>
    BY <1>2 DEF ToolWrite
  <2> QED
    <3>1. CASE EndTool(c, "ended")
      <4>1. tool'[c] = "ended" /\ tat'[c] = 1
        BY <3>1, <1>e
      <4>2. \/ pc'[c] = pc[c] /\ failed'[c] = failed[c]
            \/ pc[c] = "execute" /\ pc'[c] = "commit" /\ failed'[c] \in BOOLEAN
        BY <2>1, <1>r
      <4> QED
        BY <1>n, <2>1, <4>1, <4>2
    <3>2. CASE ~EndTool(c, "ended")
      <4>1. /\ tat[c] < Len(FilesOf[c]) /\ tat' = [tat EXCEPT ![c] = @ + 1]
            /\ UNCHANGED <<tool, pc, failed>> /\ tool[c] = "write"
        BY <2>1, <3>2, Zenon
      <4>2. tat'[c] \in DOMAIN FilesOf[c] /\ tool'[c] \in {"write", "undo"}
        BY <1>n, <4>1
      <4> QED
        BY <2>1, <4>1, <4>2
    <3> QED
      BY <3>1, <3>2
<1>3. CASE ToolFail(c)
  <2>1. /\ tool[c] = "write"
        /\ \/ /\ tat' = [tat EXCEPT ![c] = Len(FilesOf[c])] /\ tool' = [tool EXCEPT ![c] = "undo"]
              /\ UNCHANGED <<pc, failed>>
           \/ EndTool(c, "ended") /\ Return(c, TRUE)
        /\ UNCHANGED <<locks, at, acquired, pre, seen, intact, status, faults>>
    BY <1>3 DEF ToolFail
  <2> QED
    <3>1. CASE EndTool(c, "ended")
      <4>1. tool'[c] = "ended" /\ tat'[c] = 1
        BY <3>1, <1>e
      <4>2. \/ pc'[c] = pc[c] /\ failed'[c] = failed[c]
            \/ pc[c] = "execute" /\ pc'[c] = "commit" /\ failed'[c] \in BOOLEAN
        BY <2>1, <1>r
      <4> QED
        BY <1>n, <2>1, <4>1, <4>2
    <3>2. CASE ~EndTool(c, "ended")
      <4>1. /\ tat' = [tat EXCEPT ![c] = Len(FilesOf[c])] /\ tool' = [tool EXCEPT ![c] = "undo"]
            /\ UNCHANGED <<pc, failed>>
        BY <2>1, <3>2, Zenon
      <4>2. tat'[c] \in DOMAIN FilesOf[c] /\ tool'[c] \in {"write", "undo"}
        BY <1>n, <4>1
      <4> QED
        BY <2>1, <4>1, <4>2
    <3> QED
      BY <3>1, <3>2
<1>4. CASE ToolUndo(c)
  <2>1. /\ tool[c] = "undo"
        /\ \/ /\ tat[c] > 1 /\ tat' = [tat EXCEPT ![c] = @ - 1]
              /\ UNCHANGED <<tool, pc, failed>>
           \/ EndTool(c, "ended") /\ Return(c, TRUE)
        /\ UNCHANGED <<locks, at, acquired, pre, seen, intact, status, faults>>
    BY <1>4 DEF ToolUndo
  <2> QED
    <3>1. CASE EndTool(c, "ended")
      <4>1. tool'[c] = "ended" /\ tat'[c] = 1
        BY <3>1, <1>e
      <4>2. \/ pc'[c] = pc[c] /\ failed'[c] = failed[c]
            \/ pc[c] = "execute" /\ pc'[c] = "commit" /\ failed'[c] \in BOOLEAN
        BY <2>1, <1>r
      <4> QED
        BY <1>n, <2>1, <4>1, <4>2
    <3>2. CASE ~EndTool(c, "ended")
      <4>1. /\ tat[c] > 1 /\ tat' = [tat EXCEPT ![c] = @ - 1]
            /\ UNCHANGED <<tool, pc, failed>> /\ tool[c] = "undo"
        BY <2>1, <3>2, Zenon
      <4>2. tat'[c] \in DOMAIN FilesOf[c] /\ tool'[c] \in {"write", "undo"}
        BY <1>n, <4>1
      <4> QED
        BY <2>1, <4>1, <4>2
    <3> QED
      BY <3>1, <3>2
<1> QED
  BY <1>1, <1>2, <1>3, <1>4 DEF ToolStep

LEMMA StageStep ==
  ASSUME IInv, NEW c \in Calls, Step(c)
  PROVE  Staged(c)'
<1>t. TypeOK /\ Staged(c)
  BY DEF IInv
<1> USE <1>t, Domains
<1>f. /\ at[c] \in 1..Len(FilesOf[c]) /\ Len(FilesOf[c]) \in Nat \ {0}
      /\ DOMAIN FilesOf[c] = 1..Len(FilesOf[c]) /\ File(c) \in Files(c) /\ File(c) \in Paths
  BY FileFacts DEF Staged, File
<1>s. c \in Workers => c \notin Saves
  BY FirstStage
<1>1. CASE LockAcquired(c)
  <2>1. /\ pc[c] = "lock" /\ Advance(c, "begin")
        /\ acquired'[c] = acquired[c] \cup {File(c)}
        /\ UNCHANGED <<status, tool, tat>>
    BY <1>1 DEF LockAcquired, toolVars
  <2>2. /\ at'[c] \in DOMAIN FilesOf[c]
        /\ pc'[c] = "begin" \/ (pc'[c] = "lock" /\ at'[c] = at[c] + 1)
    BY <2>1, AdvancePoint
  <2>3. pc'[c] = "lock" => acquired'[c] \subseteq {FilesOf[c][j] : j \in 1..(at'[c] - 1)}
    <3> SUFFICES ASSUME pc'[c] = "lock", NEW f \in acquired'[c]
                 PROVE  \E j \in 1..(at'[c] - 1) : f = FilesOf[c][j]
      OBVIOUS
    <3>1. at'[c] = at[c] + 1
      BY <2>2
    <3>2. CASE f = File(c)
      BY <1>f, <3>1, <3>2 DEF File
    <3>3. CASE f \in acquired[c]
      <4>1. PICK j \in 1..(at[c] - 1) : f = FilesOf[c][j]
        BY <2>1, <3>3 DEF Staged
      <4> QED
        BY <1>f, <3>1, <4>1
    <3> QED
      BY <2>1, <3>2, <3>3
  <2> QED
    BY <1>f, <1>s, <2>1, <2>2, <2>3 DEF Staged
<1>2. CASE LockOwned(c)
  <2>1. /\ pc[c] = "lock" /\ Advance(c, "begin") /\ UNCHANGED <<acquired, status, tool, tat>>
    BY <1>2 DEF LockOwned, toolVars
  <2>2. /\ at'[c] \in DOMAIN FilesOf[c]
        /\ pc'[c] = "begin" \/ (pc'[c] = "lock" /\ at'[c] = at[c] + 1)
    BY <2>1, AdvancePoint
  <2>3. pc'[c] = "lock" => acquired'[c] \subseteq {FilesOf[c][j] : j \in 1..(at'[c] - 1)}
    <3> SUFFICES ASSUME pc'[c] = "lock", NEW f \in acquired[c]
                 PROVE  \E j \in 1..(at'[c] - 1) : f = FilesOf[c][j]
      BY <2>1
    <3>1. at'[c] = at[c] + 1
      BY <2>2
    <3>2. PICK j \in 1..(at[c] - 1) : f = FilesOf[c][j]
      BY <2>1 DEF Staged
    <3> QED
      BY <1>f, <3>1, <3>2
  <2> QED
    BY <1>f, <1>s, <2>1, <2>2, <2>3 DEF Staged
<1>3. CASE LockRefused(c)
  <2>1. /\ pc[c] = "lock" /\ pc'[c] = "release"
        /\ UNCHANGED <<at, acquired, tool, tat>>
    BY <1>3 DEF LockRefused, Goto, toolVars
  <2> QED
    BY <1>s, <2>1 DEF Staged
<1>4. CASE Release(c) \/ ReleaseNothing(c)
  <2>1. /\ pc[c] = "release" /\ pc'[c] \in {"release", "done"}
        /\ acquired'[c] \subseteq acquired[c]
        /\ UNCHANGED <<at, status, tool, tat>>
    BY <1>4 DEF Release, ReleaseNothing, Finish, Goto, toolVars
  <2> QED
    BY <2>1 DEF Staged
<1>5. CASE Begin(c)
  <2>1. /\ pc[c] = "begin" /\ Advance(c, "execute")
        /\ UNCHANGED <<acquired, status, tat>>
        /\ ~Last(c) => tool' = tool
    BY <1>5 DEF Begin
  <2>2. /\ at'[c] \in DOMAIN FilesOf[c]
        /\ \/ Last(c) /\ pc'[c] = "execute" /\ at'[c] = 1
           \/ ~Last(c) /\ pc'[c] = "begin"
    BY <2>1, AdvancePoint
  <2>3. /\ tool[c] \in {"none", "ended"} /\ tat[c] = 1
    <3>1. tool[c] \in {"none", "snapshot", "write", "undo", "ended"}
      BY DEF TypeOK
    <3> QED
      BY <2>1, <3>1 DEF Staged
  <2> QED
    BY <2>1, <2>2, <2>3 DEF Staged
<1>6. CASE Timeout(c)
  <2>1. /\ pc[c] = "execute" /\ pc'[c] = "commit"
        /\ UNCHANGED <<at, acquired, status>>
        /\ EndTool(c, "ended") \/ UNCHANGED <<tool, tat>>
    BY <1>6 DEF Timeout, Goto
  <2>2. (tool'[c] = "ended" /\ tat'[c] = 1) \/ (tool'[c] = tool[c] /\ tat'[c] = tat[c])
    BY <2>1 DEF EndTool
  <2> QED
    BY <1>f, <2>1, <2>2 DEF Staged
<1>7. CASE Commit(c)
  <2>1. /\ pc[c] = "commit" /\ UNCHANGED <<acquired, tool, tat>>
        /\ Advance(c, IF failed[c] THEN "compare" ELSE "release")
        /\ (Last(c) /\ ~failed[c]) \/ status' = status
    BY <1>7 DEF Commit, toolVars
  <2>2. /\ at'[c] \in DOMAIN FilesOf[c]
        /\ \/ Last(c) /\ pc'[c] = IF failed[c] THEN "compare" ELSE "release"
           \/ ~Last(c) /\ pc'[c] = "commit"
    BY <2>1, AdvancePoint
  <2> QED
    BY <2>1, <2>2 DEF Staged
<1>8. CASE Compare(c)
  <2> DEFINE same == intact[c] /\ disk[File(c)] = seen[c][File(c)]
  <2>1. /\ pc[c] = "compare" /\ UNCHANGED <<acquired, tool, tat>>
        /\ Advance(c, IF same THEN "restore" ELSE "release")
        /\ (Last(c) /\ ~same) \/ status' = status
    BY <1>8 DEF Compare, toolVars
  <2>2. /\ at'[c] \in DOMAIN FilesOf[c]
        /\ \/ Last(c) /\ pc'[c] = IF same THEN "restore" ELSE "release"
           \/ ~Last(c) /\ pc'[c] = "compare"
    BY <2>1, AdvancePoint
  <2> QED
    BY <2>1, <2>2 DEF Staged
<1>9. CASE Restore(c)
  <2>1. /\ pc[c] = "restore" /\ UNCHANGED <<acquired, tool, tat>>
        /\ Advance(c, "release")
        /\ Last(c) \/ status' = status
    BY <1>9 DEF Restore, toolVars
  <2>2. /\ at'[c] \in DOMAIN FilesOf[c]
        /\ \/ Last(c) /\ pc'[c] = "release"
           \/ ~Last(c) /\ pc'[c] = "restore"
    BY <2>1, AdvancePoint
  <2> QED
    BY <2>1, <2>2 DEF Staged
<1>10. CASE Fault(c)
  <2>1. /\ pc[c] \in {"lock", "begin", "commit", "compare", "restore"} /\ pc'[c] = "release"
        /\ at'[c] = 1 /\ UNCHANGED <<acquired, tool, tat>>
    BY <1>10 DEF Fault, Goto, toolVars
  <2> QED
    BY <1>f, <2>1 DEF Staged
<1>11. CASE Save(c)
  <2>1. /\ pc[c] = "save" /\ pc'[c] = "done" /\ UNCHANGED <<at, acquired, status, tool, tat>>
    BY <1>11 DEF Save, Goto, toolVars
  <2> QED
    BY <1>f, <2>1 DEF Staged
<1>12. CASE ToolStep(c)
  <2>1. /\ tool[c] \in {"snapshot", "write", "undo"}
        /\ tat'[c] \in DOMAIN FilesOf[c]
        /\ tool'[c] \in {"snapshot", "write", "undo"} \/ (tool'[c] = "ended" /\ tat'[c] = 1)
        /\ UNCHANGED <<at, acquired, status>>
        /\ pc'[c] = pc[c] \/ (pc[c] = "execute" /\ pc'[c] = "commit")
    BY <1>12, ToolPoint
  <2> QED
    BY <2>1 DEF Staged
<1> QED
  BY <1>1, <1>2, <1>3, <1>4, <1>5, <1>6, <1>7, <1>8, <1>9, <1>10, <1>11, <1>12
     DEF Step, ExecutorStep, Lock

-----------------------------------------------------------------------------
(* What a call has done stays done *)

\* A call that takes a step has started, and does not begin again.
LEMMA Moves ==
  ASSUME IInv, NEW c \in Calls, Step(c)
  PROVE  Started(c)' /\ (Started(c) => Started(c)')
<1>t. TypeOK /\ Staged(c)
  BY DEF IInv
<1> USE <1>t, Domains
<1>f. at[c] \in Nat \ {0} /\ Len(FilesOf[c]) \in Nat \ {0}
  BY FileFacts DEF TypeOK
<1>s. /\ First(c) \in {"save", "lock", "begin"}
      /\ c \in Workers => First(c) = "lock"
  BY FirstStage
<1>a. ASSUME NEW next \in {"begin", "execute", "compare", "release", "restore"}, Advance(c, next),
             next = "begin" => c \in Workers
      PROVE  Started(c)'
  <2>1. \/ at'[c] = 1 /\ pc'[c] = next
        \/ at'[c] = at[c] + 1 /\ pc'[c] = pc[c]
    BY <1>a, AdvancePoint
  <2> QED
    BY <1>a, <1>f, <1>s, <2>1 DEF Started, First
<1>1. CASE LockAcquired(c) \/ LockOwned(c)
  <2>1. Advance(c, "begin") /\ c \in Workers
    BY <1>1 DEF LockAcquired, LockOwned, Staged
  <2> QED
    BY <1>a, <2>1
<1>2. CASE LockRefused(c) \/ Fault(c)
  <2>1. pc'[c] = "release"
    BY <1>2 DEF LockRefused, Fault, Goto
  <2> QED
    BY <1>s, <2>1 DEF Started, First
<1>3. CASE Release(c) \/ ReleaseNothing(c)
  <2>1. pc'[c] \in {"release", "done"}
    BY <1>3 DEF Release, ReleaseNothing, Finish, Goto
  <2> QED
    BY <1>s, <2>1 DEF Started, First
<1>4. CASE Begin(c)
  <2>1. Advance(c, "execute")
    BY <1>4 DEF Begin
  <2> QED
    BY <1>a, <2>1
<1>5. CASE Timeout(c) \/ Save(c)
  <2>1. pc'[c] \in {"commit", "done"}
    BY <1>5 DEF Timeout, Save, Goto
  <2> QED
    BY <1>s, <2>1 DEF Started, First
<1>6. CASE Commit(c)
  <2>1. Advance(c, IF failed[c] THEN "compare" ELSE "release")
    BY <1>6 DEF Commit
  <2> QED
    BY <1>a, <2>1
<1>7. CASE Compare(c)
  <2>1. Advance(c, IF intact[c] /\ disk[File(c)] = seen[c][File(c)] THEN "restore" ELSE "release")
    BY <1>7 DEF Compare
  <2> QED
    BY <1>a, <2>1
<1>8. CASE Restore(c)
  <2>1. Advance(c, "release")
    BY <1>8 DEF Restore
  <2> QED
    BY <1>a, <2>1
<1>9. CASE ToolStep(c)
  <2>1. tool[c] \in {"snapshot", "write", "undo"} /\ pc'[c] \in {pc[c], "commit"}
    BY <1>9, ToolPoint
  <2>2. pc[c] \notin {"save", "lock", "begin"}
    BY <2>1 DEF Staged
  <2>3. pc'[c] \notin {"save", "lock", "begin"}
    BY <2>1, <2>2
  <2> QED
    BY <1>s, <2>3 DEF Started, First
<1> QED
  BY <1>1, <1>2, <1>3, <1>4, <1>5, <1>6, <1>7, <1>8, <1>9 DEF Step, ExecutorStep, Lock

\* A call that has come to an end is not given another.
LEMMA StatusStays ==
  ASSUME IInv, NEW c \in Calls, Step(c), NEW d \in Calls, status[d] # "none"
  PROVE  status'[d] = status[d]
<1>t. TypeOK /\ Staged(c)
  BY DEF IInv
<1>1. CASE d # c
  BY <1>t, <1>1, OthersStay DEF Same
<1>2. CASE d = c
  <2>1. pc[c] \in {"release", "done"}
    BY <1>t, <1>2 DEF Staged
  <2>2. Release(c) \/ ReleaseNothing(c) \/ ToolStep(c)
    BY <2>1 DEF Step, ExecutorStep, Lock, LockAcquired, LockOwned, LockRefused, Begin, Timeout,
                Commit, Compare, Restore, Fault, Save
  <2> QED
    BY <1>2, <2>2, ToolPoint DEF Release, ReleaseNothing
<1> QED
  BY <1>1, <1>2

LEMMA StrayGrows ==
  ASSUME NEW c \in Calls, Step(c)
  PROVE  stray \subseteq stray'
<1>1. CASE ToolWrite(c) \/ ToolFail(c) \/ ToolUndo(c)
  <2>1. (Put(c, c) \/ Put(c, snap[c][ToolFile(c)])) \/ stray' = stray
    BY <1>1 DEF ToolWrite, ToolFail, ToolUndo
  <2> QED
    BY <2>1, PutForm
<1>2. CASE ~(ToolWrite(c) \/ ToolFail(c) \/ ToolUndo(c))
  BY <1>2 DEF Step, ExecutorStep, ToolStep, Lock, LockAcquired, LockOwned, LockRefused, Release,
       ReleaseNothing, Begin, Timeout, Commit, Compare, Restore, Fault, Save, ToolSnapshot, toolVars
<1> QED
  BY <1>1, <1>2

\* A file that is clean after a step was so before, and the call that took it
\* is one of those the file is clean for.
LEMMA CleanBefore ==
  ASSUME IInv, NEW c \in Calls, Step(c), NEW f, Clean(f)'
  PROVE  /\ Clean(f)
         /\ f \in Files(c) =>
              /\ c \in Workers /\ c \notin stray' /\ status'[c] # "threw"
              /\ \A d \in Calls : Started(d)' /\ f \in Files(d) /\ OwnerOf[d] = OwnerOf[c] => d = c
<1>1. \A d \in Calls : Started(d) => Started(d)'
  <2> SUFFICES ASSUME NEW d \in Calls, Started(d) PROVE Started(d)'
    OBVIOUS
  <2>1. CASE d = c
    BY <2>1, Moves
  <2>2. CASE d # c
    <3>1. pc'[d] = pc[d] /\ at'[d] = at[d]
      BY <2>2, OthersStay DEF IInv, Same
    <3> QED
      BY <3>1 DEF Started, First
  <2> QED
    BY <2>1, <2>2
<1>2. Users(f) \subseteq Users(f)'
  BY <1>1 DEF Users, Files
<1>3. \A d \in Users(f)' : /\ d \in Workers \ stray' /\ status'[d] # "threw"
                           /\ \A e \in Users(f)' : OwnerOf[d] = OwnerOf[e] => d = e
  BY DEF Clean
<1>4. Clean(f)
  <2>1. ASSUME NEW d \in Users(f) PROVE d \in Workers \ stray /\ status[d] # "threw"
    <3>1. d \in Calls /\ d \in Users(f)'
      BY <1>2, <2>1 DEF Users
    <3>2. status[d] # "none" => status'[d] = status[d]
      BY <3>1, StatusStays
    <3> QED
      BY <1>3, <3>1, <3>2, StrayGrows
  <2> QED
    BY <1>2, <1>3, <2>1 DEF Clean
<1>5. ASSUME f \in Files(c) PROVE c \in Users(f)'
  BY <1>5, Moves DEF Users, Files
<1>6. \A d \in Calls : Started(d)' /\ f \in Files(d) => d \in Users(f)'
  BY DEF Users, Files
<1> QED
  BY <1>3, <1>4, <1>5, <1>6

\* A call that has a lock to give back has started.
LEMMA HolderStarted ==
  ASSUME IInv, NEW c \in Calls, acquired[c] # {}
  PROVE  Started(c) /\ c \in Workers /\ acquired[c] \subseteq Files(c)
<1>1. Staged(c) /\ TypeOK
  BY DEF IInv
<1>2. c \in Workers /\ First(c) = "lock" /\ acquired[c] \subseteq Files(c)
  BY <1>1, FirstStage DEF Staged
<1>3. CASE pc[c] = "lock"
  <2>1. acquired[c] \subseteq {FilesOf[c][j] : j \in 1..(at[c] - 1)} /\ at[c] \in Nat \ {0}
    BY <1>1, <1>3 DEF Staged, TypeOK
  <2> QED
    BY <1>2, <2>1 DEF Started
<1>4. CASE pc[c] # "lock"
  BY <1>2, <1>4 DEF Started
<1> QED
  BY <1>2, <1>3, <1>4

-----------------------------------------------------------------------------
(* The locks *)

LEMMA LockStep ==
  ASSUME IInv, NEW c \in Calls, Step(c)
  PROVE  Locked'
<1>t. TypeOK /\ Staged(c) /\ Locked
  BY DEF IInv
<1> USE Domains
<1>w. Workers \subseteq Calls
  BY MutationAssumption DEF Executions
<1>o. /\ \A d \in Calls : OwnerOf[d] # NoOwner
      /\ \A d \in Calls : acquired[d] \subseteq Files(d) /\ (acquired[d] # {} => d \in Workers)
      /\ \A d \in Calls : \A f \in acquired[d] : f \in Paths
  <2>1. \A d \in Calls : Staged(d) /\ acquired[d] \subseteq Paths
    BY <1>t DEF IInv, TypeOK
  <2> QED
    BY <2>1, FileFacts DEF Staged
<1>1. CASE LockAcquired(c)
  <2> DEFINE f == File(c)
  <2>1. /\ pc[c] = "lock" /\ locks[f] = NoOwner /\ locks' = [locks EXCEPT ![f] = OwnerOf[c]]
        /\ acquired' = [acquired EXCEPT ![c] = @ \cup {f}]
    BY <1>1 DEF LockAcquired
  <2>2. f \in Paths /\ c \in Workers
    BY <1>t, <2>1, FileFacts DEF Staged, File
  <2>3. \A d \in Calls : f \notin acquired[d]
    BY <1>t, <1>o, <2>1 DEF Locked
  <2>4. /\ acquired'[c] = acquired[c] \cup {f} /\ \A d \in Calls \ {c} : acquired'[d] = acquired[d]
        /\ locks'[f] = OwnerOf[c] /\ \A g \in Paths \ {f} : locks'[g] = locks[g]
    BY <1>t, <2>1, <2>2
  <2>5. \A d \in Calls : \A g \in acquired'[d] : locks'[g] = OwnerOf[d]
    BY <1>t, <1>o, <2>3, <2>4 DEF Locked
  <2>6. \A d, e \in Calls : acquired'[d] \cap acquired'[e] # {} => d = e
    BY <1>t, <2>3, <2>4 DEF Locked
  <2>7. LocksAreHeld'
    <3> SUFFICES ASSUME NEW g \in Paths
                 PROVE  locks'[g] # NoOwner <=>
                          \E d \in Workers : g \in acquired'[d] /\ OwnerOf[d] = locks'[g]
      BY DEF LocksAreHeld
    <3>1. CASE g = f
      BY <1>o, <2>2, <2>4, <3>1
    <3>2. CASE g # f
      BY <1>t, <1>w, <2>2, <2>4, <3>2 DEF Locked, LocksAreHeld
    <3> QED
      BY <3>1, <3>2
  <2> QED
    BY <2>5, <2>6, <2>7 DEF Locked
<1>2. CASE Release(c)
  <2>1. PICK f \in acquired[c] :
           /\ acquired' = [acquired EXCEPT ![c] = @ \ {f}]
           /\ locks' = [locks EXCEPT ![f] = IF @ = OwnerOf[c] THEN NoOwner ELSE @]
    BY <1>2 DEF Release
  <2>2. f \in Paths /\ locks[f] = OwnerOf[c]
    BY <1>t, <1>o DEF Locked
  <2>3. \A d \in Calls \ {c} : f \notin acquired[d]
    BY <1>t DEF Locked
  <2>4. /\ acquired'[c] = acquired[c] \ {f} /\ \A d \in Calls \ {c} : acquired'[d] = acquired[d]
        /\ locks'[f] = NoOwner /\ \A g \in Paths \ {f} : locks'[g] = locks[g]
    BY <1>t, <2>1, <2>2
  <2>5. \A d \in Calls : \A g \in acquired'[d] : locks'[g] = OwnerOf[d]
    <3> SUFFICES ASSUME NEW d \in Calls, NEW g \in acquired'[d] PROVE locks'[g] = OwnerOf[d]
      OBVIOUS
    <3>1. g \in acquired[d] /\ g # f /\ g \in Paths
      BY <1>o, <2>3, <2>4
    <3> QED
      BY <1>t, <2>4, <3>1 DEF Locked
  <2>6. \A d, e \in Calls : acquired'[d] \cap acquired'[e] # {} => d = e
    <3>1. \A d \in Calls : acquired'[d] \subseteq acquired[d]
      BY <2>4
    <3> QED
      BY <1>t, <3>1 DEF Locked
  <2>7. LocksAreHeld'
    <3> SUFFICES ASSUME NEW g \in Paths
                 PROVE  locks'[g] # NoOwner <=>
                          \E d \in Workers : g \in acquired'[d] /\ OwnerOf[d] = locks'[g]
      BY DEF LocksAreHeld
    <3>1. CASE g = f
      BY <1>o, <1>w, <2>2, <2>4, <3>1
    <3>2. CASE g # f
      BY <1>t, <1>w, <2>2, <2>4, <3>2 DEF Locked, LocksAreHeld
    <3> QED
      BY <3>1, <3>2
  <2> QED
    BY <2>5, <2>6, <2>7 DEF Locked
<1>3. CASE ~LockAcquired(c) /\ ~Release(c)
  <2>1. locks' = locks /\ acquired' = acquired
    BY <1>3 DEF Step, ExecutorStep, ToolStep, Lock, LockOwned, LockRefused, ReleaseNothing, Begin,
         Timeout, Commit, Compare, Restore, Fault, Save, ToolSnapshot, ToolWrite, ToolFail,
         ToolUndo, exec
  <2> QED
    BY <1>t, <2>1 DEF Locked, LocksAreHeld
<1> QED
  BY <1>1, <1>2, <1>3

-----------------------------------------------------------------------------
(* What a clean file holds while it is locked *)

LEMMA WorkersAreCalls == Workers \subseteq Calls
BY MutationAssumption DEF Executions

\* Only the holder of its lock changes a clean file, in time or to roll back.
LEMMA WriterHolds ==
  ASSUME IInv, NEW c \in Calls, Step(c), NEW f \in Paths, Clean(f)', disk'[f] # disk[f]
  PROVE  /\ c \in Workers /\ f \in acquired[c] /\ UNCHANGED <<acquired, pre>>
         /\ pc[c] = "restore" \/ (pc[c] = "execute" /\ pc'[c] \in {"execute", "commit"})
<1>t. TypeOK /\ Staged(c) /\ AllTracked
  BY DEF IInv
<1>f. File(c) \in Files(c) /\ ToolFile(c) \in Files(c)
  BY <1>t, FileFacts DEF Staged, File, ToolFile
<1>1. CASE Restore(c)
  <2>1. /\ pc[c] = "restore" /\ disk' = [disk EXCEPT ![File(c)] = pre[c][File(c)]]
        /\ UNCHANGED <<acquired, pre>>
    BY <1>1 DEF Restore
  <2>2. f = File(c)
    BY <1>t, <2>1, Domains
  <2>3. c \in Workers /\ Clean(f)
    BY <1>f, <2>2, CleanBefore
  <2>4. f \in acquired[c]
    BY <1>t, <2>1, <2>2, <2>3 DEF AllTracked, Tracked, Holds, File, Staged
  <2> QED
    BY <2>1, <2>3, <2>4
<1>2. CASE ToolWrite(c) \/ ToolFail(c) \/ ToolUndo(c)
  <2>1. (\E x : Put(c, x)) \/ UNCHANGED disk
    BY <1>2 DEF ToolWrite, ToolFail, ToolUndo
  <2>2. PICK x : Put(c, x)
    BY <2>1
  <2>3. /\ disk' = [disk EXCEPT ![ToolFile(c)] = x]
        /\ pc[c] # "execute" => c \in stray'
    BY <2>2, PutForm
  <2>4. f = ToolFile(c)
    BY <1>t, <2>3, Domains
  <2>5. c \in Workers /\ Clean(f) /\ c \notin stray'
    BY <1>f, <2>4, CleanBefore
  <2>6. pc[c] = "execute"
    BY <2>3, <2>5
  <2>7. f \in acquired[c]
    BY <1>t, <2>4, <2>5, <2>6 DEF AllTracked, Tracked, Holds, ToolFile, Staged
  <2>8. UNCHANGED <<acquired, pre>> /\ pc'[c] \in {"execute", "commit"}
    BY <1>2, <2>6, ToolPoint DEF ToolStep
  <2> QED
    BY <2>5, <2>6, <2>7, <2>8
<1>3. CASE Save(c)
  <2>1. pc[c] = "save" /\ disk' = [disk EXCEPT ![File(c)] = c]
    BY <1>3 DEF Save
  <2>2. f = File(c) /\ c \in Saves
    BY <1>t, <2>1, Domains DEF Staged
  <2> QED
    BY <1>f, <2>2, CleanBefore, FirstStage
<1>4. CASE ~(Restore(c) \/ ToolWrite(c) \/ ToolFail(c) \/ ToolUndo(c) \/ Save(c))
  BY <1>4 DEF Step, ExecutorStep, ToolStep, Lock, LockAcquired, LockOwned, LockRefused, Release,
       ReleaseNothing, Begin, Timeout, Commit, Compare, Fault, ToolSnapshot
<1> QED
  BY <1>1, <1>2, <1>3, <1>4

\* Other calls see their clean files unchanged.
LEMMA OthersTracked ==
  ASSUME IInv, NEW c \in Calls, Step(c), NEW d \in Workers, d # c,
         NEW i \in DOMAIN FilesOf[d], Clean(FilesOf[d][i])'
  PROVE  Tracked(d, i)'
<1> DEFINE f == FilesOf[d][i]
<1>1. d \in Calls /\ f \in Paths
  BY WorkersAreCalls, FileFacts
<1>2. Tracked(d, i)
  BY CleanBefore DEF IInv, AllTracked
<1>3. Same(d)
  BY <1>1, OthersStay DEF IInv
<1>4. disk'[f] # disk[f] => f \notin acquired[d]
  <2>1. disk'[f] # disk[f] => f \in acquired[c]
    BY <1>1, WriterHolds
  <2> QED
    BY <1>1, <2>1 DEF IInv, Locked
<1>5. CASE disk'[f] = disk[f]
  BY <1>2, <1>3, <1>5 DEF Tracked, Holds, Same
<1>6. CASE f \notin acquired[d]
  <2>1. ~Holds(d, i)
    BY <1>2, <1>6 DEF Tracked
  <2> QED
    BY <1>3, <1>6, <2>1 DEF Tracked, Holds, Same
<1> QED
  BY <1>4, <1>5, <1>6

\* A call tracks its own files from one stage to the next.
LEMMA OwnTracked ==
  ASSUME IInv, NEW c \in Workers, Step(c), NEW i \in DOMAIN FilesOf[c], Clean(FilesOf[c][i])'
  PROVE  Tracked(c, i)'
<1> DEFINE f == FilesOf[c][i]
<1>c. c \in Calls
  BY WorkersAreCalls
<1>t. TypeOK /\ Staged(c) /\ Locked
  BY <1>c DEF IInv
<1>k. Clean(f) /\ Tracked(c, i)
  BY <1>c, CleanBefore DEF IInv, AllTracked
<1>f. /\ f \in Files(c) /\ f \in Paths /\ i \in 1..Len(FilesOf[c]) /\ Len(FilesOf[c]) \in Nat \ {0}
      /\ at[c] \in 1..Len(FilesOf[c]) /\ tat[c] \in 1..Len(FilesOf[c])
      /\ \A j \in DOMAIN FilesOf[c] : FilesOf[c][j] = f => j = i
      /\ File(c) \in Paths /\ ToolFile(c) \in Paths
  BY <1>c, <1>t, FileFacts DEF Staged, File, ToolFile
<1>u. /\ c \notin stray' /\ status'[c] # "threw"
      /\ \A d \in Calls : Started(d)' /\ f \in Files(d) /\ OwnerOf[d] = OwnerOf[c] => d = c
  BY <1>c, <1>f, CleanBefore
<1> USE <1>c, Domains
<1>1. CASE LockAcquired(c)
  <2>1. /\ pc[c] = "lock" /\ Advance(c, "begin")
        /\ acquired'[c] = acquired[c] \cup {File(c)}
    BY <1>t, <1>1 DEF LockAcquired
  <2>2. \/ at[c] = Len(FilesOf[c]) /\ pc'[c] = "begin"
        \/ pc'[c] = "lock" /\ at'[c] = at[c] + 1
    BY <2>1, AdvancePoint
  <2>3. Holds(c, i)' => i <= at[c]
    BY <1>f, <2>2 DEF Holds
  <2>4. i < at[c] => f \in acquired[c]
    BY <1>k, <2>1 DEF Tracked, Holds
  <2>5. i = at[c] => f = File(c)
    BY DEF File
  <2>6. Holds(c, i)' => f \in acquired'[c]
    BY <1>f, <2>1, <2>3, <2>4, <2>5
  <2> QED
    BY <2>2, <2>6 DEF Tracked
<1>2. CASE LockOwned(c)
  <2>1. /\ pc[c] = "lock" /\ Advance(c, "begin") /\ UNCHANGED acquired
        /\ locks[File(c)] = OwnerOf[c]
    BY <1>2 DEF LockOwned
  <2>2. \/ at[c] = Len(FilesOf[c]) /\ pc'[c] = "begin"
        \/ pc'[c] = "lock" /\ at'[c] = at[c] + 1
    BY <2>1, AdvancePoint
  <2>3. Holds(c, i)' => i <= at[c]
    BY <1>f, <2>2 DEF Holds
  <2>4. i < at[c] => f \in acquired[c]
    BY <1>k, <2>1 DEF Tracked, Holds
  <2>5. ASSUME i = at[c] PROVE f \in acquired[c]
    <3>1. locks[f] = OwnerOf[c] /\ locks[f] # NoOwner
      BY <2>1, <2>5, FileFacts DEF File
    <3>2. PICK e \in Workers : f \in acquired[e] /\ OwnerOf[e] = OwnerOf[c]
      BY <1>f, <1>t, <3>1 DEF Locked, LocksAreHeld
    <3>3. e \in Calls /\ Started(e) /\ f \in Files(e)
      BY <3>2, WorkersAreCalls, HolderStarted
    <3>4. Started(e)'
      <4>1. CASE e = c
        BY <4>1, Moves
      <4>2. CASE e # c
        BY <3>3, <4>2, <1>t, OthersStay DEF Same, Started, First
      <4> QED
        BY <4>1, <4>2
    <3> QED
      BY <1>u, <3>2, <3>3, <3>4
  <2>6. Holds(c, i)' => f \in acquired'[c]
    BY <1>f, <2>1, <2>3, <2>4, <2>5
  <2> QED
    BY <2>2, <2>6 DEF Tracked
<1>3. CASE LockRefused(c)
  <2>1. pc'[c] = "release" /\ status'[c] = "locked"
    BY <1>t, <1>3 DEF LockRefused, Goto, Conclude
  <2> QED
    BY <2>1 DEF Tracked, Holds
<1>4. CASE Release(c) \/ ReleaseNothing(c)
  <2>1. /\ pc[c] = "release" /\ acquired'[c] \subseteq acquired[c]
        /\ pc'[c] = "done" \/ (pc'[c] = "release" /\ pre'[c] = pre[c])
        /\ UNCHANGED <<disk, status>>
    BY <1>t, <1>4 DEF Release, ReleaseNothing, Finish, Goto
  <2> QED
    BY <1>k, <2>1 DEF Tracked, Holds
<1>5. CASE Begin(c)
  <2>1. /\ pc[c] = "begin" /\ Advance(c, "execute") /\ UNCHANGED <<acquired, tat>>
    BY <1>5 DEF Begin
  <2>2. pc'[c] \in {"begin", "execute"}
    BY <2>1, AdvancePoint
  <2>3. tat[c] = 1
    <3>1. tool[c] \in {"none", "snapshot", "write", "undo", "ended"}
      BY <1>t DEF TypeOK
    <3> QED
      BY <1>t, <2>1, <3>1 DEF Staged
  <2>4. f \in acquired[c]
    BY <1>k, <2>1 DEF Tracked, Holds
  <2> QED
    BY <1>f, <2>1, <2>2, <2>3, <2>4 DEF Tracked
<1>6. CASE Timeout(c)
  <2>1. /\ pc[c] = "execute" /\ pc'[c] = "commit" /\ failed'[c] /\ UNCHANGED <<at, acquired>>
    BY <1>t, <1>6 DEF Timeout, Goto
  <2>2. f \in acquired[c] /\ at[c] = 1
    BY <1>k, <1>t, <2>1 DEF Tracked, Holds, Staged
  <2> QED
    BY <1>f, <2>1, <2>2 DEF Tracked
<1>7. CASE Commit(c)
  <2>1. /\ pc[c] = "commit" /\ UNCHANGED <<disk, acquired, failed>>
        /\ seen' = [seen EXCEPT ![c][File(c)] = disk[File(c)]]
        /\ Advance(c, IF failed[c] THEN "compare" ELSE "release")
        /\ IF Last(c) /\ ~failed[c] THEN Conclude(c, "committed") ELSE UNCHANGED status
    BY <1>7 DEF Commit
  <2>2. \/ /\ Last(c) /\ at[c] = Len(FilesOf[c])
           /\ pc'[c] = IF failed[c] THEN "compare" ELSE "release"
        \/ ~Last(c) /\ pc'[c] = "commit" /\ at'[c] = at[c] + 1
    BY <2>1, AdvancePoint
  <2>3. seen'[c][f] = IF f = File(c) THEN disk[f] ELSE seen[c][f]
    BY <1>f, <1>t, <2>1
  <2>4. f \in acquired[c] /\ (~failed[c] => disk[f] = c) /\ (i < at[c] => seen[c][f] = disk[f])
    BY <1>k, <2>1 DEF Tracked, Holds
  <2>5. i <= at[c] => seen'[c][f] = disk[f]
    BY <1>f, <2>3, <2>4 DEF File
  <2>6. Last(c) /\ ~failed[c] => status'[c] = "committed"
    BY <1>t, <2>1 DEF Conclude
  <2>7. CASE ~Last(c)
    BY <1>f, <2>1, <2>2, <2>4, <2>5, <2>7 DEF Tracked
  <2>8. CASE Last(c) /\ failed[c]
    BY <1>f, <2>1, <2>2, <2>4, <2>5, <2>8 DEF Tracked
  <2>9. CASE Last(c) /\ ~failed[c]
    BY <2>1, <2>2, <2>4, <2>6, <2>9 DEF Tracked, Holds
  <2> QED
    BY <2>7, <2>8, <2>9
<1>8. CASE Compare(c)
  <2> DEFINE same == intact[c] /\ disk[File(c)] = seen[c][File(c)]
  <2>1. /\ pc[c] = "compare" /\ UNCHANGED <<disk, acquired, seen, pre>>
        /\ Advance(c, IF same THEN "restore" ELSE "release")
        /\ IF Last(c) /\ ~same THEN Conclude(c, "rollback_conflict") ELSE UNCHANGED status
    BY <1>8 DEF Compare
  <2>2. \/ /\ Last(c) /\ at'[c] = 1 /\ pc'[c] = IF same THEN "restore" ELSE "release"
        \/ ~Last(c) /\ pc'[c] = "compare"
    BY <2>1, AdvancePoint
  <2>3. f \in acquired[c] /\ seen[c][f] = disk[f]
    BY <1>k, <2>1 DEF Tracked, Holds
  <2>4. Last(c) /\ ~same => status'[c] = "rollback_conflict"
    BY <1>t, <2>1 DEF Conclude
  <2>5. CASE ~Last(c)
    BY <2>1, <2>2, <2>3, <2>5 DEF Tracked
  <2>6. CASE Last(c) /\ same
    BY <1>f, <2>1, <2>2, <2>3, <2>6 DEF Tracked
  <2>7. CASE Last(c) /\ ~same
    BY <2>1, <2>2, <2>4, <2>7 DEF Tracked, Holds
  <2> QED
    BY <2>5, <2>6, <2>7
<1>9. CASE Restore(c)
  <2>1. /\ pc[c] = "restore" /\ UNCHANGED <<acquired, pre>>
        /\ disk' = [disk EXCEPT ![File(c)] = pre[c][File(c)]]
        /\ Advance(c, "release")
        /\ IF Last(c) THEN Conclude(c, "rolled_back") ELSE UNCHANGED status
    BY <1>9 DEF Restore
  <2>2. \/ Last(c) /\ at[c] = Len(FilesOf[c]) /\ pc'[c] = "release"
        \/ ~Last(c) /\ at'[c] = at[c] + 1 /\ pc'[c] = "restore"
    BY <2>1, AdvancePoint
  <2>3. f \in acquired[c] /\ (i < at[c] => disk[f] = pre[c][f])
    BY <1>k, <2>1 DEF Tracked, Holds
  <2>4. disk'[f] = IF f = File(c) THEN pre[c][f] ELSE disk[f]
    BY <1>f, <1>t, <2>1
  <2>5. i <= at[c] => disk'[f] = pre[c][f]
    BY <1>f, <2>3, <2>4 DEF File
  <2>6. Last(c) => status'[c] = "rolled_back"
    BY <1>t, <2>1 DEF Conclude
  <2>7. CASE Last(c)
    BY <1>f, <2>1, <2>2, <2>5, <2>6, <2>7 DEF Tracked, Holds
  <2>8. CASE ~Last(c)
    BY <1>f, <2>1, <2>2, <2>3, <2>5, <2>8 DEF Tracked, Holds
  <2> QED
    BY <2>7, <2>8
<1>10. CASE Fault(c)
  <2>1. status'[c] = "threw"
    BY <1>t, <1>10 DEF Fault, Conclude
  <2> QED
    BY <1>u, <2>1
<1>11. CASE Save(c)
  BY <1>t, <1>11, FirstStage DEF Save, Staged
<1>12. CASE ToolStep(c) /\ pc[c] # "execute"
  <2>1. /\ UNCHANGED <<at, acquired, pre, seen, status>>
        /\ pc'[c] = pc[c] /\ failed'[c] = failed[c]
    BY <1>12, ToolPoint
  <2>2. disk'[f] = disk[f]
    <3>1. \A x : ~Put(c, x)
      BY <1>u, <1>12, PutForm
    <3> QED
      BY <1>12, <3>1 DEF ToolStep, ToolSnapshot, ToolWrite, ToolFail, ToolUndo
  <2> QED
    BY <1>k, <1>12, <2>1, <2>2 DEF Tracked, Holds
<1>13. CASE ToolStep(c) /\ pc[c] = "execute"
  <2>1. f \in acquired[c] /\ UNCHANGED <<at, acquired>> /\ at[c] = 1
    BY <1>k, <1>t, <1>13, ToolPoint DEF Tracked, Holds, Staged
  <2>2. CASE ToolSnapshot(c)
    <3>1. /\ tool[c] = "snapshot" /\ UNCHANGED <<disk, pc>>
          /\ tool' = tool \/ tat' = [tat EXCEPT ![c] = 1]
      BY <2>2 DEF ToolSnapshot, exec
    <3>2. tool'[c] = "write" => tat'[c] = 1
      BY <1>t, <3>1
    <3> QED
      BY <1>f, <1>13, <2>1, <3>1, <3>2 DEF Tracked
  <2>3. CASE ToolWrite(c)
    <3>1. /\ tool[c] = "write" /\ Put(c, c)
          /\ \/ tat[c] < Len(FilesOf[c]) /\ tat' = [tat EXCEPT ![c] = tat[c] + 1] /\ UNCHANGED pc
             \/ ~(tat[c] < Len(FilesOf[c])) /\ Return(c, FALSE)
      BY <2>3 DEF ToolWrite
    <3>2. disk' = [disk EXCEPT ![ToolFile(c)] = c]
      BY <3>1, PutForm
    <3>3. i <= tat[c] => disk'[f] = c
      <4>1. i < tat[c] => disk[f] = c
        BY <1>k, <1>13, <3>1 DEF Tracked
      <4>2. disk'[f] = IF f = ToolFile(c) THEN c ELSE disk[f]
        BY <1>f, <1>t, <3>2
      <4> QED
        BY <1>f, <4>1, <4>2 DEF ToolFile
    <3>4. CASE tat[c] < Len(FilesOf[c])
      <4>1. tat'[c] = tat[c] + 1 /\ pc'[c] = "execute"
        BY <1>t, <1>13, <3>1, <3>4, Zenon
      <4> QED
        BY <1>f, <2>1, <3>3, <4>1 DEF Tracked
    <3>5. CASE ~(tat[c] < Len(FilesOf[c]))
      <4>1. pc'[c] = "commit" /\ ~failed'[c]
        <5>1. Return(c, FALSE)
          BY <3>1, <3>5, Zenon
        <5>2. pc' = [pc EXCEPT ![c] = "commit"] /\ failed' = [failed EXCEPT ![c] = FALSE]
          BY <1>13, <5>1, ReturnForm
        <5> QED
          BY <1>t, <5>2
      <4>2. disk'[f] = c
        BY <1>f, <3>3, <3>5
      <4> QED
        BY <1>f, <2>1, <4>1, <4>2 DEF Tracked
    <3> QED
      BY <3>4, <3>5
  <2>4. CASE ToolFail(c) \/ ToolUndo(c)
    <3>1. \/ pc'[c] = "execute" /\ tool'[c] = "undo"
          \/ pc'[c] = "commit" /\ failed'[c]
      <4>1. \/ /\ UNCHANGED pc
               /\ tool' = [tool EXCEPT ![c] = "undo"] \/ (tool[c] = "undo" /\ UNCHANGED tool)
            \/ Return(c, TRUE)
        BY <2>4 DEF ToolFail, ToolUndo
      <4>2. CASE Return(c, TRUE)
        <5>1. pc' = [pc EXCEPT ![c] = "commit"] /\ failed' = [failed EXCEPT ![c] = TRUE]
          BY <1>13, <4>2, ReturnForm
        <5> QED
          BY <1>t, <5>1
      <4>3. CASE ~Return(c, TRUE)
        <5>1. /\ UNCHANGED pc
              /\ tool' = [tool EXCEPT ![c] = "undo"] \/ (tool[c] = "undo" /\ UNCHANGED tool)
          BY <4>1, <4>3, Zenon
        <5> QED
          BY <1>t, <1>13, <5>1
      <4> QED
        BY <4>2, <4>3
    <3> QED
      BY <1>f, <2>1, <3>1 DEF Tracked
  <2> QED
    BY <1>13, <2>2, <2>3, <2>4 DEF ToolStep
<1> QED
  BY <1>1, <1>2, <1>3, <1>4, <1>5, <1>6, <1>7, <1>8, <1>9, <1>10, <1>11, <1>12, <1>13
     DEF Step, ExecutorStep, Lock

-----------------------------------------------------------------------------
(* Rollbacks *)

LEMMA TrackedStep ==
  ASSUME IInv, NEW c \in Calls, Step(c)
  PROVE  AllTracked'
<1> SUFFICES ASSUME NEW d \in Workers, NEW i \in DOMAIN FilesOf[d], Clean(FilesOf[d][i])'
             PROVE  Tracked(d, i)'
  BY DEF AllTracked
<1>1. CASE d = c
  BY <1>1, OwnTracked
<1>2. CASE d # c
  BY <1>2, OthersTracked
<1> QED
  BY <1>1, <1>2

\* A call whose files are clean finds them as its fingerprint saw them.
LEMMA ConflictStep ==
  ASSUME IInv, NEW c \in Calls, Step(c)
  PROVE  NoConflict'
<1> SUFFICES ASSUME NEW d \in Workers, \A f \in Files(d) : Clean(f)'
             PROVE  intact'[d] /\ status'[d] # "rollback_conflict"
  BY DEF NoConflict, Files
<1>c. d \in Calls
  BY WorkersAreCalls
<1>t. TypeOK /\ Staged(d) /\ AllTracked
  BY <1>c DEF IInv
<1>1. \A f \in Files(d) : Clean(f)
  BY CleanBefore
<1>2. intact[d] /\ status[d] # "rollback_conflict"
  BY <1>1 DEF IInv, NoConflict
<1>3. CASE d # c
  BY <1>c, <1>t, <1>2, <1>3, OthersStay DEF Same
<1>4. CASE d = c /\ Compare(c)
  <2>1. Clean(File(c)) /\ at[c] \in DOMAIN FilesOf[c]
    BY <1>1, <1>4, <1>t, FileFacts DEF File, Staged
  <2>2. Tracked(c, at[c]) /\ pc[c] = "compare"
    BY <1>4, <1>t, <2>1 DEF AllTracked, File, Compare
  <2>3. seen[c][File(c)] = disk[File(c)]
    BY <2>2 DEF Tracked, File
  <2>4. intact' = [intact EXCEPT ![c] = TRUE] /\ UNCHANGED status
    BY <1>2, <1>4, <2>3 DEF Compare
  <2> QED
    BY <1>2, <1>4, <1>t, <2>4, Domains
<1>5. CASE d = c /\ ~Compare(c)
  <2>1. UNCHANGED intact \/ intact' = [intact EXCEPT ![c] = TRUE]
    BY <1>5 DEF Step, ExecutorStep, ToolStep, Lock, LockAcquired, LockOwned, LockRefused, Release,
       ReleaseNothing, Finish, Begin, Timeout, Commit, Restore, Fault, Save, ToolSnapshot,
       ToolWrite, ToolFail, ToolUndo, exec
  <2>2. UNCHANGED status \/ \E s \in {"locked", "committed", "rolled_back", "threw"} : Conclude(c, s)
    BY <1>5 DEF Step, ExecutorStep, ToolStep, Lock, LockAcquired, LockOwned, LockRefused, Release,
       ReleaseNothing, Begin, Timeout, Commit, Restore, Fault, Save, ToolSnapshot,
       ToolWrite, ToolFail, ToolUndo, exec
  <2>3. intact'[c]
    BY <1>2, <1>5, <1>t, <2>1, Domains
  <2>4. status'[c] # "rollback_conflict"
    BY <1>2, <1>5, <1>t, <2>2, Domains DEF Conclude
  <2> QED
    BY <1>5, <2>3, <2>4
<1> QED
  BY <1>3, <1>4, <1>5

-----------------------------------------------------------------------------
(* What calls find *)

\* A call that is at work no more has committed, or put back what it found.
LEMMA WorkEnds ==
  ASSUME IInv, NEW c \in Calls, Step(c), AtWork(c), ~AtWork(c)'
  PROVE  /\ pc'[c] = "release" /\ UNCHANGED <<acquired, pre>>
         /\ status'[c] \in {"committed", "rolled_back", "rollback_conflict", "threw"}
<1>t. TypeOK /\ Staged(c)
  BY DEF IInv
<1> USE Domains
<1>1. CASE Commit(c)
  <2>1. /\ pc[c] = "commit" /\ UNCHANGED <<acquired, pre>>
        /\ Advance(c, IF failed[c] THEN "compare" ELSE "release")
        /\ IF Last(c) /\ ~failed[c] THEN Conclude(c, "committed") ELSE UNCHANGED status
    BY <1>1 DEF Commit
  <2>2. \/ Last(c) /\ pc'[c] = IF failed[c] THEN "compare" ELSE "release"
        \/ ~Last(c) /\ pc'[c] = "commit"
    BY <2>1, AdvancePoint
  <2>3. Last(c) /\ ~failed[c] /\ pc'[c] = "release"
    BY <2>2 DEF AtWork
  <2> QED
    BY <1>t, <2>1, <2>3 DEF Conclude
<1>2. CASE Compare(c)
  <2> DEFINE same == intact[c] /\ disk[File(c)] = seen[c][File(c)]
  <2>1. /\ pc[c] = "compare" /\ UNCHANGED <<acquired, pre>>
        /\ Advance(c, IF same THEN "restore" ELSE "release")
        /\ IF Last(c) /\ ~same THEN Conclude(c, "rollback_conflict") ELSE UNCHANGED status
    BY <1>2 DEF Compare
  <2>2. \/ Last(c) /\ pc'[c] = IF same THEN "restore" ELSE "release"
        \/ ~Last(c) /\ pc'[c] = "compare"
    BY <2>1, AdvancePoint
  <2>3. Last(c) /\ ~same /\ pc'[c] = "release"
    BY <2>2 DEF AtWork
  <2> QED
    BY <1>t, <2>1, <2>3 DEF Conclude
<1>3. CASE Restore(c)
  <2>1. /\ pc[c] = "restore" /\ UNCHANGED <<acquired, pre>>
        /\ Advance(c, "release")
        /\ IF Last(c) THEN Conclude(c, "rolled_back") ELSE UNCHANGED status
    BY <1>3 DEF Restore
  <2>2. \/ Last(c) /\ pc'[c] = "release"
        \/ ~Last(c) /\ pc'[c] = "restore"
    BY <2>1, AdvancePoint
  <2>3. Last(c) /\ pc'[c] = "release"
    BY <2>2 DEF AtWork
  <2> QED
    BY <1>t, <2>1, <2>3 DEF Conclude
<1>4. CASE Fault(c)
  BY <1>t, <1>4 DEF Fault, Goto, Conclude
<1>5. CASE ToolStep(c) \/ Timeout(c)
  <2>1. pc'[c] \in {pc[c], "commit"}
    BY <1>t, <1>5, ToolPoint DEF Timeout, Goto
  <2> QED
    BY <2>1 DEF AtWork
<1> QED
  BY <1>1, <1>2, <1>3, <1>4, <1>5 DEF AtWork, Step, ExecutorStep, Lock, LockAcquired, LockOwned,
     LockRefused, Release, ReleaseNothing, Begin, Save

\* A pre-image is what a clean file holds when no call is at work on it.
LEMMA SettledStep ==
  ASSUME IInv, NEW c \in Calls, Step(c)
  PROVE  AllSettled'
<1> SUFFICES ASSUME \A f \in Paths : Clean(f)'
             PROVE  /\ \A d \in Calls, f \in Paths : Settled(pre[d][f])'
                    /\ \A f \in Paths : \/ Settled(disk[f])'
                                        \/ \E d \in Workers : f \in acquired'[d] /\ AtWork(d)'
  BY DEF AllSettled, AllClean
<1>t. TypeOK /\ Staged(c) /\ Locked /\ AllTracked
  BY DEF IInv
<1>1. /\ \A d \in Calls, f \in Paths : Settled(pre[d][f])
      /\ \A f \in Paths : Settled(disk[f]) \/ \E d \in Workers : f \in acquired[d] /\ AtWork(d)
  <2>1. AllClean
    BY CleanBefore DEF AllClean
  <2> QED
    BY <2>1 DEF IInv, AllSettled
<1>2. ASSUME NEW x \in Contents, Settled(x)
      PROVE  x # Original => status'[x] = "committed"
  <2>1. x # Original => x \in Calls
    BY DEF Contents
  <2>2. x # Original => status[x] = "committed"
    BY <1>2 DEF Settled
  <2> QED
    BY <2>1, <2>2, StatusStays
<1>3. ASSUME NEW d \in Calls, NEW f \in Paths PROVE Settled(pre[d][f])'
  <2>1. pre[d][f] \in Contents /\ (pre[d][f] # Original => status'[pre[d][f]] = "committed")
    BY <1>1, <1>2, <1>t DEF TypeOK
  <2>2. CASE pre'[d][f] \in {pre[d][f], Original}
    BY <2>1, <2>2 DEF Settled
  <2>3. CASE pre'[d][f] \notin {pre[d][f], Original}
    <3>1. d = c
      BY <1>t, <2>3, OthersStay DEF Same
    <3>2. CASE Release(c) \/ ReleaseNothing(c)
      <4>1. pre' = pre \/ pre' = [pre EXCEPT ![c] = Untouched]
        BY <3>2 DEF Release, ReleaseNothing, Finish
      <4> QED
        BY <1>t, <2>3, <3>1, <4>1, Domains DEF Untouched
    <3>3. CASE Begin(c)
      <4>1. pc[c] = "begin" /\ pre' = [pre EXCEPT ![c][File(c)] = disk[File(c)]]
        BY <3>3 DEF Begin
      <4>2. f = File(c) /\ pre'[c][f] = disk[f]
        BY <1>t, <2>3, <3>1, <4>1, Domains
      <4>3. f \in Files(c) /\ at[c] \in DOMAIN FilesOf[c]
        BY <1>t, <4>2, FileFacts DEF Staged, File
      <4>4. c \in Workers /\ Clean(f)
        BY <4>3, CleanBefore
      <4>5. f \in acquired[c]
        BY <1>t, <4>1, <4>2, <4>3, <4>4 DEF AllTracked, Tracked, Holds, File
      <4>6. ~\E e \in Workers : f \in acquired[e] /\ AtWork(e)
        BY <1>t, <4>1, <4>5, WorkersAreCalls DEF Locked, AtWork
      <4>7. Settled(disk[f]) /\ disk[f] \in Contents
        BY <1>1, <1>t, <4>6 DEF TypeOK
      <4> QED
        BY <1>2, <3>1, <4>2, <4>7 DEF Settled
    <3>4. CASE ~(Begin(c) \/ Release(c) \/ ReleaseNothing(c))
      <4>1. UNCHANGED pre
        BY <3>4 DEF Step, ExecutorStep, ToolStep, Lock, LockAcquired, LockOwned, LockRefused,
           Timeout, Commit, Compare, Restore, Fault, Save, ToolSnapshot, ToolWrite, ToolFail,
           ToolUndo, exec
      <4> QED
        BY <2>3, <4>1
    <3> QED
      BY <3>2, <3>3, <3>4
  <2> QED
    BY <2>2, <2>3
<1>4. ASSUME NEW f \in Paths
      PROVE  Settled(disk[f])' \/ \E d \in Workers : f \in acquired'[d] /\ AtWork(d)'
  <2>1. CASE c \in Workers /\ f \in acquired[c] /\ AtWork(c)
    <3>1. CASE AtWork(c)'
      <4>1. f \in acquired'[c]
        BY <2>1, <1>t, Domains DEF Step, ExecutorStep, ToolStep, Lock, LockAcquired, LockOwned,
           LockRefused, Release, ReleaseNothing, Begin, Timeout, Commit, Compare, Restore, Fault,
           Save, ToolSnapshot, ToolWrite, ToolFail, ToolUndo, exec, AtWork
      <4> QED
        BY <2>1, <3>1, <4>1
    <3>2. CASE ~AtWork(c)'
      <4>1. /\ pc'[c] = "release" /\ UNCHANGED <<acquired, pre>>
            /\ status'[c] \in {"committed", "rolled_back", "rollback_conflict", "threw"}
        BY <2>1, <3>2, WorkEnds
      <4>2. acquired[c] \subseteq Files(c) /\ f \in Files(c) /\ Files(c) \subseteq Paths
        BY <1>t, <2>1, FileFacts DEF Staged
      <4>3. status'[c] # "threw"
        BY <4>2, CleanBefore
      <4>4. status'[c] # "rollback_conflict"
        <5>1. NoConflict'
          BY ConflictStep
        <5>2. \A g \in Files(c) : Clean(g)'
          BY <4>2
        <5> QED
          BY <2>1, <5>1, <5>2 DEF NoConflict, Files
      <4>5. PICK i \in DOMAIN FilesOf[c] : f = FilesOf[c][i]
        BY <4>2, FileFacts
      <4>6. Tracked(c, i)'
        BY <2>1, <4>5, OwnTracked
      <4>7. /\ status'[c] = "committed" => disk'[f] = c
            /\ status'[c] = "rolled_back" => disk'[f] = pre[c][f]
        BY <2>1, <4>1, <4>5, <4>6 DEF Tracked
      <4>8. CASE status'[c] = "committed"
        BY <4>7, <4>8 DEF Settled
      <4>9. CASE status'[c] = "rolled_back"
        <5>1. Settled(pre[c][f])'
          BY <1>3
        <5> QED
          BY <4>1, <4>7, <4>9, <5>1 DEF Settled
      <4> QED
        BY <4>1, <4>3, <4>4, <4>8, <4>9
    <3> QED
      BY <3>1, <3>2
  <2>2. CASE ~(c \in Workers /\ f \in acquired[c] /\ AtWork(c))
    <3>1. disk'[f] = disk[f]
      <4>1. disk'[f] # disk[f] => c \in Workers /\ f \in acquired[c] /\ pc[c] \in {"restore", "execute"}
        BY WriterHolds
      <4> QED
        BY <2>2, <4>1 DEF AtWork
    <3>2. CASE Settled(disk[f])
      <4>1. disk[f] \in Contents
        BY <1>t DEF TypeOK
      <4> QED
        BY <1>2, <3>1, <3>2, <4>1 DEF Settled
    <3>3. CASE \E e \in Workers : f \in acquired[e] /\ AtWork(e)
      <4>1. PICK e \in Workers : f \in acquired[e] /\ AtWork(e)
        BY <3>3
      <4>2. e # c /\ e \in Calls
        BY <2>2, <4>1, WorkersAreCalls
      <4>3. Same(e)
        BY <1>t, <4>2, OthersStay
      <4> QED
        BY <4>1, <4>3 DEF Same, AtWork
    <3> QED
      BY <1>1, <3>2, <3>3
  <2> QED
    BY <2>1, <2>2
<1> QED
  BY <1>3, <1>4

-----------------------------------------------------------------------------
(* The theorems *)

LEMMA InvStep == IInv /\ [Next]_vars => IInv'
<1> SUFFICES ASSUME IInv, [Next]_vars PROVE IInv'
  OBVIOUS
<1>1. ASSUME NEW c \in Calls, Step(c) PROVE IInv'
  <2>1. ASSUME NEW d \in Calls PROVE Staged(d)'
    <3>1. CASE d = c
      BY <1>1, <3>1, StageStep
    <3>2. CASE d # c
      BY <1>1, <3>2, OthersStay DEF IInv, Same, Staged, Files
    <3> QED
      BY <3>1, <3>2
  <2> QED
    BY <1>1, <2>1, TypeStep, LockStep, TrackedStep, ConflictStep, SettledStep DEF IInv
<1>2. CASE UNCHANGED vars
  <2>1. UNCHANGED <<disk, locks, pc, at, acquired, pre, seen, intact, failed, status, faults,
                    tool, tat, snap, stray>>
    BY <1>2 DEF vars, exec, toolVars
  <2>2. TypeOK' /\ \A c \in Calls : Staged(c)'
    BY <2>1 DEF IInv, TypeOK, Staged, Files
  <2>3. \A f : Clean(f)' <=> Clean(f)
    BY <2>1 DEF Clean, Users, Started, First, Files
  <2>4. Locked' /\ AllTracked'
    BY <2>1, <2>3 DEF IInv, Locked, LocksAreHeld, AllTracked, Tracked, Holds
  <2>5. NoConflict' /\ AllSettled'
    BY <2>1, <2>3 DEF IInv, NoConflict, AllSettled, AllClean, Settled, AtWork, Files
  <2> QED
    BY <2>2, <2>4, <2>5 DEF IInv
<1> QED
  BY <1>1, <1>2 DEF Next, Step

\* IInv holds in every state of every behaviour.
THEOREM Invariant == Spec => []IInv
<1> QED
  BY InvInit, InvStep, PTL DEF Spec

\* Every variable keeps its type, with any number of calls and faults.
THEOREM TypeCorrect == Spec => []TypeOK
<1>1. IInv => TypeOK
  BY DEF IInv
<1> QED
  BY <1>1, Invariant, PTL

\* Whatever becomes of a call, its locks go back: one that stands belongs to a
\* call that has yet to release it.
THEOREM LocksGoBack == Spec => []LocksAreHeld
<1>1. IInv => LocksAreHeld
  BY DEF IInv, Locked
<1> QED
  BY <1>1, Invariant, PTL

\* A call that has been isolated has had clean files.
LEMMA IsolatedIsClean ==
  ASSUME NEW c \in Calls, Isolated(c), NEW f \in Files(c)
  PROVE  Clean(f)
<1>1. Users(f) \subseteq Near(c)
  BY DEF Users, Near
<1>2. /\ Near(c) \subseteq Workers \ stray
      /\ \A d \in Near(c) : status[d] # "threw"
  BY DEF Isolated
<1>3. \A d, e \in Near(c) : OwnerOf[d] = OwnerOf[e] => d = e
  <2>1. IsInjective(Restrict(OwnerOf, Near(c)))
    BY DEF Isolated
  <2>2. /\ DOMAIN Restrict(OwnerOf, Near(c)) = Near(c)
        /\ \A d \in Near(c) : Restrict(OwnerOf, Near(c))[d] = OwnerOf[d]
    BY DEF Restrict
  <2> QED
    BY <2>1, <2>2 DEF IsInjective
<1> QED
  BY <1>1, <1>2, <1>3 DEF Clean

\* A worker's call that is isolated changes all its files or none, and its
\* rollback is not refused, in whatever order the steps of all calls come.
THEOREM IsolationMakesAtomic == Spec => []IsolatedCallIsAtomic
<1>1. IInv => IsolatedCallIsAtomic
  <2> SUFFICES ASSUME IInv, NEW c \in Workers, pc[c] = "release", Isolated(c)
               PROVE  /\ status[c] = "committed" => \A f \in acquired[c] : disk[f] = c
                      /\ status[c] = "rolled_back" => \A f \in acquired[c] : disk[f] = pre[c][f]
                      /\ status[c] # "rollback_conflict"
    BY DEF IsolatedCallIsAtomic
  <2>1. c \in Calls /\ \A f \in Files(c) : Clean(f)
    BY WorkersAreCalls, IsolatedIsClean
  <2>2. status[c] # "rollback_conflict"
    BY <2>1 DEF IInv, NoConflict
  <2>3. ASSUME NEW f \in acquired[c]
        PROVE  /\ status[c] = "committed" => disk[f] = c
               /\ status[c] = "rolled_back" => disk[f] = pre[c][f]
    <3>1. f \in Files(c)
      BY <2>1 DEF IInv, Staged
    <3>2. PICK i \in DOMAIN FilesOf[c] : f = FilesOf[c][i]
      BY <2>1, <3>1, FileFacts
    <3>3. Tracked(c, i)
      BY <2>1, <3>1, <3>2 DEF IInv, AllTracked
    <3> QED
      BY <3>2, <3>3 DEF Tracked
  <2> QED
    BY <2>2, <2>3
<1> QED
  BY <1>1, Invariant, PTL

\* Where all calls are isolated, what one finds in a file is the file as it was
\* at first or the result of a committed call, never a half-done change.
THEOREM NothingDirtyIsRead == Spec => []NoDirtyRead
<1>1. IInv => NoDirtyRead
  <2> SUFFICES ASSUME IInv, \A c \in Calls : Started(c) => Isolated(c)
               PROVE  \A c \in Calls, f \in Paths :
                        pre[c][f] # Original => status[pre[c][f]] = "committed"
    BY DEF NoDirtyRead
  <2>1. AllClean
    <3> SUFFICES ASSUME NEW f \in Paths PROVE Clean(f)
      BY DEF AllClean
    <3>1. CASE Users(f) = {}
      BY <3>1 DEF Clean
    <3>2. CASE Users(f) # {}
      BY <3>2, IsolatedIsClean DEF Users
    <3> QED
      BY <3>1, <3>2
  <2> QED
    BY <2>1 DEF IInv, AllSettled, Settled
<1> QED
  BY <1>1, Invariant, PTL
-----------------------------------------------------------------------------
(* The two caches: their inductive invariant                               *)

Entries == [seen : Nat, late : BOOLEAN, stamp : Nat \cup {None}]
AnswerStages ==
  {"idle", "running", "statting", "reading", "storing", "returning", "done"}

CacheTypes ==
  /\ validates \subseteq Answers
  /\ version \in Nat
  /\ cache \in [Threads \X Cacheable -> Entries \cup {None}]
  /\ sem \in [Threads -> Entries \cup {None}]
  /\ stage \in [Answers -> AnswerStages]
  /\ got \in [Answers -> Nat] /\ floor \in [Answers -> Nat] /\ own \in [Answers -> Nat]
  /\ held \in [Answers -> Entries \cup {None}]
  /\ wrote \in [Threads -> Nat]
  /\ old \subseteq Answers /\ blind \subseteq Answers
  /\ spoiled \subseteq Answers /\ unchecked \subseteq Answers
  /\ saves \in Nat

\* An entry of a cache of contents that was not late when it was stored has
\* the content of its stamp.
True(e) == e # None => e.late \/ e.seen = e.stamp

\* A call that runs began after the edits it is to see, and has found nothing
\* older than what there was when it began, or found it in a late entry.
Looked(c) ==
  /\ True(held[c])
  /\ own[c] <= floor[c] /\ floor[c] <= version
  /\ stage[c] \in {"storing", "returning"} => floor[c] <= got[c] \/ HeldLate(c)
  /\ ToolOf[c] \in Writing => got[c] <= version

\* So has a stamped result; and no edit of its thread has been over since a
\* read or a search, or it would be forgotten.
Fresh(t, k) ==
  LET e == cache[<<t, k>>] IN
  e # None =>
    /\ e.stamp # None => e.late \/ e.seen = e.stamp
    /\ k \in Invalidated => e.late \/ wrote[t] <= e.seen

\* Only a read asks stat() about an entry, and it holds the entry.
Asking(c) == stage[c] = "statting" => ToolOf[c] = "read" /\ held[c] # None

\* All of the invariant but for the types.
Kept ==
  /\ \A c \in Answers : Looked(c) /\ Asking(c)
  /\ \A t \in Threads : wrote[t] <= version /\ True(sem[t])
  /\ \A t \in Threads, k \in Cacheable : Fresh(t, k)
  /\ ReadsAreCurrent
  /\ OwnEditsAreSeen

CacheInv == CacheTypes /\ Kept

LEMMA CacheInvInit == CacheInit => CacheInv
BY CacheAssumption
   DEF CacheInit, CacheInv, Kept, CacheTypes, Looked, Asking, True, Fresh, AnswerStages, HeldLate,
       ReadsAreCurrent, OwnEditsAreSeen, Cacheable

-----------------------------------------------------------------------------
(* The caches: types *)

LEMMA CacheTypeStep ==
  ASSUME CacheTypes, \A c \in Answers : Asking(c), [CacheNext]_cacheVars
  PROVE  CacheTypes'
<1> USE CacheAssumption DEF CacheTypes, verdicts, locals
<1> DEFINE Local ==
      /\ stage' \in [Answers -> AnswerStages]
      /\ got' \in [Answers -> Nat] /\ floor' \in [Answers -> Nat] /\ own' \in [Answers -> Nat]
      /\ held' \in [Answers -> Entries \cup {None}]
      /\ version' \in Nat /\ saves' \in Nat /\ validates' \subseteq Answers
<1>1. ASSUME NEW c \in Answers, Done(c) PROVE Local
  BY <1>1 DEF Done, AnswerStages
<1>2. ASSUME NEW c \in Answers, Runs(c)
      PROVE  Local /\ wrote' \in [Threads -> Nat] /\ UNCHANGED verdicts /\ UNCHANGED sem
  BY <1>2 DEF Runs, AnswerStages
<1>3. ASSUME NEW c \in Answers, NEW a, NEW b, NEW d, NEW e, Judge(c, a, b, d, e)
      PROVE  old' \subseteq Answers /\ blind' \subseteq Answers /\ spoiled' \subseteq Answers
  BY <1>3 DEF Judge
<1>4. ASSUME NEW c \in Answers, NEW to \in AnswerStages, GoesTo(c, to),
             got' \in [Answers -> Nat], held' \in [Answers -> Entries \cup {None}],
             sem' \in [Threads -> Entries \cup {None}]
      PROVE  CacheTypes'
  BY <1>4 DEF GoesTo
<1>5. ASSUME NEW c \in Answers, Hit(c) PROVE CacheTypes'
  <2>1. /\ UNCHANGED <<cache, sem, wrote>> /\ unchecked' \subseteq Answers /\ Done(c)
        /\ \E a, b, d, e : Judge(c, a, b, d, e)
    BY <1>5 DEF Hit
  <2> QED
    BY <1>1, <1>3, <2>1
<1>6. ASSUME NEW c \in Answers, Miss(c) \/ Run(c) PROVE CacheTypes'
  <2>1. cache' \in [Threads \X Cacheable -> Entries \cup {None}] /\ Runs(c)
    BY <1>6 DEF Miss, Run
  <2> QED
    BY <1>2, <2>1
<1>7. ASSUME NEW c \in Answers, AskSemantic(c) PROVE CacheTypes'
  <2>1. held' \in [Answers -> Entries \cup {None}] /\ UNCHANGED <<sem, got>>
    BY <1>7 DEF AskSemantic
  <2>2. \E to \in AnswerStages : GoesTo(c, to)
    BY <1>7 DEF AskSemantic, AnswerStages
  <2> QED
    BY <1>4, <2>1, <2>2
<1>8. ASSUME NEW c \in Answers, SemanticAnswers(c) PROVE CacheTypes'
  <2>1. held[c].seen \in Nat
    BY <1>8 DEF SemanticAnswers, Asking, Entries
  <2>2. got' \in [Answers -> Nat] /\ UNCHANGED <<sem, held>> /\ GoesTo(c, "returning")
    BY <1>8, <2>1 DEF SemanticAnswers
  <2> QED
    BY <1>4, <2>2 DEF AnswerStages
<1>9. ASSUME NEW c \in Answers, SemanticDrops(c) PROVE CacheTypes'
  <2>1. /\ held' \in [Answers -> Entries \cup {None}] /\ sem' \in [Threads -> Entries \cup {None}]
        /\ UNCHANGED got /\ GoesTo(c, "reading")
    BY <1>9 DEF SemanticDrops
  <2> QED
    BY <1>4, <2>1 DEF AnswerStages
<1>10. ASSUME NEW c \in Answers, Prefetch(c) PROVE CacheTypes'
  BY <1>4, <1>10 DEF Prefetch, AnswerStages
<1>11. ASSUME NEW c \in Answers, ReadFile(c) PROVE CacheTypes'
  BY <1>4, <1>11 DEF ReadFile, AnswerStages
<1>12. ASSUME NEW c \in Answers, SemanticSet(c) PROVE CacheTypes'
  <2> DEFINE e == [seen |-> got[c], late |-> got[c] # version, stamp |-> version]
  <2>1. e \in Entries
    BY DEF Entries
  <2>2. sem' = [sem EXCEPT ![ThreadOf[c]] = e] /\ UNCHANGED <<got, held>>
    BY <1>12 DEF SemanticSet
  <2>3. sem' \in [Threads -> Entries \cup {None}]
    BY <2>1, <2>2
  <2>4. \E to \in AnswerStages : GoesTo(c, to)
    BY <1>12 DEF SemanticSet, AnswerStages
  <2> HIDE DEF e
  <2> QED
    BY <1>4, <2>2, <2>3, <2>4
<1>13. ASSUME NEW c \in Answers, Look(c) PROVE CacheTypes'
  BY <1>4, <1>13 DEF Look, AnswerStages
<1>14. ASSUME NEW c \in Answers, Fails(c) \/ ReturnQuietly(c) PROVE CacheTypes'
  BY <1>1, <1>14 DEF Fails, ReturnQuietly
<1>15. ASSUME NEW c \in Answers, Store(c) PROVE CacheTypes'
  <2> DEFINE e == [seen |-> got[c], late |-> got[c] # version \/ HeldLate(c),
                   stamp |-> IF ToolOf[c] \in Stamped /\ c \in validates THEN version ELSE None]
  <2>1. e \in Entries
    BY DEF Entries
  <2>2. cache' = [cache EXCEPT ![Key(c)] = e] /\ UNCHANGED <<sem, wrote, unchecked>>
    BY <1>15 DEF Store
  <2>3. cache' \in [Threads \X Cacheable -> Entries \cup {None}]
    BY <2>1, <2>2
  <2> HIDE DEF e
  <2> QED
    BY <1>1, <1>3, <1>15, <2>2, <2>3 DEF Store
<1>16. ASSUME NEW c \in Answers, Change(c) PROVE CacheTypes'
  BY <1>16 DEF Change, AnswerStages
<1>17. ASSUME NEW c \in Answers, ReturnEdit(c) PROVE CacheTypes'
  <2>1. cache' \in [Threads \X Cacheable -> Entries \cup {None}]
    BY <1>17 DEF ReturnEdit, Forget
  <2>2. wrote' \in [Threads -> Nat]
    BY <1>17 DEF ReturnEdit
  <2> QED
    BY <1>1, <1>17, <2>1, <2>2 DEF ReturnEdit
<1>18. ASSUME NEW k \in DOMAIN cache, Expire(k) PROVE CacheTypes'
  BY <1>18 DEF Expire
<1>19. CASE SaveFile
  BY <1>19 DEF SaveFile
<1>20. CASE UNCHANGED cacheVars
  BY <1>20 DEF cacheVars
<1> QED
  BY <1>5, <1>6, <1>7, <1>8, <1>9, <1>10, <1>11, <1>12, <1>13, <1>14, <1>15, <1>16, <1>17,
     <1>18, <1>19, <1>20 DEF CacheNext

-----------------------------------------------------------------------------
(* The caches: what each step preserves *)

\* Entries that stay, or go, stay fresh as long as their thread has no more
\* edits to show.
LEMMA FreshStays ==
  ASSUME NEW t \in Threads, NEW k \in Cacheable, Fresh(t, k),
         cache'[<<t, k>>] \in {cache[<<t, k>>], None},
         wrote'[t] = wrote[t]
  PROVE  Fresh(t, k)'
BY DEF Fresh

\* Every other call is left alone, and the file at most gets newer.
LEMMA AnswersStay ==
  ASSUME CacheInv, CacheTypes', NEW d \in Answers, version <= version',
         stage'[d] = stage[d], got'[d] = got[d], held'[d] = held[d],
         floor'[d] = floor[d], own'[d] = own[d]
  PROVE  Looked(d)' /\ Asking(d)'
<1>1. Looked(d) /\ Asking(d)
  BY DEF CacheInv, Kept
<1>2. /\ version \in Nat /\ version' \in Nat /\ got[d] \in Nat /\ floor[d] \in Nat /\ own[d] \in Nat
      /\ HeldLate(d)' = HeldLate(d)
  BY DEF CacheInv, CacheTypes, HeldLate
<1> QED
  BY <1>1, <1>2 DEF Looked, Asking, True

\* So is a call that is over.
LEMMA DoneKeeps ==
  ASSUME CacheInv, CacheTypes', NEW c \in Answers, Done(c)
  PROVE  \A d \in Answers : Looked(d)' /\ Asking(d)'
<1>1. /\ UNCHANGED <<validates, version>> /\ version \in Nat
      /\ stage'[c] = "done" /\ got'[c] = 0 /\ held'[c] = None /\ floor'[c] = 0 /\ own'[c] = 0
      /\ \A d \in Answers \ {c} : stage'[d] = stage[d] /\ got'[d] = got[d] /\ held'[d] = held[d]
                               /\ floor'[d] = floor[d] /\ own'[d] = own[d]
  BY DEF Done, CacheInv, CacheTypes
<1>2. Looked(c)' /\ Asking(c)'
  BY <1>1 DEF Looked, Asking, True
<1>3. version <= version'
  BY <1>1
<1> QED
  BY <1>1, <1>2, <1>3, AnswersStay

\* An answer out of the cache.
LEMMA HitKeeps == ASSUME CacheInv, CacheTypes', NEW c \in Answers, Hit(c) PROVE Kept'
<1> USE CacheAssumption DEF verdicts, Cacheable
<1>t. CacheTypes
  BY DEF CacheInv
<1> DEFINE e == cache[<<ThreadOf[c], ToolOf[c]>>]
<1>1. /\ ToolOf[c] \in Cacheable /\ e # None
      /\ e.stamp # None /\ c \in validates => e.stamp = version
      /\ old' = IF e.seen < version THEN old \cup {c} ELSE old
      /\ blind' = IF e.seen < wrote[ThreadOf[c]] THEN blind \cup {c} ELSE blind
      /\ spoiled' = IF e.late THEN spoiled \cup {c} ELSE spoiled
      /\ unchecked' = IF e.stamp # None /\ c \in validates THEN unchecked ELSE unchecked \cup {c}
      /\ UNCHANGED <<cache, sem, wrote, version>> /\ Done(c)
  BY DEF Hit, Valid, Checked, Entry, Key, Judge, Done
<1>2. Fresh(ThreadOf[c], ToolOf[c]) /\ e \in Entries
  BY <1>1, <1>t DEF CacheInv, Kept, CacheTypes
<1>3. \A d \in Answers : Looked(d)' /\ Asking(d)'
  BY <1>1, DoneKeeps
<1>4. ASSUME NEW t \in Threads, NEW k \in Cacheable PROVE Fresh(t, k)'
  BY <1>1, FreshStays DEF CacheInv, Kept
<1>5. ReadsAreCurrent'
  <2>1. e.seen < version => c \in spoiled' \cup unchecked'
    BY <1>1, <1>2, <1>t DEF Fresh, Entries, CacheTypes
  <2> QED
    BY <1>1, <2>1 DEF CacheInv, Kept, ReadsAreCurrent
<1>6. OwnEditsAreSeen'
  <2>1. ToolOf[c] \in Invalidated /\ e.seen < wrote[ThreadOf[c]] => e.late
    BY <1>1, <1>2, <1>t DEF Fresh, Entries, CacheTypes
  <2> QED
    BY <1>1, <2>1 DEF CacheInv, Kept, OwnEditsAreSeen
<1>7. \A t \in Threads : (wrote[t] <= version /\ True(sem[t]))'
  BY <1>1 DEF CacheInv, Kept, True
<1> QED
  BY <1>3, <1>4, <1>5, <1>6, <1>7 DEF Kept

\* A tool starts.
LEMMA StartKeeps ==
  ASSUME CacheInv, CacheTypes', NEW c \in Answers, Miss(c) \/ Run(c) PROVE Kept'
<1> USE CacheAssumption DEF verdicts
<1>t. CacheTypes
  BY DEF CacheInv
<1>1. /\ Runs(c)
      /\ \A t \in Threads, k \in Cacheable : cache'[<<t, k>>] \in {cache[<<t, k>>], None}
  BY <1>t DEF Miss, Run, Key, CacheTypes
<1>2. UNCHANGED <<version, sem, wrote, old, blind, spoiled, unchecked>> /\ version \in Nat
  BY <1>1, <1>t DEF Runs, CacheTypes
<1>3. /\ stage'[c] = "running" /\ floor'[c] = version /\ own'[c] = wrote[ThreadOf[c]]
      /\ got'[c] = got[c] /\ held'[c] = held[c]
      /\ \A d \in Answers \ {c} : stage'[d] = stage[d] /\ got'[d] = got[d] /\ held'[d] = held[d]
                               /\ floor'[d] = floor[d] /\ own'[d] = own[d]
  BY <1>1, <1>t DEF Runs, CacheTypes
<1>4. Looked(c)' /\ Asking(c)'
  BY <1>2, <1>3 DEF CacheInv, Kept, Looked, Asking, True
<1>5. ASSUME NEW d \in Answers PROVE Looked(d)' /\ Asking(d)'
  BY <1>2, <1>3, <1>4, AnswersStay
<1>6. ASSUME NEW t \in Threads, NEW k \in Cacheable PROVE Fresh(t, k)'
  BY <1>1, <1>2, FreshStays DEF CacheInv, Kept
<1>7. ReadsAreCurrent' /\ OwnEditsAreSeen'
  BY <1>2 DEF CacheInv, Kept, ReadsAreCurrent, OwnEditsAreSeen
<1>8. \A t \in Threads : (wrote[t] <= version /\ True(sem[t]))'
  BY <1>2 DEF CacheInv, Kept, True
<1> QED
  BY <1>5, <1>6, <1>7, <1>8 DEF Kept

\* A read asks the cache of contents, or a file is read into it.
LEMMA SemanticKeeps ==
  ASSUME CacheInv, CacheTypes', NEW c \in Answers,
         \/ AskSemantic(c) \/ SemanticAnswers(c) \/ SemanticDrops(c)
         \/ Prefetch(c) \/ ReadFile(c) \/ SemanticSet(c) \/ Look(c)
  PROVE  Kept'
<1> USE CacheAssumption DEF verdicts
<1>t. CacheTypes
  BY DEF CacheInv
<1>0. PICK to \in AnswerStages : GoesTo(c, to)
  BY DEF AskSemantic, SemanticAnswers, SemanticDrops, Prefetch, ReadFile, SemanticSet, Look, AnswerStages
<1>1. /\ UNCHANGED <<version, cache, floor, own, wrote, old, blind, spoiled, unchecked>>
      /\ version \in Nat
  BY <1>0, <1>t DEF GoesTo, CacheTypes
<1>2. /\ \A d \in Answers \ {c} : stage'[d] = stage[d] /\ got'[d] = got[d] /\ held'[d] = held[d]
      /\ floor'[c] = floor[c] /\ own'[c] = own[c] /\ stage'[c] = to
  BY <1>0, <1>1, <1>t
     DEF GoesTo, AskSemantic, SemanticAnswers, SemanticDrops, Prefetch, ReadFile, SemanticSet, Look,
         CacheTypes
<1>3. Looked(c)' /\ Asking(c)'
  <2>i. /\ Looked(c) /\ Asking(c) /\ True(sem[ThreadOf[c]])
        /\ got[c] \in Nat /\ floor[c] \in Nat /\ held[c] \in Entries \cup {None}
    BY <1>t DEF CacheInv, Kept, CacheTypes
  <2>1. CASE AskSemantic(c) \/ SemanticDrops(c) \/ Prefetch(c)
    <3>1. /\ stage'[c] \in {"reading", "statting"} /\ got'[c] = got[c]
          /\ held'[c] \in {held[c], sem[ThreadOf[c]], None}
          /\ stage'[c] = "statting" => ToolOf[c] = "read" /\ held'[c] # None
      BY <1>t, <2>1 DEF AskSemantic, SemanticDrops, Prefetch, GoesTo, CacheTypes
    <3> QED
      BY <1>1, <1>2, <2>i, <3>1 DEF Looked, Asking, True, HeldLate
  <2>2. CASE SemanticAnswers(c)
    <3>1. /\ stage'[c] = "returning" /\ got'[c] = held[c].seen /\ held'[c] = held[c]
          /\ held[c].stamp = version /\ stage[c] = "statting"
      BY <1>t, <2>2 DEF SemanticAnswers, GoesTo, CacheTypes
    <3>2. ToolOf[c] \notin Writing /\ held[c] # None
      BY <2>i, <3>1 DEF Asking, Writing
    <3>3. held[c].late \/ held[c].seen = version
      BY <2>i, <3>1, <3>2 DEF Looked, True
    <3>4. held[c].seen \in Nat
      BY <2>i, <3>2 DEF Entries
    <3> QED
      BY <1>1, <1>2, <2>i, <3>1, <3>2, <3>3, <3>4 DEF Looked, Asking, True, HeldLate
  <2>3. CASE ReadFile(c) \/ Look(c)
    <3>1. got'[c] = version /\ held'[c] = held[c] /\ stage'[c] # "statting"
      BY <1>t, <2>3 DEF ReadFile, Look, GoesTo, CacheTypes
    <3> QED
      BY <1>1, <1>2, <2>i, <3>1 DEF Looked, Asking, True, HeldLate
  <2>4. CASE SemanticSet(c)
    <3>1. /\ stage[c] = "storing" /\ got'[c] = got[c] /\ held'[c] = held[c]
          /\ stage'[c] # "statting"
      BY <1>t, <2>4 DEF SemanticSet, GoesTo, CacheTypes
    <3> QED
      BY <1>1, <1>2, <2>i, <3>1 DEF Looked, Asking, True, HeldLate
  <2> QED
    BY <2>1, <2>2, <2>3, <2>4
<1>4. ASSUME NEW d \in Answers PROVE Looked(d)' /\ Asking(d)'
  BY <1>1, <1>2, <1>3, AnswersStay
<1>5. ASSUME NEW t \in Threads PROVE (wrote[t] <= version /\ True(sem[t]))'
  <2>1. wrote[t] <= version /\ True(sem[t])
    BY DEF CacheInv, Kept
  <2>2. CASE ~SemanticSet(c)
    <3>1. sem'[t] \in {sem[t], None}
      BY <1>t, <2>2 DEF AskSemantic, SemanticAnswers, SemanticDrops, Prefetch, ReadFile, Look, CacheTypes
    <3> QED
      BY <1>1, <2>1, <3>1 DEF True
  <2>3. CASE SemanticSet(c)
    <3> DEFINE e == [seen |-> got[c], late |-> got[c] # version, stamp |-> version]
    <3>1. sem'[t] = IF t = ThreadOf[c] THEN e ELSE sem[t]
      BY <1>t, <2>3 DEF SemanticSet, CacheTypes
    <3>2. e.late \/ e.seen = e.stamp
      OBVIOUS
    <3> HIDE DEF e
    <3> QED
      BY <1>1, <2>1, <3>1, <3>2 DEF True
  <2> QED
    BY <2>2, <2>3
<1>6. ASSUME NEW t \in Threads, NEW k \in Cacheable PROVE Fresh(t, k)'
  BY <1>1, FreshStays DEF CacheInv, Kept
<1>7. ReadsAreCurrent' /\ OwnEditsAreSeen'
  BY <1>1 DEF CacheInv, Kept, ReadsAreCurrent, OwnEditsAreSeen
<1> QED
  BY <1>4, <1>5, <1>6, <1>7 DEF Kept

\* A tool has changed the file; or one has failed, or says nothing of what it
\* has changed.
LEMMA WorkKeeps ==
  ASSUME CacheInv, CacheTypes', NEW c \in Answers, Fails(c) \/ ReturnQuietly(c) \/ Change(c)
  PROVE  Kept'
<1> USE CacheAssumption DEF verdicts
<1>t. CacheTypes
  BY DEF CacheInv
<1>1. /\ UNCHANGED <<cache, sem, wrote, old, blind, spoiled, unchecked>> /\ version <= version'
      /\ version \in Nat
  BY <1>t DEF Fails, ReturnQuietly, Change, Done, CacheTypes
<1>2. ASSUME NEW d \in Answers PROVE Looked(d)' /\ Asking(d)'
  <2>1. CASE Fails(c) \/ ReturnQuietly(c)
    BY <2>1, DoneKeeps DEF Fails, ReturnQuietly
  <2>2. CASE Change(c)
    <3>1. /\ got'[c] = version' /\ held'[c] = held[c] /\ floor'[c] = floor[c] /\ own'[c] = own[c]
          /\ stage'[c] = "returning"
          /\ \A x \in Answers \ {c} : stage'[x] = stage[x] /\ got'[x] = got[x] /\ held'[x] = held[x]
                                   /\ floor'[x] = floor[x] /\ own'[x] = own[x]
      BY <1>t, <2>2 DEF Change, CacheTypes
    <3>2. Looked(c) /\ floor[c] \in Nat /\ own[c] \in Nat /\ version' \in Nat
      BY <1>t DEF CacheInv, Kept, CacheTypes
    <3>3. Looked(c)' /\ Asking(c)'
      BY <1>1, <3>1, <3>2 DEF Looked, Asking, True, HeldLate
    <3> QED
      BY <1>1, <3>1, <3>3, AnswersStay
  <2> QED
    BY <2>1, <2>2
<1>3. ASSUME NEW t \in Threads, NEW k \in Cacheable PROVE Fresh(t, k)'
  BY <1>1, FreshStays DEF CacheInv, Kept
<1>4. \A t \in Threads : (wrote[t] <= version /\ True(sem[t]))'
  BY <1>1, <1>t DEF CacheInv, Kept, CacheTypes, True
<1>5. ReadsAreCurrent' /\ OwnEditsAreSeen'
  BY <1>1 DEF CacheInv, Kept, ReadsAreCurrent, OwnEditsAreSeen
<1> QED
  BY <1>2, <1>3, <1>4, <1>5 DEF Kept

\* The answer is kept.
LEMMA StoreKeeps == ASSUME CacheInv, CacheTypes', NEW c \in Answers, Store(c) PROVE Kept'
<1> USE CacheAssumption DEF verdicts
<1>t. CacheTypes
  BY DEF CacheInv
<1> DEFINE e == [seen |-> got[c], late |-> got[c] # version \/ HeldLate(c),
                 stamp |-> IF ToolOf[c] \in Stamped /\ c \in validates THEN version ELSE None]
<1>1. /\ stage[c] = "returning" /\ ToolOf[c] \in Cacheable
      /\ cache' = [cache EXCEPT ![<<ThreadOf[c], ToolOf[c]>>] = e]
      /\ old' = IF got[c] < floor[c] THEN old \cup {c} ELSE old
      /\ blind' = IF got[c] < own[c] THEN blind \cup {c} ELSE blind
      /\ spoiled' = IF HeldLate(c) THEN spoiled \cup {c} ELSE spoiled
      /\ UNCHANGED <<sem, wrote, unchecked, version>> /\ Done(c)
  BY DEF Store, Key, Judge, Done
<1>2. /\ own[c] <= floor[c] /\ (floor[c] <= got[c] \/ HeldLate(c))
      /\ own[c] \in Nat /\ floor[c] \in Nat /\ got[c] \in Nat /\ version \in Nat
  BY <1>1, <1>t DEF CacheInv, Kept, Looked, CacheTypes
<1>3. \A d \in Answers : Looked(d)' /\ Asking(d)'
  BY <1>1, DoneKeeps
<1>4. /\ e.seen = got[c] /\ (e.late <=> got[c] # version \/ HeldLate(c))
      /\ e.stamp \in {version, None}
  OBVIOUS
<1> HIDE DEF e
<1>5. ASSUME NEW t \in Threads, NEW k \in Cacheable PROVE Fresh(t, k)'
  <2>1. CASE t = ThreadOf[c] /\ k = ToolOf[c]
    <3>1. cache'[<<t, k>>] = e
      BY <1>1, <1>t, <2>1 DEF CacheTypes
    <3>2. wrote'[t] <= version
      BY <1>1 DEF CacheInv, Kept
    <3> QED
      BY <1>4, <3>1, <3>2 DEF Fresh
  <2>2. CASE ~(t = ThreadOf[c] /\ k = ToolOf[c])
    <3>1. cache'[<<t, k>>] = cache[<<t, k>>]
      BY <1>1, <1>t, <2>2 DEF CacheTypes
    <3> QED
      BY <1>1, <3>1, FreshStays DEF CacheInv, Kept
  <2> QED
    BY <2>1, <2>2
<1>6. ReadsAreCurrent' /\ OwnEditsAreSeen'
  <2>1. got[c] < floor[c] \/ got[c] < own[c] => HeldLate(c)
    BY <1>2
  <2> QED
    BY <1>1, <2>1 DEF CacheInv, Kept, ReadsAreCurrent, OwnEditsAreSeen
<1>7. \A t \in Threads : (wrote[t] <= version /\ True(sem[t]))'
  BY <1>1 DEF CacheInv, Kept, True
<1> QED
  BY <1>3, <1>5, <1>6, <1>7 DEF Kept

\* An edit is over.
LEMMA ReturnEditKeeps ==
  ASSUME CacheInv, CacheTypes', NEW c \in Answers, ReturnEdit(c) PROVE Kept'
<1> USE CacheAssumption DEF verdicts
<1>t. CacheTypes
  BY DEF CacheInv
<1>1. /\ UNCHANGED <<version, sem, old, blind, spoiled, unchecked>>
      /\ Done(c) /\ ToolOf[c] \in Writing
      /\ \A t \in Threads \ {ThreadOf[c]} : wrote'[t] = wrote[t]
      /\ wrote'[ThreadOf[c]] \in {wrote[ThreadOf[c]], got[c]}
      /\ \A t \in Threads, k \in Cacheable :
           cache'[<<t, k>>] = IF t = ThreadOf[c] /\ k \in Invalidated THEN None ELSE cache[<<t, k>>]
  BY <1>t DEF ReturnEdit, Forget, Done, CacheTypes, Writing
<1>2. \A d \in Answers : Looked(d)' /\ Asking(d)'
  BY <1>1, DoneKeeps
<1>3. ASSUME NEW t \in Threads, NEW k \in Cacheable PROVE Fresh(t, k)'
  <2>1. Fresh(t, k)
    BY DEF CacheInv, Kept
  <2> QED
    BY <1>1, <2>1 DEF Fresh
<1>4. \A t \in Threads : (wrote[t] <= version /\ True(sem[t]))'
  BY <1>1 DEF CacheInv, Kept, Looked, Asking, True
<1>5. ReadsAreCurrent' /\ OwnEditsAreSeen'
  BY <1>1 DEF CacheInv, Kept, ReadsAreCurrent, OwnEditsAreSeen
<1> QED
  BY <1>2, <1>3, <1>4, <1>5 DEF Kept

\* An entry goes, or somebody else changes the file.
LEMMA OutsideKeeps ==
  ASSUME CacheInv, CacheTypes', (\E k \in DOMAIN cache : Expire(k)) \/ SaveFile
  PROVE  Kept'
<1> USE CacheAssumption DEF verdicts, locals
<1>t. CacheTypes
  BY DEF CacheInv
<1>1. /\ UNCHANGED <<sem, stage, got, held, floor, own, wrote, old, blind, spoiled, unchecked>>
      /\ version <= version'
      /\ \A t \in Threads, k \in Cacheable : cache'[<<t, k>>] \in {cache[<<t, k>>], None}
  BY <1>t DEF Expire, SaveFile, CacheTypes
<1>2. \A d \in Answers : Looked(d)' /\ Asking(d)'
  BY <1>1, AnswersStay
<1>3. \A t \in Threads, k \in Cacheable : Fresh(t, k)'
  BY <1>1, FreshStays DEF CacheInv, Kept
<1>4. \A t \in Threads : (wrote[t] <= version /\ True(sem[t]))'
  BY <1>1, <1>t DEF CacheInv, Kept, CacheTypes, True
<1>5. ReadsAreCurrent' /\ OwnEditsAreSeen'
  BY <1>1 DEF CacheInv, Kept, ReadsAreCurrent, OwnEditsAreSeen
<1> QED
  BY <1>2, <1>3, <1>4, <1>5 DEF Kept

-----------------------------------------------------------------------------
(* The caches: theorems *)

LEMMA CacheInvStep == CacheInv /\ [CacheNext]_cacheVars => CacheInv'
<1> SUFFICES ASSUME CacheInv, [CacheNext]_cacheVars PROVE CacheInv'
  OBVIOUS
<1>1. CacheTypes'
  BY CacheTypeStep DEF CacheInv, Kept
<1>2. CASE UNCHANGED cacheVars
  BY <1>1, <1>2 DEF cacheVars, locals, verdicts, CacheInv, Kept, Looked, Asking, True, HeldLate, Fresh,
                    ReadsAreCurrent, OwnEditsAreSeen
<1>3. CASE CacheNext
  <2>1. Kept'
    BY <1>1, <1>3, HitKeeps, StartKeeps, SemanticKeeps, WorkKeeps, StoreKeeps, ReturnEditKeeps,
       OutsideKeeps DEF CacheNext
  <2> QED
    BY <1>1, <2>1 DEF CacheInv
<1> QED
  BY <1>2, <1>3

\* The invariant of the caches holds in every state.
THEOREM CacheInvariant == CacheSpec => []CacheInv
BY CacheInvInit, CacheInvStep, PTL DEF CacheSpec

\* A read shows the file as it was at some moment of the call.
THEOREM ReadsCurrent == CacheSpec => []ReadsAreCurrent
<1>1. CacheInv => ReadsAreCurrent
  BY DEF CacheInv, Kept
<1> QED
  BY <1>1, CacheInvariant, PTL

\* An agent that looks again finds what it has edited.
THEOREM EditsSeen == CacheSpec => []OwnEditsAreSeen
<1>1. CacheInv => OwnEditsAreSeen
  BY DEF CacheInv, Kept
<1> QED
  BY <1>1, CacheInvariant, PTL
=============================================================================
