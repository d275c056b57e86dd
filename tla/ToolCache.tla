----------------------------- MODULE ToolCache -----------------------------
(***************************************************************************)
(* The two caches between an agent and its files, as executeTool() uses    *)
(* them (tool/executor.ts).  The cache of tool results (tool/cache.ts over *)
(* util/lru-cache.ts) is asked before a tool runs, given its answer after  *)
(* it, and emptied of reads and searches when a file tool returns.  Below  *)
(* it the read tool (tool/built-in/read.ts) asks a cache of file contents  *)
(* (tool/semantic-cache.ts), which the imports of a file are also fetched  *)
(* into ahead of their reads.  The tools of one step run side by side,     *)
(* every worker thread has caches of its own, and others write files too.  *)
(*                                                                         *)
(* One file stands for the workspace, and its version for what any tool    *)
(* finds there: every change gives it a new version and a new stamp.  A    *)
(* thread serves one session, and the arguments of the calls of one tool   *)
(* are the same; others do not meet.                                       *)
(***************************************************************************)
EXTENDS Naturals

CONSTANTS
  Answers,     \* the calls of executeTool(), and the background prefetches
  Threads,     \* the main thread and the workers
  ThreadOf,
  ToolOf,      \* "read", "symbols", "grep" (or glob), "code_map" (or lsp),
               \* "edit" (or write), "patch" (apply_patch), "rewrite" (any
               \* other tool that writes: ast_edit, notebook_edit, bash), or
               \* "prefetch"
  Configs,     \* for which calls mtime_tool_cache may be on
  MaxSaves,    \* bound: changes made by anything else
  None

Cacheable == {"read", "symbols", "grep", "code_map"}
Stamped == {"read", "symbols"}   \* sourceStamp() knows the source
Invalidated == {"read", "grep"}
Writing == {"edit", "patch", "rewrite"}

ASSUME CacheAssumption ==
  /\ ThreadOf \in [Answers -> Threads]
  /\ ToolOf \in [Answers -> Cacheable \cup Writing \cup {"prefetch"}]
  /\ Configs \subseteq SUBSET Answers
  /\ MaxSaves \in Nat
  /\ None \notin Nat          \* no stamp is None

VARIABLES
  validates, \* the calls for which the feature mtime_tool_cache is on
  version, \* the version of the file
  cache,   \* tool results, per thread and tool: [seen, stamp, late], or None
  sem,     \* file contents, per thread: [seen, stamp, late], or None
  stage,
  got,     \* per running call: the version the tool has found
  held,    \* per running read: the entry of sem it asks stat() about, or None
  floor,   \* history, per running call: the version when it began
  own,     \* history, per running call: wrote of its thread when it began
  wrote,   \* history, per thread: the version the last edit that emptied its
           \* cache left behind
  old,     \* history: calls answered with less than floor
  blind,   \* history: calls answered with less than own
  spoiled, \* history: calls answered by an entry that was late when stored
  unchecked, \* history: calls answered by an entry whose stamp nobody compared
  saves

locals == <<got, held, floor, own>>
verdicts == <<old, blind, spoiled, unchecked>>
cacheVars == <<validates, version, cache, sem, stage, locals, wrote, verdicts, saves>>

CacheInit ==
  /\ validates \in Configs
  /\ version = 0
  /\ cache = [k \in Threads \X Cacheable |-> None]
  /\ sem = [t \in Threads |-> None]
  /\ stage = [c \in Answers |-> "idle"]
  /\ got = [c \in Answers |-> 0]
  /\ held = [c \in Answers |-> None]
  /\ floor = [c \in Answers |-> 0]
  /\ own = [c \in Answers |-> 0]
  /\ wrote = [t \in Threads |-> 0]
  /\ old = {} /\ blind = {} /\ spoiled = {} /\ unchecked = {}
  /\ saves = 0

Key(c) == <<ThreadOf[c], ToolOf[c]>>
Entry(c) == cache[Key(c)]

\* Mutant: the stamp is not compared.
ValidAnyway(c) == Entry(c) # None

\* The feature is on, and was when the entry was stored.
Checked(c) == Entry(c).stamp # None /\ c \in validates

Valid(c) == Entry(c) # None /\ (Checked(c) => Entry(c).stamp = version)

\* The content a call has came out of an entry of sem that was late.
HeldLate(c) == held[c] # None /\ held[c].late

Runs(c) ==
  /\ stage' = [stage EXCEPT ![c] = "running"]
  /\ floor' = [floor EXCEPT ![c] = version]
  /\ own' = [own EXCEPT ![c] = wrote[ThreadOf[c]]]
  /\ UNCHANGED <<validates, version, sem, got, held, wrote, verdicts, saves>>

Done(c) ==
  /\ stage' = [stage EXCEPT ![c] = "done"]
  /\ got' = [got EXCEPT ![c] = 0]
  /\ held' = [held EXCEPT ![c] = None]
  /\ floor' = [floor EXCEPT ![c] = 0]
  /\ own' = [own EXCEPT ![c] = 0]
  /\ UNCHANGED <<validates, version, saves>>

Judge(c, seen, late, atLeast, ownEdits) ==
  /\ old' = IF seen < atLeast THEN old \cup {c} ELSE old
  /\ blind' = IF seen < ownEdits THEN blind \cup {c} ELSE blind
  /\ spoiled' = IF late THEN spoiled \cup {c} ELSE spoiled

-----------------------------------------------------------------------------
(* The lookup before a tool runs *)

Hit(c) ==
  /\ stage[c] = "idle" /\ ToolOf[c] \in Cacheable /\ Valid(c)
  /\ Judge(c, Entry(c).seen, Entry(c).late, version, wrote[ThreadOf[c]])
  /\ unchecked' = IF Checked(c) THEN unchecked ELSE unchecked \cup {c}
  /\ Done(c)
  /\ UNCHANGED <<cache, sem, wrote>>

\* An entry whose stamp is not that of the file is dropped.
Miss(c) ==
  /\ stage[c] = "idle" /\ ToolOf[c] \in Cacheable /\ ~Valid(c)
  /\ cache' = [cache EXCEPT ![Key(c)] = None]
  /\ Runs(c)

Run(c) ==
  /\ stage[c] = "idle" /\ ToolOf[c] \in Writing
  /\ Runs(c)
  /\ UNCHANGED cache

-----------------------------------------------------------------------------
(* The read tool and the cache of file contents *)

GoesTo(c, to) ==
  /\ stage' = [stage EXCEPT ![c] = to]
  /\ UNCHANGED <<validates, version, cache, floor, own, wrote, verdicts, saves>>

\* The entry is taken before stat() is awaited.
AskSemantic(c) ==
  /\ stage[c] = "running" /\ ToolOf[c] = "read"
  /\ held' = [held EXCEPT ![c] = sem[ThreadOf[c]]]
  /\ GoesTo(c, IF sem[ThreadOf[c]] = None THEN "reading" ELSE "statting")
  /\ UNCHANGED <<sem, got>>

\* Mutant: the entry answers whatever its stamp.
AnswersAnyway(c) ==
  /\ stage[c] = "statting"
  /\ got' = [got EXCEPT ![c] = held[c].seen]
  /\ GoesTo(c, "returning")
  /\ UNCHANGED <<sem, held>>

SemanticAnswers(c) ==
  /\ stage[c] = "statting" /\ held[c].stamp = version
  /\ got' = [got EXCEPT ![c] = held[c].seen]
  /\ GoesTo(c, "returning")
  /\ UNCHANGED <<sem, held>>

\* stat() has found another stamp, or has failed.
SemanticDrops(c) ==
  /\ stage[c] = "statting"
  /\ sem' = [sem EXCEPT ![ThreadOf[c]] = None]
  /\ held' = [held EXCEPT ![c] = None]
  /\ GoesTo(c, "reading")
  /\ UNCHANGED got

\* A file that imports this one was read, and this one is not in the cache.
Prefetch(c) ==
  /\ stage[c] = "idle" /\ ToolOf[c] = "prefetch"
  /\ sem[ThreadOf[c]] = None
  /\ GoesTo(c, "reading")
  /\ UNCHANGED <<sem, got, held>>

ReadFile(c) ==
  /\ stage[c] = "reading"
  /\ got' = [got EXCEPT ![c] = version]
  /\ GoesTo(c, "storing")
  /\ UNCHANGED <<sem, held>>

\* The stamp is that of now, and not of when the file was read.
SemanticSet(c) ==
  /\ stage[c] = "storing"
  /\ sem' = [sem EXCEPT ![ThreadOf[c]] =
       [seen |-> got[c], late |-> got[c] # version, stamp |-> version]]
  /\ GoesTo(c, IF ToolOf[c] = "prefetch" THEN "done" ELSE "returning")
  /\ UNCHANGED <<got, held>>

-----------------------------------------------------------------------------
(* The other tools, and the answers *)

Look(c) ==
  /\ stage[c] = "running" /\ ToolOf[c] \in Cacheable \ {"read"}
  /\ got' = [got EXCEPT ![c] = version]
  /\ GoesTo(c, "returning")
  /\ UNCHANGED <<sem, held>>

\* The tool, or the prefetch, has failed: only answers without an error are
\* kept.  Or a tool that writes was refused before it began, by a lock say.
Fails(c) ==
  /\ stage[c] \in {"running", "reading", "storing"}
  /\ Done(c)
  /\ UNCHANGED <<cache, sem, wrote, verdicts>>

\* The stamp is taken here, and not when the tool looked; without the feature
\* there is none.
Store(c) ==
  /\ stage[c] = "returning" /\ ToolOf[c] \in Cacheable
  /\ cache' = [cache EXCEPT ![Key(c)] =
       [seen |-> got[c], late |-> got[c] # version \/ HeldLate(c),
        stamp |-> IF ToolOf[c] \in Stamped /\ c \in validates THEN version ELSE None]]
  /\ Judge(c, got[c], HeldLate(c), floor[c], own[c])
  /\ Done(c)
  /\ UNCHANGED <<sem, wrote, unchecked>>

\* The tool changes the file, or fails before it does.
Change(c) ==
  /\ stage[c] = "running" /\ ToolOf[c] \in Writing
  /\ version' \in {version, version + 1}
  /\ got' = [got EXCEPT ![c] = version']
  /\ stage' = [stage EXCEPT ![c] = "returning"]
  /\ UNCHANGED <<validates, cache, sem, held, floor, own, wrote, verdicts, saves>>

\* Mutant: only searches are invalidated.
ForgetSearches(t) == [k \in DOMAIN cache |-> IF k = <<t, "grep">> THEN None ELSE cache[k]]

Forget(t) ==
  [k \in DOMAIN cache |->
     IF k[1] = t /\ k[2] \in Invalidated THEN None ELSE cache[k]]

\* edit and write name their file even when they have failed.
ReturnEdit(c) ==
  /\ stage[c] = "returning" /\ ToolOf[c] \in {"edit", "patch"}
  /\ cache' = Forget(ThreadOf[c])
  /\ wrote' = [wrote EXCEPT ![ThreadOf[c]] = IF @ < got[c] THEN got[c] ELSE @]
  /\ Done(c)
  /\ UNCHANGED <<sem, verdicts>>

\* A failed apply_patch names no file, and no other tool empties the cache.
ReturnQuietly(c) ==
  /\ stage[c] = "returning" /\ ToolOf[c] \in {"patch", "rewrite"}
  /\ Done(c)
  /\ UNCHANGED <<cache, sem, wrote, verdicts>>

\* The time to live has passed, or 200 entries were used since.  A stamped
\* "read" has no time to live.
Expire(k) ==
  /\ cache[k] # None
  /\ cache' = [cache EXCEPT ![k] = None]
  /\ UNCHANGED <<validates, version, sem, stage, locals, wrote, verdicts, saves>>

\* The user, a command or another program writes the file.
SaveFile ==
  /\ saves < MaxSaves
  /\ version' = version + 1 /\ saves' = saves + 1
  /\ UNCHANGED <<validates, cache, sem, stage, locals, wrote, verdicts>>

CacheNext ==
  \/ \E c \in Answers :
       \/ Hit(c) \/ Miss(c) \/ Run(c)
       \/ AskSemantic(c) \/ SemanticAnswers(c) \/ SemanticDrops(c)
       \/ Prefetch(c) \/ ReadFile(c) \/ SemanticSet(c)
       \/ Look(c) \/ Fails(c) \/ Store(c)
       \/ Change(c) \/ ReturnEdit(c) \/ ReturnQuietly(c)
  \/ \E k \in DOMAIN cache : Expire(k)
  \/ SaveFile

CacheSpec == CacheInit /\ [][CacheNext]_cacheVars

-----------------------------------------------------------------------------
(* A read (or a symbol table) shows the file as it was at some moment of   *)
(* the call, whoever has changed it since it was cached: no older content  *)
(* that one of the two caches has kept.  Named exceptions: the file has    *)
(* changed between the read that filled an entry and the stat() that       *)
(* stamped it (cache.ts:88, semantic-cache.ts:40), and an entry stored or  *)
(* asked for while mtime_tool_cache is off.                                *)
ReadsAreCurrent ==
  \A c \in old : ToolOf[c] \in Stamped => c \in spoiled \cup unchecked

(* An agent that edits and then reads or searches again finds its edit,    *)
(* with stamps or without: the answer is not older than any edit or write, *)
(* or any patch that succeeded, of its thread that was over when the call  *)
(* began (with the first exception above).                                 *)
OwnEditsAreSeen ==
  \A c \in blind : ToolOf[c] \in Invalidated => c \in spoiled
=============================================================================
