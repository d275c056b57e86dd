--------------------------- MODULE McpManagerProofs ---------------------------
(***************************************************************************)
(* Proofs about McpManager for any calls of connect() and disconnect() and *)
(* any tools.  Calls that met are set aside by the properties, but not     *)
(* what they leave behind: the invariant says why it cannot harm the calls *)
(* that nobody met.                                                        *)
(***************************************************************************)
EXTENDS McpManager, TLAPS

-----------------------------------------------------------------------------
(* The inductive invariant *)

\* Either the last call is the only one that can be pending, or it met others
\* and all that are pending have met.
Alone ==
  /\ \A o \in raced : pc[o] # "idle"
  /\ last # None => pc[last] # "idle"
  /\ last \in raced => Pending \subseteq raced
  /\ last \notin raced => Pending \subseteq {last}

Connecting(c) == pc[c] \in {"opening", "listing", "cleanup"}

\* The entry under the name is of a connect() that has got as far as that.
Listed ==
  server # None =>
    IF server.status = "connecting" THEN server.tools = {} /\ Connecting(server.client)
    ELSE pc[server.client] = "done"

\* What a disconnect() has in its hands was announced, and is closed.
Taken(o) ==
  pc[o] = "detaching" =>
    /\ took[o] # None
    /\ Connecting(took[o].client) \/ pc[took[o].client] = "done"
    /\ took[o].client \in raced \/ link[took[o].client] \notin {"open", "gone"}

\* A connect() that meets nobody stays under its name.
Announced(c) ==
  c \notin raced /\ Connecting(c) =>
    /\ server # None /\ server.client = c
    /\ pc[c] = "listing" => link[c] \in {"open", "gone"}

\* Whoever is busy while the outcome of such a connect() stands took it.
Held ==
  server # None /\ server.client \notin raced /\ pc[server.client] = "done" =>
    \A o \in Pending : pc[o] = "detaching" /\ took[o] = server

\* What the last call has left behind.
Outcome ==
  last # None /\ last \notin raced /\ pc[last] = "done" =>
    IF last \in Disconnects THEN server = None
    ELSE server # None /\ server.client = last

IInv ==
  /\ TypeOK
  /\ Alone
  /\ Listed
  /\ \A o \in Ops : Taken(o)
  /\ \A c \in Connects : Announced(c)
  /\ Held
  /\ Outcome
  /\ ToolsAndServerAgree
  /\ NoClientLeaks

LEMMA InvInit == Init => IInv
<1> SUFFICES ASSUME Init PROVE IInv
  OBVIOUS
<1> USE McpAssumption DEF Init, Ops
<1>1. TypeOK
  BY DEF TypeOK
<1>2. Pending = {}
  BY DEF Pending
<1>3. Alone /\ Listed /\ Held /\ Outcome
  BY <1>2 DEF Alone, Listed, Held, Outcome
<1>4. (\A o \in Ops : Taken(o)) /\ \A c \in Connects : Announced(c)
  BY DEF Taken, Announced, Connecting
<1>5. ToolsAndServerAgree /\ NoClientLeaks
  BY DEF ToolsAndServerAgree, NoClientLeaks, Sound
<1> QED
  BY <1>1, <1>3, <1>4, <1>5 DEF IInv

-----------------------------------------------------------------------------
(* Types *)

LEMMA TypeStep == TypeOK /\ [Next]_vars => TypeOK'
<1> SUFFICES ASSUME TypeOK, [Next]_vars PROVE TypeOK'
  OBVIOUS
<1> USE McpAssumption DEF TypeOK, Goto, Ops
<1>1. ASSUME NEW o \in Ops, Begins(o) PROVE last' \in Ops \cup {None} /\ raced' \subseteq Ops /\ UNCHANGED <<registry, torn>>
  BY <1>1 DEF Begins, Pending
<1>2. ASSUME NEW o \in Ops, TakeEntry(o) PROVE TypeOK'
  <2>1. server \in Entries /\ server.client \in Connects
    BY <1>2 DEF TakeEntry, Entries
  <2>2. link' \in [Connects -> {"new", "open", "gone", "closing", "closed"}]
    BY <1>2, <2>1 DEF TakeEntry, Close
  <2> QED
    BY <1>1, <1>2, <2>1, <2>2 DEF TakeEntry
<1>3. ASSUME NEW o \in Ops, NothingToDisconnect(o) PROVE TypeOK'
  BY <1>1, <1>3 DEF NothingToDisconnect
<1>4. ASSUME NEW o \in Ops, Detach(o) PROVE TypeOK'
  BY <1>4 DEF Detach, Unregister
<1>5. ASSUME NEW c \in Connects, NEW ids \in SUBSET Tools, NEW st \in Statuses
      PROVE  Entry(c, ids, st) \in Entries
  BY DEF Entry, Entries
<1>6. ASSUME NEW c \in Connects, Announce(c) PROVE server' \in Entries \cup {None} /\ pc' \in [Ops -> {"idle", "detaching", "detached", "opening", "listing", "cleanup", "done"}]
  BY <1>5, <1>6 DEF Announce, Statuses
<1>7. ASSUME NEW c \in Connects, ConnectFresh(c) PROVE TypeOK'
  BY <1>1, <1>6, <1>7 DEF ConnectFresh
<1>8. ASSUME NEW c \in Connects, ConnectReplaces(c) PROVE TypeOK'
  BY <1>6, <1>8 DEF ConnectReplaces
<1>9. ASSUME NEW c \in Connects, Opens(c) \/ OpenFails(c) \/ CloseEnds(c) \/ ServerDies(c) PROVE TypeOK'
  BY <1>9 DEF Opens, OpenFails, CloseEnds, ServerDies
<1>10. ASSUME NEW c \in Connects, ConnectFails(c) PROVE TypeOK'
  BY <1>5, <1>10 DEF ConnectFails, Statuses
<1>11. ASSUME NEW c \in Connects, NEW ids \in SUBSET Tools, Registers(c, ids) PROVE TypeOK'
  BY <1>5, <1>11 DEF Registers, Statuses
<1>12. ASSUME NEW c \in Connects, NEW ids \in SUBSET Tools, RegisterFails(c, ids) PROVE TypeOK'
  BY <1>12 DEF RegisterFails, Close
<1>13. CASE UNCHANGED vars
  BY <1>13 DEF vars
<1> QED
  BY <1>2, <1>3, <1>4, <1>7, <1>8, <1>9, <1>10, <1>11, <1>12, <1>13 DEF Next

-----------------------------------------------------------------------------
(* Who is busy *)

\* A call moves on.
LEMMA Moves ==
  ASSUME TypeOK, NEW o \in Ops, NEW l, Goto(o, l)
  PROVE  /\ pc'[o] = l
         /\ \A q \in Ops \ {o} : pc'[q] = pc[q]
         /\ Pending' = (Pending \ {o}) \cup (IF l \in {"idle", "done"} THEN {} ELSE {o})
<1>1. \A q \in Ops : pc'[q] = IF q = o THEN l ELSE pc[q]
  BY DEF Goto, TypeOK
<1> QED
  BY <1>1 DEF Pending

\* The last call is one of those that are alone with what they do, or of those
\* that have met: a call of either kind that moves on changes nothing of that.
LEMMA AloneGoesOn ==
  ASSUME Alone, NEW o \in Pending, Pending' \subseteq Pending,
         UNCHANGED <<last, raced>>, \A q \in Ops \ {o} : pc'[q] = pc[q], pc'[o] # "idle",
         TypeOK
  PROVE  Alone' /\ (o \notin raced => Pending = {o} /\ last = o)
BY DEF Alone, Pending, TypeOK

\* A call that begins alone is the last and the only one.
LEMMA AloneBegins ==
  ASSUME TypeOK, Alone, NEW o \in Ops, Begins(o), NEW l, l # "idle", Goto(o, l)
  PROVE  /\ Alone'
         /\ raced \subseteq raced'
         /\ Pending \subseteq raced'
         /\ o \notin raced' => Pending = {}
         /\ o \notin raced /\ o \notin Pending
         /\ raced' \subseteq raced \cup Pending \cup {o}
<1>1. o \notin raced /\ o \notin Pending
  BY DEF Alone, Begins, Pending
<1>2. /\ \A q \in Ops \ {o} : pc'[q] = pc[q]
      /\ pc'[o] = l
      /\ Pending' \subseteq Pending \cup {o}
  BY Moves
<1> QED
  BY <1>1, <1>2 DEF Alone, Begins, Pending, TypeOK

\* Nobody but a disconnect() is busy while an unmet connect() stands, so
\* whoever opens, lists or fails finds nothing of it.
LEMMA NothingStands ==
  ASSUME IInv, NEW o \in Pending, pc[o] # "detaching"
  PROVE  /\ server # None /\ server.client \notin raced => pc[server.client] # "done"
         /\ \A t \in Tools : registry[t] \notin Sound
         /\ \A c \in Connects \ raced : link[c] = "open" => c = o
<1>1. server # None /\ server.client \notin raced => pc[server.client] # "done"
  BY DEF IInv, Held
<1>2. ASSUME NEW t \in Tools, registry[t] \in Sound PROVE FALSE
  BY <1>1, <1>2 DEF IInv, ToolsAndServerAgree, Listed, Sound
<1>3. ASSUME NEW c \in Connects \ raced, link[c] = "open" PROVE c = o
  <2>1. server # None /\ server.client = c
    BY <1>3 DEF IInv, NoClientLeaks
  <2>2. c \in Pending
    BY <1>1, <2>1 DEF IInv, Listed, Connecting, Pending, Ops
  <2> QED
    BY <2>2 DEF IInv, Alone
<1> QED
  BY <1>1, <1>2, <1>3

\* Two calls that are pending have met.
LEMMA TwoHaveMet ==
  ASSUME IInv, NEW o \in Pending
  PROVE  /\ \A q \in Pending \ {o} : q \in raced /\ o \in raced
         /\ last \notin raced => last = o
BY DEF IInv, Alone

-----------------------------------------------------------------------------
(* What each step preserves *)

\* All of IInv but for the types.
Kept ==
  /\ Alone /\ Listed /\ Held /\ Outcome
  /\ \A o \in Ops : Taken(o)
  /\ \A c \in Connects : Announced(c)
  /\ ToolsAndServerAgree /\ NoClientLeaks

\* A disconnect() begins, of its own or for a connect().
LEMMA TakeEntryKeeps ==
  ASSUME IInv, TypeOK', NEW o \in Ops, TakeEntry(o)
  PROVE  Kept'
<1> USE McpAssumption DEF Ops
<1>t. TypeOK
  BY DEF IInv
<1>a. /\ \A q \in Ops \ {o} : pc'[q] = pc[q]
      /\ pc'[o] = "detaching" /\ pc[o] = "idle"
      /\ Pending' \subseteq Pending \cup {o}
  BY <1>t, Moves DEF TakeEntry, Goto, Begins
<1>b. /\ Alone' /\ raced \subseteq raced' /\ Pending \subseteq raced'
      /\ o \notin raced' => Pending = {}
      /\ last' = o /\ registry' = registry /\ torn' = torn
  BY <1>t, AloneBegins DEF IInv, TakeEntry, Goto, Begins
<1>c. Sound' \subseteq Sound
  BY <1>b DEF Sound
<1>Alone. Alone'
  BY <1>b
<1>d. server \in Entries /\ server # None /\ server.client \in Connects /\ server.client # o
  BY <1>a, <1>t DEF TakeEntry, TypeOK, Entries, IInv, Listed, Connecting
<1>e. /\ server' = server /\ \A q \in Ops : took'[q] = IF q = o THEN server ELSE took[q]
      /\ \A c \in Connects : link'[c] = IF c = server.client /\ link[c] \in {"open", "gone"} THEN "closing" ELSE link[c]
  BY <1>d, <1>t DEF TakeEntry, Close, TypeOK
<1>Listed. Listed'
  BY <1>a, <1>d, <1>e DEF IInv, Listed, Connecting
<1>Taken. ASSUME NEW q \in Ops PROVE Taken(q)'
  <2>1. CASE q = o
    BY <1>a, <1>d, <1>e, <2>1 DEF IInv, Listed, Taken, Connecting
  <2>2. CASE q # o
    <3> SUFFICES ASSUME pc[q] = "detaching" PROVE Taken(q)'
      BY <1>a, <2>2 DEF Taken
    <3>1. took[q] # None /\ took[q] \in Entries /\ took[q].client \in Connects
      BY <1>t DEF IInv, Taken, TypeOK, Entries
    <3>2. took[q].client # o
      BY <1>a DEF IInv, Taken, Connecting
    <3> QED
      BY <1>a, <1>b, <1>e, <2>2, <3>1, <3>2 DEF IInv, Taken, Connecting
  <2> QED
    BY <2>1, <2>2
<1>Announced. ASSUME NEW c \in Connects PROVE Announced(c)'
  BY <1>a, <1>b DEF Announced, Connecting, Pending
<1>Held. Held'
  BY <1>a, <1>b, <1>d, <1>e DEF IInv, Held, Pending
<1>Outcome. Outcome'
  BY <1>a, <1>b DEF Outcome
<1>Agree. ToolsAndServerAgree'
  BY <1>a, <1>b, <1>c, <1>d, <1>e DEF IInv, ToolsAndServerAgree
<1>Leaks. NoClientLeaks'
  BY <1>b, <1>e DEF IInv, NoClientLeaks
<1> QED
  BY <1>Alone, <1>Listed, <1>Held, <1>Outcome, <1>Taken, <1>Announced, <1>Agree, <1>Leaks DEF Kept

\* A disconnect() finds nothing.
LEMMA NothingToDisconnectKeeps ==
  ASSUME IInv, TypeOK', NEW o \in Ops, NothingToDisconnect(o)
  PROVE  Kept'
<1> USE McpAssumption DEF Ops
<1>t. TypeOK
  BY DEF IInv
<1>a. /\ \A q \in Ops \ {o} : pc'[q] = pc[q]
      /\ pc'[o] = "done" /\ pc[o] = "idle"
      /\ Pending' \subseteq Pending \cup {o}
  BY <1>t, Moves DEF NothingToDisconnect, Begins
<1>b. /\ Alone' /\ raced \subseteq raced' /\ Pending \subseteq raced'
      /\ o \notin raced' => Pending = {}
      /\ last' = o /\ registry' = registry /\ torn' = torn
  BY <1>t, AloneBegins DEF IInv, NothingToDisconnect, Begins
<1>c. Sound' \subseteq Sound
  BY <1>b DEF Sound
<1>Alone. Alone'
  BY <1>b
<1>d. o \in Disconnects /\ server = None /\ UNCHANGED <<took, server, link>>
  BY DEF NothingToDisconnect
<1>Listed. Listed'
  BY <1>d DEF Listed
<1>Taken. ASSUME NEW q \in Ops PROVE Taken(q)'
  BY <1>a, <1>b, <1>d, <1>t DEF IInv, Taken, Connecting, TypeOK, Entries
<1>Announced. ASSUME NEW c \in Connects PROVE Announced(c)'
  BY <1>a, <1>b DEF Announced, Connecting, Pending
<1>Held. Held'
  BY <1>d DEF Held
<1>Outcome. Outcome'
  BY <1>a, <1>b, <1>d DEF Outcome
<1>Agree. ToolsAndServerAgree'
  BY <1>b, <1>c, <1>d DEF IInv, ToolsAndServerAgree
<1>Leaks. NoClientLeaks'
  BY <1>b, <1>d DEF IInv, NoClientLeaks
<1> QED
  BY <1>Alone, <1>Listed, <1>Held, <1>Outcome, <1>Taken, <1>Announced, <1>Agree, <1>Leaks DEF Kept

\* A connect() finds no entry.
LEMMA ConnectFreshKeeps ==
  ASSUME IInv, TypeOK', NEW c \in Connects, ConnectFresh(c)
  PROVE  Kept'
<1> USE McpAssumption DEF Ops
<1>t. TypeOK
  BY DEF IInv
<1>a. /\ \A q \in Ops \ {c} : pc'[q] = pc[q]
      /\ pc'[c] = "opening" /\ pc[c] = "idle"
      /\ Pending' \subseteq Pending \cup {c}
  BY <1>t, Moves DEF ConnectFresh, Announce, Begins
<1>b. /\ Alone' /\ raced \subseteq raced' /\ Pending \subseteq raced'
      /\ c \notin raced' => Pending = {}
      /\ last' = c /\ registry' = registry /\ torn' = torn
  BY <1>t, AloneBegins DEF IInv, ConnectFresh, Announce, Begins
<1>c. Sound' \subseteq Sound
  BY <1>b DEF Sound
<1>Alone. Alone'
  BY <1>b
<1>d. server = None /\ took' = took /\ link' = link
      /\ server' = Entry(c, {}, "connecting")
  BY DEF ConnectFresh, Announce
<1>e. server' # None /\ server'.client = c /\ server'.tools = {} /\ server'.status = "connecting"
  BY <1>d DEF Entry, Entries, Statuses
<1>Listed. Listed'
  BY <1>a, <1>e DEF Listed, Connecting
<1>Taken. ASSUME NEW q \in Ops PROVE Taken(q)'
  BY <1>a, <1>b, <1>d, <1>t DEF IInv, Taken, Connecting, TypeOK, Entries
<1>Announced. ASSUME NEW q \in Connects PROVE Announced(q)'
  BY <1>a, <1>b, <1>e DEF Announced, Connecting, Pending
<1>Held. Held'
  BY <1>a, <1>e DEF Held
<1>Outcome. Outcome'
  BY <1>a, <1>b DEF Outcome
<1>Agree. ToolsAndServerAgree'
  BY <1>b, <1>c, <1>d, <1>e DEF IInv, ToolsAndServerAgree
<1>Leaks. NoClientLeaks'
  BY <1>b, <1>d DEF IInv, NoClientLeaks
<1> QED
  BY <1>Alone, <1>Listed, <1>Held, <1>Outcome, <1>Taken, <1>Announced, <1>Agree, <1>Leaks DEF Kept

\* The close is over or the second it is given.
LEMMA DetachKeeps ==
  ASSUME IInv, TypeOK', NEW o \in Ops, Detach(o)
  PROVE  Kept'
<1> USE McpAssumption DEF Ops
<1>t. TypeOK
  BY DEF IInv
<1>a. /\ \A q \in Ops \ {o} : pc'[q] = pc[q]
      /\ pc'[o] = (IF o \in Connects THEN "detached" ELSE "done") /\ pc[o] = "detaching" /\ o \in Pending
      /\ Pending' \subseteq Pending 
  BY <1>t, Moves DEF Detach, Pending
<1>b. Alone' /\ (o \notin raced => Pending = {o}) /\ last' = last /\ raced' = raced
  BY <1>a, <1>t, AloneGoesOn DEF IInv, Detach
<1>m. /\ \A q \in Pending \ {o} : q \in raced /\ o \in raced
      /\ last \notin raced => last = o
  BY <1>a, TwoHaveMet
<1>Alone. Alone'
  BY <1>b
<1>d. /\ server' = None /\ link' = link /\ torn' = torn
      /\ \A q \in Ops \ {o} : took'[q] = took[q]
      /\ \A t \in Tools : registry'[t] = IF t \in took[o].tools THEN None ELSE registry[t]
  BY <1>t DEF Detach, Unregister, TypeOK
<1>e. server # None /\ server.client \notin raced /\ pc[server.client] = "done" => took[o] = server
  BY <1>a DEF IInv, Held
<1>f. server # None => server \in Entries /\ server.client \in Connects
  BY <1>t DEF TypeOK, Entries
<1>Listed. Listed'
  BY <1>d DEF Listed
<1>Taken. ASSUME NEW q \in Ops PROVE Taken(q)'
  BY <1>a, <1>b, <1>d, <1>t DEF IInv, Taken, Connecting, TypeOK, Entries
<1>Announced. ASSUME NEW c \in Connects PROVE Announced(c)'
  BY <1>a, <1>b, <1>m DEF Announced, Connecting, Pending
<1>Held. Held'
  BY <1>d DEF Held
<1>Outcome. Outcome'
  BY <1>a, <1>b, <1>d, <1>m DEF Outcome
<1>Agree. ToolsAndServerAgree'
  <2> SUFFICES ASSUME NEW t \in Tools, registry'[t] \in Sound PROVE FALSE
    BY <1>b, <1>d DEF ToolsAndServerAgree, Sound
  <2>1. t \notin took[o].tools /\ registry[t] \in Sound
    BY <1>d DEF Sound
  <2>2. server # None /\ server.client \in Sound /\ t \in server.tools
    BY <2>1 DEF IInv, ToolsAndServerAgree
  <2>3. pc[server.client] = "done"
    BY <2>2 DEF IInv, Listed
  <2> QED
    BY <1>e, <2>1, <2>2, <2>3 DEF Sound
<1>Leaks. NoClientLeaks'
  <2> SUFFICES ASSUME NEW c \in Connects \ raced, link[c] = "open" PROVE FALSE
    BY <1>b, <1>d DEF NoClientLeaks
  <2>1. server # None /\ server.client = c
    BY DEF IInv, NoClientLeaks
  <2>2. CASE pc[c] = "done"
    BY <1>a, <1>e, <2>1, <2>2 DEF IInv, Taken
  <2>3. CASE pc[c] # "done"
    <3>1. Connecting(c)
      BY <2>1, <2>3 DEF IInv, Listed
    <3> QED
      BY <1>a, <1>m, <3>1 DEF Connecting, Pending
  <2> QED
    BY <2>2, <2>3
<1> QED
  BY <1>Alone, <1>Listed, <1>Held, <1>Outcome, <1>Taken, <1>Announced, <1>Agree, <1>Leaks DEF Kept

\* A client is closed.
LEMMA CloseEndsKeeps ==
  ASSUME IInv, TypeOK', NEW c \in Connects, CloseEnds(c)
  PROVE  Kept'
<1> USE McpAssumption DEF Ops
<1>t. TypeOK
  BY DEF IInv
<1>a. /\ link[c] = "closing" /\ UNCHANGED <<pc, took, server, registry, last, raced, torn>>
      /\ \A q \in Connects : link'[q] = IF q = c THEN "closed" ELSE link[q]
  BY <1>t DEF CloseEnds, TypeOK
<1>b. Pending' = Pending
  BY <1>a DEF Pending
<1>Alone. Alone'
  BY <1>a, <1>b DEF IInv, Alone
<1>Listed. Listed'
  BY <1>a DEF IInv, Listed, Connecting
<1>Taken. ASSUME NEW q \in Ops PROVE Taken(q)'
  BY <1>a, <1>t DEF IInv, Taken, Connecting, TypeOK, Entries
<1>Announced. ASSUME NEW q \in Connects PROVE Announced(q)'
  BY <1>a DEF IInv, Announced, Connecting
<1>Held. Held'
  BY <1>a, <1>b DEF IInv, Held
<1>Outcome. Outcome'
  BY <1>a DEF IInv, Outcome
<1>Agree. ToolsAndServerAgree'
  BY <1>a, <1>t DEF IInv, ToolsAndServerAgree, Sound, TypeOK, Entries
<1>Leaks. NoClientLeaks'
  BY <1>a DEF IInv, NoClientLeaks
<1> QED
  BY <1>Alone, <1>Listed, <1>Held, <1>Outcome, <1>Taken, <1>Announced, <1>Agree, <1>Leaks DEF Kept

\* A server goes.
LEMMA ServerDiesKeeps ==
  ASSUME IInv, TypeOK', NEW c \in Connects, ServerDies(c)
  PROVE  Kept'
<1> USE McpAssumption DEF Ops
<1>t. TypeOK
  BY DEF IInv
<1>a. /\ link[c] = "open" /\ UNCHANGED <<pc, took, server, registry, last, raced, torn>>
      /\ \A q \in Connects : link'[q] = IF q = c THEN "gone" ELSE link[q]
  BY <1>t DEF ServerDies, TypeOK
<1>b. Pending' = Pending
  BY <1>a DEF Pending
<1>Alone. Alone'
  BY <1>a, <1>b DEF IInv, Alone
<1>Listed. Listed'
  BY <1>a DEF IInv, Listed, Connecting
<1>Taken. ASSUME NEW q \in Ops PROVE Taken(q)'
  BY <1>a, <1>t DEF IInv, Taken, Connecting, TypeOK, Entries
<1>Announced. ASSUME NEW q \in Connects PROVE Announced(q)'
  BY <1>a DEF IInv, Announced, Connecting
<1>Held. Held'
  BY <1>a, <1>b DEF IInv, Held
<1>Outcome. Outcome'
  BY <1>a DEF IInv, Outcome
<1>Agree. ToolsAndServerAgree'
  BY <1>a, <1>t DEF IInv, ToolsAndServerAgree, Sound, TypeOK, Entries
<1>Leaks. NoClientLeaks'
  BY <1>a DEF IInv, NoClientLeaks
<1> QED
  BY <1>Alone, <1>Listed, <1>Held, <1>Outcome, <1>Taken, <1>Announced, <1>Agree, <1>Leaks DEF Kept

\* A connect() goes on after its disconnect().
LEMMA ConnectReplacesKeeps ==
  ASSUME IInv, TypeOK', NEW c \in Connects, ConnectReplaces(c)
  PROVE  Kept'
<1> USE McpAssumption DEF Ops
<1>t. TypeOK
  BY DEF IInv
<1>a. /\ \A q \in Ops \ {c} : pc'[q] = pc[q]
      /\ pc'[c] = "opening" /\ pc[c] = "detached" /\ c \in Pending
      /\ Pending' \subseteq Pending 
  BY <1>t, Moves DEF ConnectReplaces, Announce, Pending
<1>b. Alone' /\ (c \notin raced => Pending = {c}) /\ last' = last /\ raced' = raced
  BY <1>a, <1>t, AloneGoesOn DEF IInv, ConnectReplaces, Announce
<1>m. /\ \A q \in Pending \ {c} : q \in raced /\ c \in raced
      /\ last \notin raced => last = c
  BY <1>a, TwoHaveMet
<1>Alone. Alone'
  BY <1>b
<1>n. /\ server # None /\ server.client \notin raced => pc[server.client] # "done"
      /\ \A t \in Tools : registry[t] \notin Sound
      /\ \A q \in Connects \ raced : link[q] = "open" => q = c
  BY <1>a, NothingStands
<1>d. UNCHANGED <<took, registry, link, torn>> /\ server' = Entry(c, {}, "connecting")
  BY DEF ConnectReplaces, Announce
<1>e. server' # None /\ server'.client = c /\ server'.tools = {} /\ server'.status = "connecting"
  BY <1>d DEF Entry, Entries, Statuses
<1>Listed. Listed'
  BY <1>a, <1>e DEF Listed, Connecting
<1>Taken. ASSUME NEW q \in Ops PROVE Taken(q)'
  BY <1>a, <1>b, <1>d, <1>m, <1>t DEF IInv, Taken, Connecting, Pending, TypeOK, Entries
<1>Announced. ASSUME NEW q \in Connects PROVE Announced(q)'
  BY <1>a, <1>b, <1>d, <1>e, <1>m DEF IInv, Announced, Connecting, Pending
<1>Held. Held'
  BY <1>a, <1>e DEF Held
<1>Outcome. Outcome'
  BY <1>a, <1>b, <1>d, <1>m DEF Outcome
<1>Agree. ToolsAndServerAgree'
  BY <1>b, <1>d, <1>e, <1>n DEF ToolsAndServerAgree, Sound
<1>Leaks. NoClientLeaks'
  BY <1>b, <1>d, <1>e, <1>n DEF NoClientLeaks
<1> QED
  BY <1>Alone, <1>Listed, <1>Held, <1>Outcome, <1>Taken, <1>Announced, <1>Agree, <1>Leaks DEF Kept

\* The connection opens.
LEMMA OpensKeeps ==
  ASSUME IInv, TypeOK', NEW c \in Connects, Opens(c)
  PROVE  Kept'
<1> USE McpAssumption DEF Ops
<1>t. TypeOK
  BY DEF IInv
<1>a. /\ \A q \in Ops \ {c} : pc'[q] = pc[q]
      /\ pc'[c] = "listing" /\ pc[c] = "opening" /\ c \in Pending
      /\ Pending' \subseteq Pending 
  BY <1>t, Moves DEF Opens, Pending
<1>b. Alone' /\ (c \notin raced => Pending = {c}) /\ last' = last /\ raced' = raced
  BY <1>a, <1>t, AloneGoesOn DEF IInv, Opens
<1>m. /\ \A q \in Pending \ {c} : q \in raced /\ c \in raced
      /\ last \notin raced => last = c
  BY <1>a, TwoHaveMet
<1>Alone. Alone'
  BY <1>b
<1>n. /\ server # None /\ server.client \notin raced => pc[server.client] # "done"
      /\ \A t \in Tools : registry[t] \notin Sound
      /\ \A q \in Connects \ raced : link[q] = "open" => q = c
  BY <1>a, NothingStands
<1>d. UNCHANGED <<took, server, registry, torn>>
      /\ \A q \in Connects : link'[q] = IF q = c THEN "open" ELSE link[q]
  BY <1>t DEF Opens, TypeOK
<1>Listed. Listed'
  BY <1>a, <1>d, <1>t DEF IInv, Listed, Connecting, TypeOK, Entries
<1>Taken. ASSUME NEW q \in Ops PROVE Taken(q)'
  BY <1>a, <1>b, <1>d, <1>m, <1>t DEF IInv, Taken, Connecting, Pending, TypeOK, Entries
<1>Announced. ASSUME NEW q \in Connects PROVE Announced(q)'
  BY <1>a, <1>b, <1>d, <1>m DEF IInv, Announced, Connecting, Pending
<1>Held. Held'
  BY <1>a, <1>b, <1>d, <1>n, <1>t DEF Held, TypeOK, Entries
<1>Outcome. Outcome'
  BY <1>a, <1>b, <1>d, <1>m DEF Outcome
<1>Agree. ToolsAndServerAgree'
  BY <1>b, <1>d, <1>n DEF IInv, Listed, ToolsAndServerAgree, Sound
<1>Leaks. NoClientLeaks'
  BY <1>a, <1>b, <1>d, <1>n DEF IInv, Announced, Connecting, NoClientLeaks
<1> QED
  BY <1>Alone, <1>Listed, <1>Held, <1>Outcome, <1>Taken, <1>Announced, <1>Agree, <1>Leaks DEF Kept

\* The connection does not open.
LEMMA OpenFailsKeeps ==
  ASSUME IInv, TypeOK', NEW c \in Connects, OpenFails(c)
  PROVE  Kept'
<1> USE McpAssumption DEF Ops
<1>t. TypeOK
  BY DEF IInv
<1>a. /\ \A q \in Ops \ {c} : pc'[q] = pc[q]
      /\ pc'[c] = "cleanup" /\ pc[c] = "opening" /\ c \in Pending
      /\ Pending' \subseteq Pending 
  BY <1>t, Moves DEF OpenFails, Pending
<1>b. Alone' /\ (c \notin raced => Pending = {c}) /\ last' = last /\ raced' = raced
  BY <1>a, <1>t, AloneGoesOn DEF IInv, OpenFails
<1>m. /\ \A q \in Pending \ {c} : q \in raced /\ c \in raced
      /\ last \notin raced => last = c
  BY <1>a, TwoHaveMet
<1>Alone. Alone'
  BY <1>b
<1>n. /\ server # None /\ server.client \notin raced => pc[server.client] # "done"
      /\ \A t \in Tools : registry[t] \notin Sound
      /\ \A q \in Connects \ raced : link[q] = "open" => q = c
  BY <1>a, NothingStands
<1>d. UNCHANGED <<took, server, registry, link, torn>>
  BY DEF OpenFails
<1>Listed. Listed'
  BY <1>a, <1>d, <1>t DEF IInv, Listed, Connecting, TypeOK, Entries
<1>Taken. ASSUME NEW q \in Ops PROVE Taken(q)'
  BY <1>a, <1>b, <1>d, <1>m, <1>t DEF IInv, Taken, Connecting, Pending, TypeOK, Entries
<1>Announced. ASSUME NEW q \in Connects PROVE Announced(q)'
  BY <1>a, <1>b, <1>d, <1>m DEF IInv, Announced, Connecting, Pending
<1>Held. Held'
  BY <1>a, <1>b, <1>d, <1>n, <1>t DEF Held, TypeOK, Entries
<1>Outcome. Outcome'
  BY <1>a, <1>b, <1>d, <1>m DEF Outcome
<1>Agree. ToolsAndServerAgree'
  BY <1>b, <1>d, <1>n DEF IInv, Listed, ToolsAndServerAgree, Sound
<1>Leaks. NoClientLeaks'
  BY <1>a, <1>b, <1>d, <1>n DEF IInv, Announced, Connecting, NoClientLeaks
<1> QED
  BY <1>Alone, <1>Listed, <1>Held, <1>Outcome, <1>Taken, <1>Announced, <1>Agree, <1>Leaks DEF Kept

\* The tools are registered.
LEMMA RegistersKeeps ==
  ASSUME IInv, TypeOK', NEW c \in Connects, NEW ids \in SUBSET Tools, Registers(c, ids)
  PROVE  Kept'
<1> USE McpAssumption DEF Ops
<1>t. TypeOK
  BY DEF IInv
<1>a. /\ \A q \in Ops \ {c} : pc'[q] = pc[q]
      /\ pc'[c] = "done" /\ pc[c] = "listing" /\ c \in Pending
      /\ Pending' \subseteq Pending \ {c}
  BY <1>t, Moves DEF Registers, Pending
<1>b. Alone' /\ (c \notin raced => Pending = {c}) /\ last' = last /\ raced' = raced
  BY <1>a, <1>t, AloneGoesOn DEF IInv, Registers
<1>m. /\ \A q \in Pending \ {c} : q \in raced /\ c \in raced
      /\ last \notin raced => last = c
  BY <1>a, TwoHaveMet
<1>Alone. Alone'
  BY <1>b
<1>n. /\ server # None /\ server.client \notin raced => pc[server.client] # "done"
      /\ \A t \in Tools : registry[t] \notin Sound
      /\ \A q \in Connects \ raced : link[q] = "open" => q = c
  BY <1>a, NothingStands
<1>d. /\ UNCHANGED <<took, link, torn>> /\ server' = Entry(c, ids, "connected")
      /\ \A t \in Tools : registry'[t] = IF t \in ids THEN c ELSE registry[t]
  BY <1>t DEF Registers, TypeOK
<1>e. server' # None /\ server'.client = c /\ server'.tools = ids /\ server'.status = "connected"
  BY <1>d DEF Entry, Entries, Statuses
<1>Listed. Listed'
  BY <1>a, <1>e DEF Listed
<1>Taken. ASSUME NEW q \in Ops PROVE Taken(q)'
  BY <1>a, <1>b, <1>d, <1>m, <1>t DEF IInv, Taken, Connecting, Pending, TypeOK, Entries
<1>Announced. ASSUME NEW q \in Connects PROVE Announced(q)'
  BY <1>a, <1>b, <1>d, <1>m DEF IInv, Announced, Connecting, Pending
<1>Held. Held'
  BY <1>a, <1>b, <1>e DEF Held
<1>Outcome. Outcome'
  BY <1>a, <1>b, <1>e, <1>m DEF Outcome
<1>Agree. ToolsAndServerAgree'
  <2>1. c \notin raced => link[c] \in {"open", "gone"}
    BY <1>a DEF IInv, Announced, Connecting
  <2> QED
    BY <1>b, <1>d, <1>e, <1>n, <2>1 DEF ToolsAndServerAgree, Sound
<1>Leaks. NoClientLeaks'
  BY <1>b, <1>d, <1>e, <1>n DEF NoClientLeaks
<1> QED
  BY <1>Alone, <1>Listed, <1>Held, <1>Outcome, <1>Taken, <1>Announced, <1>Agree, <1>Leaks DEF Kept

\* The registration fails.
LEMMA RegisterFailsKeeps ==
  ASSUME IInv, TypeOK', NEW c \in Connects, NEW ids \in SUBSET Tools, RegisterFails(c, ids)
  PROVE  Kept'
<1> USE McpAssumption DEF Ops
<1>t. TypeOK
  BY DEF IInv
<1>a. /\ \A q \in Ops \ {c} : pc'[q] = pc[q]
      /\ pc'[c] = "cleanup" /\ pc[c] = "listing" /\ c \in Pending
      /\ Pending' \subseteq Pending 
  BY <1>t, Moves DEF RegisterFails, Pending
<1>b. Alone' /\ (c \notin raced => Pending = {c}) /\ last' = last /\ raced' = raced
  BY <1>a, <1>t, AloneGoesOn DEF IInv, RegisterFails
<1>m. /\ \A q \in Pending \ {c} : q \in raced /\ c \in raced
      /\ last \notin raced => last = c
  BY <1>a, TwoHaveMet
<1>Alone. Alone'
  BY <1>b
<1>n. /\ server # None /\ server.client \notin raced => pc[server.client] # "done"
      /\ \A t \in Tools : registry[t] \notin Sound
      /\ \A q \in Connects \ raced : link[q] = "open" => q = c
  BY <1>a, NothingStands
<1>d. /\ UNCHANGED <<took, server>>
      /\ \A t \in Tools : registry'[t] = IF t \in ids THEN c ELSE registry[t]
      /\ torn \subseteq torn' /\ (ids # {} => c \in torn')
      /\ \A q \in Connects : link'[q] = IF q = c /\ link[q] \in {"open", "gone"} THEN "closing" ELSE link[q]
  BY <1>t DEF RegisterFails, Close, TypeOK
<1>Listed. Listed'
  BY <1>a, <1>d, <1>t DEF IInv, Listed, Connecting, TypeOK, Entries
<1>Taken. ASSUME NEW q \in Ops PROVE Taken(q)'
  BY <1>a, <1>b, <1>d, <1>m, <1>t DEF IInv, Taken, Connecting, Pending, TypeOK, Entries
<1>Announced. ASSUME NEW q \in Connects PROVE Announced(q)'
  BY <1>a, <1>b, <1>d, <1>m DEF IInv, Announced, Connecting, Pending
<1>Held. Held'
  BY <1>a, <1>b, <1>d, <1>n, <1>t DEF Held, TypeOK, Entries
<1>Outcome. Outcome'
  BY <1>a, <1>b, <1>d, <1>m DEF Outcome
<1>Agree. ToolsAndServerAgree'
  BY <1>b, <1>d, <1>n DEF IInv, Listed, ToolsAndServerAgree, Sound
<1>Leaks. NoClientLeaks'
  BY <1>a, <1>b, <1>d, <1>n DEF IInv, Announced, Connecting, NoClientLeaks
<1> QED
  BY <1>Alone, <1>Listed, <1>Held, <1>Outcome, <1>Taken, <1>Announced, <1>Agree, <1>Leaks DEF Kept

\* A connect() gives up.
LEMMA ConnectFailsKeeps ==
  ASSUME IInv, TypeOK', NEW c \in Connects, ConnectFails(c)
  PROVE  Kept'
<1> USE McpAssumption DEF Ops
<1>t. TypeOK
  BY DEF IInv
<1>a. /\ \A q \in Ops \ {c} : pc'[q] = pc[q]
      /\ pc'[c] = "done" /\ pc[c] = "cleanup" /\ c \in Pending
      /\ Pending' \subseteq Pending \ {c}
  BY <1>t, Moves DEF ConnectFails, Pending
<1>b. Alone' /\ (c \notin raced => Pending = {c}) /\ last' = last /\ raced' = raced
  BY <1>a, <1>t, AloneGoesOn DEF IInv, ConnectFails
<1>m. /\ \A q \in Pending \ {c} : q \in raced /\ c \in raced
      /\ last \notin raced => last = c
  BY <1>a, TwoHaveMet
<1>Alone. Alone'
  BY <1>b
<1>n. /\ server # None /\ server.client \notin raced => pc[server.client] # "done"
      /\ \A t \in Tools : registry[t] \notin Sound
      /\ \A q \in Connects \ raced : link[q] = "open" => q = c
  BY <1>a, NothingStands
<1>d. UNCHANGED <<took, registry, link, torn>> /\ server' = Entry(c, {}, "error")
  BY DEF ConnectFails
<1>e. server' # None /\ server'.client = c /\ server'.tools = {} /\ server'.status = "error"
  BY <1>d DEF Entry, Entries, Statuses
<1>Listed. Listed'
  BY <1>a, <1>e DEF Listed
<1>Taken. ASSUME NEW q \in Ops PROVE Taken(q)'
  BY <1>a, <1>b, <1>d, <1>m, <1>t DEF IInv, Taken, Connecting, Pending, TypeOK, Entries
<1>Announced. ASSUME NEW q \in Connects PROVE Announced(q)'
  BY <1>a, <1>b, <1>d, <1>m DEF IInv, Announced, Connecting, Pending
<1>Held. Held'
  BY <1>a, <1>b, <1>e DEF Held
<1>Outcome. Outcome'
  BY <1>a, <1>b, <1>e, <1>m DEF Outcome
<1>Agree. ToolsAndServerAgree'
  BY <1>b, <1>d, <1>e, <1>n DEF ToolsAndServerAgree, Sound
<1>Leaks. NoClientLeaks'
  BY <1>b, <1>d, <1>e, <1>n DEF NoClientLeaks
<1> QED
  BY <1>Alone, <1>Listed, <1>Held, <1>Outcome, <1>Taken, <1>Announced, <1>Agree, <1>Leaks DEF Kept

-----------------------------------------------------------------------------
(* The theorems *)

LEMMA InvStep == IInv /\ [Next]_vars => IInv'
<1> SUFFICES ASSUME IInv, [Next]_vars PROVE IInv'
  OBVIOUS
<1>1. TypeOK'
  BY TypeStep DEF IInv
<1>2. CASE UNCHANGED vars
  BY <1>1, <1>2 DEF vars, IInv, Alone, Listed, Held, Outcome, Taken, Announced, Connecting, Pending,
     ToolsAndServerAgree, NoClientLeaks, Sound
<1>3. CASE Next
  <2>1. ASSUME NEW o \in Ops, TakeEntry(o) \/ NothingToDisconnect(o) \/ Detach(o) PROVE Kept'
    BY <1>1, <2>1, TakeEntryKeeps, NothingToDisconnectKeeps, DetachKeeps
  <2>2. ASSUME NEW c \in Connects, ConnectFresh(c) \/ ConnectReplaces(c) \/ Opens(c) \/ OpenFails(c)
               \/ ConnectFails(c) \/ CloseEnds(c) \/ ServerDies(c)
        PROVE Kept'
    BY <1>1, <2>2, ConnectFreshKeeps, ConnectReplacesKeeps, OpensKeeps, OpenFailsKeeps, ConnectFailsKeeps,
       CloseEndsKeeps, ServerDiesKeeps
  <2>3. ASSUME NEW c \in Connects, NEW ids \in SUBSET Tools, Registers(c, ids) \/ RegisterFails(c, ids)
        PROVE Kept'
    BY <1>1, <2>3, RegistersKeeps, RegisterFailsKeeps
  <2> QED
    BY <1>1, <1>3, <2>1, <2>2, <2>3 DEF Next, Kept, IInv
<1> QED
  BY <1>2, <1>3

THEOREM Invariant == Spec => []IInv
BY InvInit, InvStep, PTL DEF Spec

\* A tool that can be called belongs to the server that is listed, and a server
\* listed as connected has all its tools and was not closed, after any calls,
\* as far as the connect() met no other and was not torn.
THEOREM ToolsAgree == Spec => []ToolsAndServerAgree
<1>1. IInv => ToolsAndServerAgree
  BY DEF IInv
<1> QED
  BY <1>1, Invariant, PTL

\* A client that met no other call is connected only under the name.
THEOREM ClientsDoNotLeak == Spec => []NoClientLeaks
<1>1. IInv => NoClientLeaks
  BY DEF IInv
<1> QED
  BY <1>1, Invariant, PTL

\* When all calls are back, there is what the last one asked for if it met no
\* other, and in any case no name is left connecting.
THEOREM LastCallCounts == Spec => []LastCallWins
<1>1. ASSUME IInv PROVE LastCallWins
  <2> SUFFICES ASSUME Pending = {} PROVE LastCallWins
    BY DEF LastCallWins
  <2>1. server # None => server.client \in Ops
    BY <1>1 DEF IInv, TypeOK, Entries, Ops
  <2>2. server # None => server.status # "connecting"
    BY <1>1, <2>1 DEF IInv, Listed, Connecting, Pending
  <2>3. last # None => pc[last] \in {"idle", "done"}
    BY <1>1 DEF IInv, TypeOK, Pending
  <2>4. last # None => pc[last] # "idle"
    BY <1>1 DEF IInv, Alone
  <2> QED
    BY <1>1, <2>2, <2>3, <2>4 DEF IInv, Outcome, LastCallWins
<1> QED
  BY <1>1, Invariant, PTL
=============================================================================
