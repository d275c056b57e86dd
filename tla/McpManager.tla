----------------------------- MODULE McpManager -----------------------------
(***************************************************************************)
(* MCPManager (mcp/manager.ts) and what it is built from: MCPClient        *)
(* (mcp/client.ts), registerMCPTools() (mcp/bridge.ts) and the tool        *)
(* registry.  The start of a session, the HTTP server and the desktop RPC  *)
(* all call connect() and disconnect(), and nothing orders the calls: an   *)
(* operation here is one such call, interleaved with the others at its     *)
(* awaits.  Servers do not share a name or a tool id, so one name is       *)
(* enough.  Each connect() makes a client, which the model names after it. *)
(* Nothing in the repository listens to the hooks connect() and            *)
(* disconnect() emit, so they are left out.                                *)
(***************************************************************************)
EXTENDS FiniteSets

CONSTANTS
  Connects, Disconnects,  \* calls of connect() and of disconnect()
  Tools,                  \* ids a server of this name may announce
  None

Ops == Connects \cup Disconnects

Statuses == {"connecting", "connected", "error"}
Entries == [client : Connects, tools : SUBSET Tools, status : Statuses]

ASSUME McpAssumption ==
  /\ Connects \cap Disconnects = {}
  /\ None \notin Ops \cup Entries

VARIABLES
  pc,        \* per call: where it is
  took,      \* per call: the entry disconnect() has in its hands
  server,    \* servers.get(name): [client, tools, status], or None
  registry,  \* ToolRegistry: the client behind each tool id, or None
  link,      \* per client: its connection
  last,      \* history: the call that began last
  raced,     \* history: calls that were pending together with another
  torn       \* history: connects whose registration threw half way

vars == <<pc, took, server, registry, link, last, raced, torn>>

Entry(c, ids, status) == [client |-> c, tools |-> ids, status |-> status]

Init ==
  /\ pc = [o \in Ops |-> "idle"]
  /\ took = [o \in Ops |-> None]
  /\ server = None
  /\ registry = [t \in Tools |-> None]
  /\ link = [c \in Connects |-> "new"]
  /\ last = None /\ raced = {} /\ torn = {}

Pending == {o \in Ops : pc[o] \notin {"idle", "done"}}

Goto(o, label) == pc' = [pc EXCEPT ![o] = label]

\* client.disconnect() does nothing to a client that is not connected yet; it
\* does not know of a server that has gone.
Close(c) == IF link[c] \in {"open", "gone"} THEN [link EXCEPT ![c] = "closing"] ELSE link

Unregister(ids) == [t \in Tools |-> IF t \in ids THEN None ELSE registry[t]]

-----------------------------------------------------------------------------
(* disconnect(), also the first part of a connect() that finds an entry.   *)

Begins(o) ==
  /\ pc[o] = "idle"
  /\ last' = o
  /\ raced' = IF Pending = {} THEN raced ELSE raced \cup Pending \cup {o}
  /\ UNCHANGED <<registry, torn>>

\* Mutant: the client is not closed.
TakeEntryOpen(o) ==
  /\ Begins(o) /\ server # None
  /\ took' = [took EXCEPT ![o] = server]
  /\ Goto(o, "detaching")
  /\ UNCHANGED <<server, link>>

\* The entry is read before the wait and its name deleted after it.
TakeEntry(o) ==
  /\ Begins(o) /\ server # None
  /\ took' = [took EXCEPT ![o] = server]
  /\ link' = Close(server.client)
  /\ Goto(o, "detaching")
  /\ UNCHANGED server

NothingToDisconnect(d) ==
  /\ d \in Disconnects /\ Begins(d) /\ server = None
  /\ Goto(d, "done")
  /\ UNCHANGED <<took, server, link>>

\* Mutant: the tools stay registered.
DetachServer(o) ==
  /\ pc[o] = "detaching"
  /\ server' = None
  /\ took' = [took EXCEPT ![o] = None]
  /\ Goto(o, IF o \in Connects THEN "detached" ELSE "done")
  /\ UNCHANGED <<registry, link, last, raced, torn>>

\* Mutant: the entry stays.
DetachTools(o) ==
  /\ pc[o] = "detaching"
  /\ registry' = Unregister(took[o].tools)
  /\ took' = [took EXCEPT ![o] = None]
  /\ Goto(o, IF o \in Connects THEN "detached" ELSE "done")
  /\ UNCHANGED <<server, link, last, raced, torn>>

\* Mutant: the close is awaited.
DetachClosed(o) ==
  /\ pc[o] = "detaching" /\ link[took[o].client] # "closing"
  /\ registry' = Unregister(took[o].tools)
  /\ server' = None
  /\ took' = [took EXCEPT ![o] = None]
  /\ Goto(o, IF o \in Connects THEN "detached" ELSE "done")
  /\ UNCHANGED <<link, last, raced, torn>>

\* The close is over, or the second it is given.
Detach(o) ==
  /\ pc[o] = "detaching"
  /\ registry' = Unregister(took[o].tools)
  /\ server' = None
  /\ took' = [took EXCEPT ![o] = None]
  /\ Goto(o, IF o \in Connects THEN "detached" ELSE "done")
  /\ UNCHANGED <<link, last, raced, torn>>

CloseEnds(c) ==
  /\ link[c] = "closing"
  /\ link' = [link EXCEPT ![c] = "closed"]
  /\ UNCHANGED <<pc, took, server, registry, last, raced, torn>>

\* The server dies or drops the connection: nobody listens to that.
ServerDies(c) ==
  /\ link[c] = "open"
  /\ link' = [link EXCEPT ![c] = "gone"]
  /\ UNCHANGED <<pc, took, server, registry, last, raced, torn>>

-----------------------------------------------------------------------------
(* connect().                                                              *)

Announce(c) ==
  /\ server' = Entry(c, {}, "connecting")
  /\ Goto(c, "opening")

ConnectFresh(c) ==
  /\ c \in Connects /\ Begins(c) /\ server = None
  /\ Announce(c)
  /\ UNCHANGED <<took, link>>

\* disconnect() has emitted its hook and is back.
ConnectReplaces(c) ==
  /\ pc[c] = "detached"
  /\ Announce(c)
  /\ UNCHANGED <<took, registry, link, last, raced, torn>>

Opens(c) ==
  /\ pc[c] = "opening"
  /\ link' = [link EXCEPT ![c] = "open"]
  /\ Goto(c, "listing")
  /\ UNCHANGED <<took, server, registry, last, raced, torn>>

OpenFails(c) ==
  /\ pc[c] = "opening"
  /\ Goto(c, "cleanup")
  /\ UNCHANGED <<took, server, registry, link, last, raced, torn>>

\* A client whose close is over has no tools to list, and no error.
Registers(c, ids) ==
  /\ pc[c] = "listing" /\ link[c] \in {"open", "closed"}
  /\ link[c] = "closed" => ids = {}
  /\ registry' = [t \in Tools |-> IF t \in ids THEN c ELSE registry[t]]
  /\ server' = Entry(c, ids, "connected")
  /\ Goto(c, "done")
  /\ UNCHANGED <<took, link, last, raced, torn>>

(* The request fails, or a schema makes bridgeTool() throw when the tools  *)
(* before it are registered: connect() has not got their ids yet.          *)
RegisterFails(c, ids) ==
  /\ pc[c] = "listing" /\ link[c] # "closed"
  /\ link[c] # "open" => ids = {}
  /\ registry' = [t \in Tools |-> IF t \in ids THEN c ELSE registry[t]]
  /\ torn' = IF ids = {} THEN torn ELSE torn \cup {c}
  /\ link' = Close(c)
  /\ Goto(c, "cleanup")
  /\ UNCHANGED <<took, server, last, raced>>

\* Here the close is awaited however long it takes.
ConnectFails(c) ==
  /\ pc[c] = "cleanup" /\ link[c] # "closing"
  /\ server' = Entry(c, {}, "error")
  /\ Goto(c, "done")
  /\ UNCHANGED <<took, registry, link, last, raced, torn>>

Next ==
  \/ \E o \in Ops : TakeEntry(o) \/ NothingToDisconnect(o) \/ Detach(o)
  \/ \E c \in Connects :
       \/ ConnectFresh(c) \/ ConnectReplaces(c) \/ Opens(c) \/ OpenFails(c)
       \/ ConnectFails(c) \/ CloseEnds(c) \/ ServerDies(c)
       \/ \E ids \in SUBSET Tools : Registers(c, ids) \/ RegisterFails(c, ids)

(* Timers expire and the event loop goes on; the requests of the MCP       *)
(* client have a timeout.  Nothing is assumed of a close or of a server.   *)
Fairness ==
  /\ \A o \in Ops : WF_vars(Detach(o))
  /\ \A c \in Connects :
       WF_vars(\/ ConnectReplaces(c) \/ Opens(c) \/ OpenFails(c) \/ ConnectFails(c)
               \/ \E ids \in SUBSET Tools : Registers(c, ids) \/ RegisterFails(c, ids))

Spec == Init /\ [][Next]_vars
FairSpec == Spec /\ Fairness

-----------------------------------------------------------------------------
\* Every variable keeps its type.
TypeOK ==
  /\ pc \in [Ops -> {"idle", "detaching", "detached", "opening", "listing",
                     "cleanup", "done"}]
  /\ took \in [Ops -> Entries \cup {None}]
  /\ server \in Entries \cup {None}
  /\ registry \in [Tools -> Connects \cup {None}]
  /\ link \in [Connects -> {"new", "open", "gone", "closing", "closed"}]
  /\ last \in Ops \cup {None}
  /\ raced \subseteq Ops /\ torn \subseteq Connects

Sound == Connects \ (raced \cup torn)

(* A tool the agent can call belongs to the server the manager lists, and  *)
(* the server that is listed as connected has all its tools, on a          *)
(* connection that nobody here has closed, though the server may have gone *)
(* without a word: for every connect() that no other call met and whose    *)
(* registration did not throw half way.                                    *)
ToolsAndServerAgree ==
  /\ \A t \in Tools : registry[t] \in Sound =>
       server # None /\ server.client = registry[t] /\ t \in server.tools
  /\ server # None /\ server.status = "connected" /\ server.client \in Sound =>
       /\ \A t \in server.tools : registry[t] = server.client
       /\ link[server.client] \in {"open", "gone"}
            \/ \E o \in Ops : pc[o] = "detaching" /\ took[o] = server

(* A server process is not left behind: the client that is connected is    *)
(* the one under the name, where disconnect() finds it, unless calls met.  *)
NoClientLeaks ==
  \A c \in Connects \ raced : link[c] = "open" =>
    server # None /\ server.client = c

(* When every call is back, what the last one asked for is what there is,  *)
(* unless it met another; and no name is left connecting, even if it did.  *)
LastCallWins ==
  Pending = {} =>
    /\ server # None => server.status # "connecting"
    /\ last # None /\ last \notin raced =>
         IF last \in Disconnects THEN server = None
         ELSE server # None /\ server.client = last

(* disconnect() comes back even from a server that never closes.           *)
DisconnectReturns ==
  \A d \in Disconnects : pc[d] = "detaching" ~> pc[d] = "done"

=============================================================================
