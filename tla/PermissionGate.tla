--------------------------- MODULE PermissionGate ----------------------------
(***************************************************************************)
(* The permission gate of packages/core/src/permission/store.ts between    *)
(* the tool executor, which asks and waits, and the clients that answer:   *)
(* the terminal UI (useAppLifecycle.ts and the keyboard handlers), a phone *)
(* that controls it remotely, and the headless runners.                    *)
(*                                                                         *)
(* A request may be settled by a response, by its timer, by the abort of   *)
(* its turn and by cancelPending(), in any order, and the clients may be   *)
(* late: the UI answers what it has last drawn, the phone anything it was  *)
(* ever told of, the policy of Project Auto when its check is done.        *)
(***************************************************************************)
EXTENDS Naturals, Sequences, FiniteSets, SequencesExt

CONSTANTS
  Requests,      \* one per tool call that has to ask; ids are random UUIDs
  TurnOf,        \* the turn whose tool call asks; turns are 1, 2, ...
  Turns,
  Modes,         \* how the client answers; a headless one never changes
  NoRequest

ASSUME GateAssumption ==
  /\ TurnOf \in [Requests -> Turns]
  /\ Turns \subseteq Nat \ {0}
  /\ Modes \subseteq {"ask", "auto", "full", "headless"}
  /\ NoRequest \notin Requests

Decisions == {"allow", "deny"}

VARIABLES
  mode,
  turn,         \* the last turn that was started
  stage,        \* it works; has lost its controller to an interrupt; or is over
  aborted,      \* turns whose signal is aborted
  gate,         \* a request is not made yet, pending, or settled
  answer,       \* what wait() resolved with
  settlements,  \* how often listeners were told of its settlement
  early,        \* earlyResponses
  microtask,    \* requests with a queued respond() (full access)
  checking,     \* requests Project Auto is checking
  queue,        \* permissionQueue, the prompts of the UI
  screen,       \* the request the UI has drawn
  published,    \* requests a remote client was told of
  late,         \* history: prompts shown for a request that had settled
  forgotten     \* history: requests that lost their prompt to an Esc that
                \* came when there was no turn to interrupt

vars == <<mode, turn, stage, aborted, gate, answer, settlements, early, microtask,
          checking, queue, screen, published, late, forgotten>>

Pending == {r \in Requests : gate[r] = "pending"}
Aborted(r) == TurnOf[r] \in aborted

Init ==
  /\ mode \in Modes
  /\ turn = 1 /\ stage = "working"
  /\ aborted = {}
  /\ gate = [r \in Requests |-> "none"]
  /\ answer = [r \in Requests |-> "none"]
  /\ settlements = [r \in Requests |-> 0]
  /\ early = [r \in Requests |-> "none"]
  /\ microtask = {} /\ checking = {}
  /\ queue = <<>> /\ screen = NoRequest
  /\ published = {} /\ late = {} /\ forgotten = {}

-----------------------------------------------------------------------------
(* The gate.                                                               *)

\* finish() of every request in S: each settles, and the UI, a listener,
\* takes it off its queue.
Finish(S, d) ==
  /\ gate' = [r \in Requests |-> IF r \in S THEN "settled" ELSE gate[r]]
  /\ answer' = [r \in Requests |-> IF r \in S THEN d ELSE answer[r]]
  /\ settlements' = [r \in Requests |-> settlements[r] + IF r \in S THEN 1 ELSE 0]

\* filter(): the prompts that are not in S, in their order.
Without(S) ==
  LET kept[n \in 0..Len(queue)] ==
        IF n = 0 THEN <<>>
        ELSE IF queue[n] \in S THEN kept[n - 1]
        ELSE Append(kept[n - 1], queue[n])
  IN  kept[Len(queue)]

\* Mutant: whoever answers is heard.
RespondAlways(r, d) == Finish({r}, d) /\ UNCHANGED early

\* respond(id, decision): to nobody, it is kept for a request to come.
Respond(r, d) ==
  IF gate[r] = "pending"
    THEN Finish({r}, d) /\ UNCHANGED early
    ELSE /\ early' = [early EXCEPT ![r] = d]
         /\ UNCHANGED <<gate, answer, settlements>>

\* wait(id): an early response wins, even over an abort.
Wait(r, response) ==
  CASE response # "none" -> Finish({r}, response)
    [] response = "none" /\ Aborted(r) -> Finish({r}, "deny")
    [] OTHER -> /\ gate' = [gate EXCEPT ![r] = "pending"]
                /\ UNCHANGED <<answer, settlements>>

Show(r) ==
  /\ queue' = IF Contains(queue, r) THEN queue ELSE Append(queue, r)
  /\ published' = published \cup {r}

-----------------------------------------------------------------------------
(* executor.ts emits the request and waits, in one go: a headless runner   *)
(* answers inside emit().  A request whose turn is aborted is settled      *)
(* before the prompt its listener has queued can be drawn.                 *)

MayAsk(r) == microtask = {} /\ gate[r] = "none" /\ TurnOf[r] <= turn

AskHeadless(r, d) ==
  /\ MayAsk(r) /\ mode = "headless"
  /\ Wait(r, d)
  /\ UNCHANGED <<mode, turn, stage, aborted, early, microtask, checking,
                 queue, screen, published, late, forgotten>>

AskFullAccess(r) ==
  /\ MayAsk(r) /\ mode = "full"
  /\ Wait(r, "none")
  /\ microtask' = {r}
  /\ UNCHANGED <<mode, turn, stage, aborted, early, checking, queue, screen,
                 published, late, forgotten>>

\* Full access does not cover a dangerous request, and has Project Auto on.
AskProjectAuto(r) ==
  /\ MayAsk(r) /\ mode \in {"auto", "full"}
  /\ Wait(r, "none")
  /\ checking' = checking \cup {r}
  /\ UNCHANGED <<mode, turn, stage, aborted, early, microtask, queue,
                 screen, published, late, forgotten>>

AskUser(r) ==
  /\ MayAsk(r) /\ mode = "ask"
  /\ Wait(r, "none")
  /\ IF Aborted(r) THEN UNCHANGED queue ELSE queue' = Append(queue, r)
  /\ published' = published \cup {r}
  /\ UNCHANGED <<mode, turn, stage, aborted, early, microtask, checking,
                 screen, late, forgotten>>

-----------------------------------------------------------------------------
(* The answers.                                                            *)

\* queueMicrotask(() => respond(id, "allow_once")).
Microtask(r) ==
  /\ r \in microtask
  /\ microtask' = microtask \ {r}
  /\ Respond(r, "allow")
  /\ UNCHANGED <<mode, turn, stage, aborted, checking, queue, screen,
                 published, late, forgotten>>

\* evaluateProjectAutoRequest() resolves; a check that fails shows the prompt.
VerdictAllows(r) ==
  /\ microtask = {} /\ r \in checking /\ mode \in {"auto", "full"}
  /\ checking' = checking \ {r}
  /\ Respond(r, "allow")
  /\ UNCHANGED <<mode, turn, stage, aborted, microtask, queue, screen,
                 published, late, forgotten>>

VerdictAsks(r) ==
  /\ microtask = {} /\ r \in checking
  /\ checking' = checking \ {r}
  /\ Show(r)
  /\ late' = IF gate[r] = "settled" THEN late \cup {r} ELSE late
  /\ UNCHANGED <<mode, turn, stage, aborted, gate, answer, settlements,
                 early, microtask, screen, forgotten>>

Draw ==
  /\ microtask = {}
  /\ screen' = IF queue = <<>> THEN NoRequest ELSE Head(queue)
  /\ screen' # screen
  /\ UNCHANGED <<mode, turn, stage, aborted, gate, answer, settlements,
                 early, microtask, checking, queue, published, late,
                 forgotten>>

\* The user answers the prompt on the screen, which may be settled by now.
UserAnswers(d) ==
  /\ microtask = {} /\ screen # NoRequest
  /\ Respond(screen, d)
  /\ queue' = Without({screen})
  /\ screen' = NoRequest
  /\ UNCHANGED <<mode, turn, stage, aborted, microtask, checking, published,
                 late, forgotten>>

\* handleRemoteEvent, and permission:respond of the desktop app.
RemoteAnswers(r, d) ==
  /\ microtask = {} /\ r \in published /\ early[r] = "none"
  /\ Respond(r, d)
  /\ queue' = Without({r})
  /\ UNCHANGED <<mode, turn, stage, aborted, microtask, checking, screen,
                 published, late, forgotten>>

\* Mutant: listeners are not told of a timeout.
TimeoutUntold(r) ==
  /\ microtask = {} /\ r \in Pending
  /\ Finish({r}, "deny")
  /\ UNCHANGED <<mode, turn, stage, aborted, early, microtask, checking,
                 queue, screen, published, late, forgotten>>

\* Mutant: the timer is that of the prompt.
TimeoutOfPrompt(r) ==
  /\ microtask = {} /\ r \in Pending /\ Contains(queue, r)
  /\ Finish({r}, "deny")
  /\ queue' = Without({r})
  /\ UNCHANGED <<mode, turn, stage, aborted, early, microtask, checking,
                 screen, published, late, forgotten>>

Timeout(r) ==
  /\ microtask = {} /\ r \in Pending
  /\ Finish({r}, "deny")
  /\ queue' = Without({r})
  /\ UNCHANGED <<mode, turn, stage, aborted, early, microtask, checking,
                 screen, published, late, forgotten>>

\* Mutant: what waits is left to its timer.
InterruptLater ==
  /\ microtask = {} /\ stage = "working"
  /\ stage' = "cancelled"
  /\ aborted' = aborted \cup {turn}
  /\ early' = [r \in Requests |-> "none"]
  /\ queue' = <<>>
  /\ UNCHANGED <<mode, turn, gate, answer, settlements, microtask, checking,
                 screen, published, late, forgotten>>

(* cancelActiveTurn() of a turn that has its controller: the abort settles *)
(* what listens to the signal, then cancelPending() the rest, of earlier   *)
(* turns too, and forgets the early responses.                             *)
CancelActiveTurn ==
  /\ stage = "working" /\ stage' = "cancelled"
  /\ aborted' = aborted \cup {turn}
  /\ Finish(Pending, "deny")
  /\ early' = [r \in Requests |-> "none"]

Interrupt ==
  /\ microtask = {}
  /\ CancelActiveTurn
  /\ queue' = <<>>
  /\ UNCHANGED <<mode, turn, microtask, checking, screen, published, late, forgotten>>

\* Esc on a prompt denies it, drops the queue and interrupts the turn; when
\* there is none to interrupt, what else had a prompt is left to its timer.
UserInterrupts ==
  /\ microtask = {} /\ screen # NoRequest
  /\ \/ CancelActiveTurn /\ UNCHANGED forgotten
     \/ /\ stage # "working" /\ Respond(screen, "deny")
        /\ forgotten' = forgotten \cup ((Pending \cap ToSet(queue)) \ {screen})
        /\ UNCHANGED <<stage, aborted>>
  /\ queue' = <<>>
  /\ screen' = NoRequest
  /\ UNCHANGED <<mode, turn, microtask, checking, published, late>>

\* A remote interrupt only aborts the turn.
RemoteInterrupt ==
  /\ microtask = {} /\ stage = "working"
  /\ stage' = "cancelled"
  /\ aborted' = aborted \cup {turn}
  /\ LET S == {r \in Pending : TurnOf[r] = turn}
     IN  Finish(S, "deny") /\ queue' = Without(S)
  /\ UNCHANGED <<mode, turn, early, microtask, checking, screen, published, late, forgotten>>

\* finalizeTurn(): done, interrupted or failed; requests of tools that go on
\* after a failure are left waiting.
TurnEnds ==
  /\ microtask = {} /\ stage # "idle"
  /\ stage' = "idle"
  /\ UNCHANGED <<mode, turn, aborted, gate, answer, settlements, early, microtask,
                 checking, queue, screen, published, late, forgotten>>

\* The next turn has a controller of its own; tools of an earlier one may
\* still be on their way to the gate.
NextTurn ==
  /\ microtask = {} /\ stage = "idle" /\ turn + 1 \in Turns
  /\ turn' = turn + 1 /\ stage' = "working"
  /\ UNCHANGED <<mode, aborted, gate, answer, settlements, early, microtask,
                 checking, queue, screen, published, late, forgotten>>

Switch(m) ==
  /\ microtask = {} /\ mode # "headless" /\ m \in Modes \ {"headless", mode}
  /\ mode' = m
  /\ UNCHANGED <<turn, stage, aborted, gate, answer, settlements, early,
                 microtask, checking, queue, screen, published, late,
                 forgotten>>

Next ==
  \/ \E r \in Requests :
       \/ AskFullAccess(r) \/ AskProjectAuto(r) \/ AskUser(r)
       \/ Microtask(r) \/ VerdictAllows(r) \/ VerdictAsks(r) \/ Timeout(r)
       \/ \E d \in Decisions : AskHeadless(r, d) \/ RemoteAnswers(r, d)
  \/ Draw \/ \E d \in Decisions : UserAnswers(d)
  \/ Interrupt \/ UserInterrupts \/ RemoteInterrupt \/ TurnEnds \/ NextTurn
  \/ \E m \in Modes : Switch(m)

(* Microtasks run, and a pending request's timer expires.                  *)
Fairness == \A r \in Requests : WF_vars(Microtask(r)) /\ WF_vars(Timeout(r))

Spec == Init /\ [][Next]_vars
FairSpec == Spec /\ Fairness

-----------------------------------------------------------------------------
\* Every variable keeps its type.
TypeOK ==
  /\ mode \in Modes
  /\ turn \in Nat /\ stage \in {"working", "cancelled", "idle"}
  /\ aborted \subseteq Nat
  /\ gate \in [Requests -> {"none", "pending", "settled"}]
  /\ answer \in [Requests -> Decisions \cup {"none"}]
  /\ settlements \in [Requests -> Nat]
  /\ early \in [Requests -> Decisions \cup {"none"}]
  /\ microtask \subseteq Requests /\ checking \subseteq Requests
  /\ queue \in Seq(Requests)
  /\ screen \in Requests \cup {NoRequest}
  /\ published \subseteq Requests /\ late \subseteq Requests
  /\ forgotten \subseteq Requests

(* Response, timer, abort and cancel race to settle a request: wait()      *)
(* resolves and the listeners are told exactly once.                       *)
SettledOnce ==
  \A r \in Requests :
    /\ settlements[r] = IF gate[r] = "settled" THEN 1 ELSE 0
    /\ answer[r] # "none" <=> gate[r] = "settled"

(* A request that waits can be answered: it is before the user, being      *)
(* checked, or about to be answered; and a prompt in the queue is live.    *)
(* The accidents: Project Auto asked for a prompt after its request had    *)
(* settled, and Esc was hit on a prompt when no turn was there to cancel.  *)
PromptsMatchPending ==
  /\ \A r \in Pending : Contains(queue, r) \/ r \in checking \cup microtask \cup forgotten
  /\ \A r \in ToSet(queue) : r \in Pending \cup late

(* Once a turn is interrupted, no request of it is allowed any more; a     *)
(* headless runner, which answers before the wait, is the exception.       *)
InterruptDenies ==
  [][\A r \in Requests :
       answer[r] = "none" /\ answer'[r] = "allow" =>
         ~Aborted(r) \/ mode = "headless"]_vars

(* A tool call that asks gets an answer, whoever leaves.                   *)
EveryRequestSettles ==
  \A r \in Requests : (gate[r] = "pending") ~> (gate[r] = "settled")
=============================================================================
