------------------------------ MODULE AgentTurn ------------------------------
(***************************************************************************)
(* One run of the agent, from AgentRuntime.run() (runtime/agent-runtime.ts)*)
(* down to a single attempt at a provider (runOneAttempt in agent/loop.ts):*)
(* the retry and fallback drivers (agent/provider-errors.ts,               *)
(* provider/fallback.ts), the deadline of a streaming attempt              *)
(* (agent/first-response-deadline.ts), the tools it executes               *)
(* (agent/tool-adapter.ts) and the terminal state of the run.              *)
(*                                                                         *)
(* The AI SDK starts a tool as soon as its call has been received and puts *)
(* the call and later its result on the stream, where the loop reads them  *)
(* in order.  An error is either a part of the stream or breaks it, and a  *)
(* broken stream loses the parts nobody has read.  Text, usage and         *)
(* compaction are left out.  The circuit breaker is too: its instance is   *)
(* made for one run, in which a provider is recorded as failing once.      *)
(***************************************************************************)
EXTENDS Naturals, Sequences, FiniteSets

CONSTANTS
  Chain,       \* the primary provider and the fallbacks, in order
  Streams,     \* providers that stream
  Triggers,    \* classes of errors fallback.triggerOn is about
  MaxRetries,  \* per provider
  ToolBudget,  \* budget.toolCalls
  MaxCalls     \* bound: tool calls of one attempt

ASSUME TurnAssumption ==
  /\ Chain \in Seq(STRING) /\ Len(Chain) > 0
  /\ Triggers \subseteq {"rate", "down", "timeout"}
  /\ MaxRetries \in Nat /\ ToolBudget \in Nat /\ MaxCalls \in Nat

Kinds == {"read", "write"}
Effectful == {"write"}    \* retrySafetyFor() is not "pure"

\* What a provider's error message says of it.  The deadline's own messages
\* match no trigger: their class is none of these.
Classes == {"rate", "down", "timeout", "other"}
Stall == "stall"

FallbackEnabled == Len(Chain) > 1

\* The states of a run whose last attempt returned.
Finished == {"completed", "blocked"}

VARIABLES
  phase,      \* "ready" to call a provider, "attempt", "backoff", "returned", "thrown"
  pos, tries, \* the provider, and the retries it has had
  attempt,    \* attemptIndex
  calls,      \* tool calls of the attempt: [kind, running]
  parts,      \* what is on the stream and unread
  open,       \* the provider still sends
  names,      \* toolCallNames: calls read whose result is not
  happened,   \* toolCallHappened
  completed,  \* completedAttemptOutcomes, as a set of kinds
  aborted,    \* who has aborted the signal of the run
  spent,      \* budget: tool calls recorded
  state,      \* RunStateMachine
  event,      \* the terminal event, if any
  promise,    \* what the caller of run() sees
  zombies,    \* tools still running whose attempt is over
  wrote,      \* history: attempts that started a tool with effects
  dropped     \* history: attempts that lost an unread call

attemptVars == <<calls, parts, open, names, happened, completed>>
runVars == <<state, event, promise>>
history == <<wrote, dropped>>
vars == <<phase, pos, tries, attempt, attemptVars, aborted, spent, runVars,
          zombies, history>>

Provider == Chain[pos]
Streaming == Provider \in Streams
Running == {i \in DOMAIN calls : calls[i].running}

Init ==
  /\ phase = "ready" /\ pos = 1 /\ tries = 0 /\ attempt = 0
  /\ calls = <<>> /\ parts = <<>> /\ open = FALSE
  /\ names = {} /\ happened = FALSE /\ completed = {}
  /\ aborted = {} /\ spent = 0
  /\ state = "preparing" /\ event = "none" /\ promise = "pending"
  /\ zombies = {}
  /\ wrote = {} /\ dropped = {}

-----------------------------------------------------------------------------
(* The provider and the tools.                                             *)

\* throwIfProviderRetryAborted() comes first in either driver.
StartAttempt ==
  /\ phase = "ready" /\ aborted = {}
  /\ phase' = "attempt"
  /\ attempt' = attempt + 1
  /\ calls' = <<>> /\ parts' = <<>> /\ open' = TRUE
  /\ names' = {} /\ happened' = FALSE /\ completed' = {}
  /\ UNCHANGED <<pos, tries, aborted, spent, runVars, zombies, history>>

Attempting == phase = "attempt" /\ open

\* A tool starts with its call; a provider that does not stream is asked
\* again when all its tools are through.
EmitCall(kind) ==
  /\ Attempting /\ Len(calls) < MaxCalls /\ aborted = {}
  /\ calls' = Append(calls, [kind |-> kind, running |-> TRUE])
  /\ parts' = IF Streaming THEN Append(parts, <<"call", Len(calls) + 1>>) ELSE parts
  /\ wrote' = IF kind \in Effectful THEN wrote \cup {attempt} ELSE wrote
  /\ UNCHANGED <<phase, pos, tries, attempt, open, names, happened, completed,
                 aborted, spent, runVars, zombies, dropped>>

\* A tool returns, fails or runs into its timeout.
ToolEnds(i) ==
  /\ phase = "attempt" /\ i \in Running
  /\ calls' = [calls EXCEPT ![i].running = FALSE]
  /\ parts' = IF Streaming THEN Append(parts, <<"result", i>>) ELSE parts
  /\ UNCHANGED <<phase, pos, tries, attempt, open, names, happened, completed,
                 aborted, spent, runVars, zombies, history>>

ZombieEnds(z) ==
  /\ z \in zombies
  /\ zombies' = zombies \ {z}
  /\ UNCHANGED <<phase, pos, tries, attempt, attemptVars, aborted, spent,
                 runVars, history>>

\* An error, or the end, as a part of the stream.
EmitLast(part) ==
  /\ Attempting /\ Streaming
  /\ part = <<"end">> => Running = {}
  /\ parts' = Append(parts, part)
  /\ open' = FALSE
  /\ UNCHANGED <<phase, pos, tries, attempt, calls, names, happened, completed,
                 aborted, spent, runVars, zombies, history>>

-----------------------------------------------------------------------------
(* How an attempt ends.                                                    *)

\* Mutant: what is still running is not asked about.
RetrySafeSoFar(outcomes, pendingCalls) ==
  outcomes # {} /\ outcomes \cap Effectful = {}

RetrySafe(outcomes, pendingCalls) ==
  pendingCalls = {} /\ outcomes # {} /\ outcomes \cap Effectful = {}

\* The catch of runOneAttempt: what the driver gets to see.
Seen(class) ==
  IF Streaming
    THEN IF (happened \/ calls # <<>>) /\ ~RetrySafe(completed, names)
           THEN "final" ELSE class
    ELSE IF calls # <<>> /\ ~RetrySafe({calls[i].kind : i \in DOMAIN calls}, {})
           THEN "final" ELSE class

\* withRetry() looks for rate limits, ProviderFallback for its triggers.
Retryable(class) ==
  IF FallbackEnabled THEN class \in Triggers ELSE class = "rate"

\* The driver: again after a delay, the next provider, or out.
AttemptFails(class) ==
  LET seen == Seen(class) IN
  /\ parts' = <<>> /\ open' = FALSE
  /\ calls' = <<>> /\ names' = {} /\ happened' = FALSE /\ completed' = {}
  /\ zombies' = zombies \cup {<<attempt, i, calls[i].kind>> : i \in Running}
  /\ IF ~Retryable(seen)
       THEN phase' = "thrown" /\ UNCHANGED <<pos, tries>>
     ELSE IF tries < MaxRetries
       THEN phase' = "backoff" /\ tries' = tries + 1 /\ UNCHANGED pos
     ELSE IF pos < Len(Chain)
       THEN phase' = "ready" /\ pos' = pos + 1 /\ tries' = 0
       ELSE phase' = "thrown" /\ UNCHANGED <<pos, tries>>
  /\ UNCHANGED <<attempt, runVars, wrote>>

\* The stream breaks: unread parts are gone.
StreamBreaks(class) ==
  /\ Attempting /\ Streaming
  /\ dropped' = IF \E k \in DOMAIN parts : parts[k][1] = "call"
                  THEN dropped \cup {attempt} ELSE dropped
  /\ AttemptFails(class)
  /\ UNCHANGED <<aborted, spent>>

\* generateText() rejects between two steps.
CallRejects(class) ==
  /\ Attempting /\ ~Streaming /\ Running = {}
  /\ AttemptFails(class)
  /\ UNCHANGED <<aborted, spent, dropped>>

\* Mutant: the first part disarms the deadline.
DeadlineFiresFirst ==
  /\ phase = "attempt" /\ Streaming /\ parts = <<>> /\ open
  /\ calls = <<>>
  /\ AttemptFails(Stall)
  /\ UNCHANGED <<aborted, spent, dropped>>

(* The deadline: no part has been read for the idle limit, or none at all  *)
(* for that of the first response, though a tool may be running.           *)
DeadlineFires ==
  /\ phase = "attempt" /\ Streaming
  /\ AttemptFails(Stall)
  /\ UNCHANGED <<aborted, spent, dropped>>

\* The signal of the run reaches the SDK.
AttemptAborted ==
  /\ phase = "attempt" /\ aborted # {}
  /\ AttemptFails("abort")
  /\ UNCHANGED <<aborted, spent, dropped>>

-----------------------------------------------------------------------------
(* The loop reads the stream.                                              *)

Reading(kind) == phase = "attempt" /\ parts # <<>> /\ parts[1][1] = kind

ReadCall ==
  /\ Reading("call")
  /\ spent' = spent + 1
  /\ IF spent + 1 <= ToolBudget
       THEN /\ names' = names \cup {parts[1][2]}
            /\ happened' = TRUE
            /\ parts' = Tail(parts)
            /\ state' = "executing"
            /\ UNCHANGED <<phase, pos, tries, attempt, calls, open, completed,
                           aborted, event, promise, zombies, history>>
       ELSE \* onToolCall throws BudgetExceededError, having aborted the run
            /\ aborted' = aborted \cup {"budget"}
            /\ AttemptFails("budget")
            /\ UNCHANGED dropped

ReadResult ==
  /\ Reading("result")
  /\ LET i == parts[1][2]
     IN  names' = names \ {i} /\ completed' = completed \cup {calls[i].kind}
  /\ parts' = Tail(parts)
  /\ UNCHANGED <<phase, pos, tries, attempt, calls, open, happened, aborted,
                 spent, runVars, zombies, history>>

ReadError ==
  /\ Reading("error")
  /\ AttemptFails(parts[1][2])
  /\ UNCHANGED <<aborted, spent, dropped>>

AttemptSucceeds ==
  /\ phase' = "returned" /\ open' = FALSE
  /\ UNCHANGED <<pos, tries, attempt, calls, parts, names, happened, completed,
                 event, promise, zombies, history>>

ReadEnd ==
  /\ Reading("end")
  /\ AttemptSucceeds
  /\ UNCHANGED <<aborted, spent, state>>

\* generateText() resolves, and only then are its tool calls reported.
CallResolves ==
  /\ Attempting /\ ~Streaming /\ Running = {}
  /\ IF spent + Len(calls) <= ToolBudget
       THEN /\ spent' = spent + Len(calls)
            /\ state' = IF calls = <<>> THEN state ELSE "executing"
            /\ AttemptSucceeds /\ UNCHANGED aborted
       ELSE /\ spent' = ToolBudget + 1
            /\ aborted' = aborted \cup {"budget"}
            /\ AttemptFails("budget") /\ UNCHANGED dropped

-----------------------------------------------------------------------------
(* The drivers' delay, and the run around them.                            *)

BackoffOver ==
  /\ phase = "backoff" /\ aborted = {}
  /\ phase' = "ready"
  /\ UNCHANGED <<pos, tries, attempt, attemptVars, aborted, spent, runVars,
                 zombies, history>>

\* waitForProviderRetry() and throwIfProviderRetryAborted() throw.
DriverAborted ==
  /\ phase \in {"ready", "backoff"} /\ aborted # {}
  /\ phase' = "thrown"
  /\ UNCHANGED <<pos, tries, attempt, attemptVars, aborted, spent, runVars,
                 zombies, history>>

\* The user cancels, or the timer of budget.wallTimeMs expires.
Abort(who) ==
  /\ promise = "pending" /\ aborted = {}
  /\ aborted' = {who}
  /\ UNCHANGED <<phase, pos, tries, attempt, attemptVars, spent, runVars,
                 zombies, history>>

\* A run whose model says it is blocked ends so, and is told of as completed.
\* run.completed is emitted before onFinish, which may throw: the catch then
\* asks the state machine for an edge it does not have, and that error is
\* what the caller gets.
RunFinishes(ending, finishThrows) ==
  /\ phase = "returned" /\ promise = "pending"
  /\ state' = ending /\ event' = "completed"
  /\ promise' = IF finishThrows THEN "rejected" ELSE "resolved"
  /\ UNCHANGED <<phase, pos, tries, attempt, attemptVars, aborted, spent,
                 zombies, history>>

\* Mutant: any abort counts as a cancellation.
RunFailsCancelled ==
  /\ phase = "thrown" /\ promise = "pending"
  /\ state' = IF aborted # {} THEN "cancelled" ELSE "failed"
  /\ event' = "failed"
  /\ promise' = "rejected"
  /\ UNCHANGED <<phase, pos, tries, attempt, attemptVars, aborted, spent,
                 zombies, history>>

RunFails ==
  /\ phase = "thrown" /\ promise = "pending"
  /\ state' = IF "user" \in aborted THEN "cancelled" ELSE "failed"
  /\ event' = "failed"
  /\ promise' = "rejected"
  /\ UNCHANGED <<phase, pos, tries, attempt, attemptVars, aborted, spent,
                 zombies, history>>

LastParts == {<<"end">>} \cup {<<"error", class>> : class \in Classes}

Next ==
  \/ StartAttempt \/ DeadlineFires \/ AttemptAborted
  \/ ReadCall \/ ReadResult \/ ReadError \/ ReadEnd \/ CallResolves
  \/ BackoffOver \/ DriverAborted \/ RunFails
  \/ \E kind \in Kinds : EmitCall(kind)
  \/ \E i \in DOMAIN calls : ToolEnds(i)
  \/ \E z \in zombies : ZombieEnds(z)
  \/ \E part \in LastParts : EmitLast(part)
  \/ \E class \in Classes : StreamBreaks(class) \/ CallRejects(class)
  \/ \E who \in {"user", "budget"} : Abort(who)
  \/ \E ending \in Finished, throws \in BOOLEAN : RunFinishes(ending, throws)

(* The event loop goes on, timers expire and every tool has a timeout.     *)
(* Nothing is assumed of the provider.                                     *)
Fairness ==
  /\ WF_vars(StartAttempt \/ AttemptAborted \/ BackoffOver \/ DriverAborted)
  /\ WF_vars(ReadCall \/ ReadResult \/ ReadError \/ ReadEnd)
  /\ WF_vars(DeadlineFires)
  /\ WF_vars(\E i \in DOMAIN calls : ToolEnds(i))
  /\ WF_vars(RunFails \/ \E ending \in Finished, throws \in BOOLEAN :
                          RunFinishes(ending, throws))

Spec == Init /\ [][Next]_vars
FairSpec == Spec /\ Fairness

-----------------------------------------------------------------------------
\* Every variable keeps its type.
TypeOK ==
  /\ phase \in {"ready", "attempt", "backoff", "returned", "thrown"}
  /\ pos \in DOMAIN Chain /\ tries \in 0..MaxRetries
  /\ attempt \in 0..(Len(Chain) * (MaxRetries + 1))
  /\ \A i \in DOMAIN calls : calls[i] \in [kind : Kinds, running : BOOLEAN]
  /\ names \subseteq DOMAIN calls
  /\ happened \in BOOLEAN /\ open \in BOOLEAN
  /\ completed \subseteq Kinds
  /\ aborted \subseteq {"user", "budget"}
  /\ spent \in 0..(ToolBudget + MaxCalls)
  /\ state \in {"preparing", "executing", "failed", "cancelled"} \cup Finished
  /\ event \in {"none", "completed", "failed"}
  /\ promise \in {"pending", "resolved", "rejected"}

(* "Repeating the attempt would trigger the same tool calls a second time  *)
(* and double their side effects": once a tool with effects has started,   *)
(* no later attempt follows, on this provider or another, unless the       *)
(* stream broke before the loop had read the call.                         *)
EffectsNotRepeated == \A k \in wrote : k = attempt \/ k \in dropped

(* The run ends once, and its last event, its state and what the caller    *)
(* gets agree: completed or blocked is told of as completed and resolved   *)
(* (unless onFinish threw), cancelled means the user did it.  No tool      *)
(* outlives a run that is told of as completed, but for those of an        *)
(* attempt whose stream broke over calls nobody had read.                  *)
OneEnding ==
  /\ event = "none" <=> promise = "pending"
  /\ event = "completed" <=> state \in Finished
  /\ event = "failed" <=> state \in {"failed", "cancelled"}
  /\ promise = "resolved" => event = "completed"
  /\ state = "cancelled" => "user" \in aborted
  /\ event = "completed" => \A z \in zombies : z[1] \in dropped

(* Every run ends, unless it waits for a provider that does not stream,    *)
(* for which there is no deadline.                                         *)
EveryRunEnds ==
  <>[](promise # "pending" \/ (phase = "attempt" /\ ~Streaming))
=============================================================================
