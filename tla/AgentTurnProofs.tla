---------------------------- MODULE AgentTurnProofs ----------------------------
(***************************************************************************)
(* Proofs about AgentTurn for any chain of providers, any budget and any   *)
(* number of retries and tool calls.                                       *)
(***************************************************************************)
EXTENDS AgentTurn, TLAPS

-----------------------------------------------------------------------------
(* The inductive invariant *)

CallRecords == [kind : Kinds, running : BOOLEAN]
Parts == LastParts \cup ({"call", "result"} \X Nat)

\* TypeOK, and what it says nothing of because TLC cannot enumerate it.
Typed ==
  /\ TypeOK
  /\ calls \in Seq(CallRecords) /\ parts \in Seq(Parts)
  /\ zombies \subseteq Nat \X Nat \X Kinds
  /\ wrote \subseteq 0..attempt /\ dropped \subseteq Nat

\* Each provider is tried at most MaxRetries + 1 times, and a budget that is
\* exceeded ends the run.
Counted ==
  /\ attempt <= (pos - 1) * (MaxRetries + 1) + tries
                + (IF phase \in {"ready", "backoff"} THEN 0 ELSE 1)
  /\ Len(calls) <= MaxCalls
  /\ phase # "thrown" => spent <= ToolBudget

Unread(i) == \E k \in DOMAIN parts : parts[k] = <<"call", i>>

\* No call of an attempt gets lost on its way from the provider to the outcomes
\* that decide on a retry: its part is unread, it is known by name, or its kind
\* counts as completed, and the last only when the tool is through.
Traced(i) ==
  /\ Unread(i) \/ i \in names \/ calls[i].kind \in completed
  /\ calls[i].running => Unread(i) \/ i \in names

\* What the stream holds: calls of this attempt, results of tools that are
\* through, and nothing but results after an error or the end.
Ordered ==
  /\ \A k \in DOMAIN parts :
       /\ parts[k][1] \in {"call", "result"} => parts[k][2] \in DOMAIN calls
       /\ parts[k][1] = "result" => ~calls[parts[k][2]].running
       /\ parts[k][1] \in {"error", "end"} =>
            /\ ~open
            /\ \A j \in DOMAIN parts : parts[j][1] = "call" => j < k

Attempted ==
  phase = "attempt" =>
    /\ attempt \in wrote => \E i \in DOMAIN calls : calls[i].kind \in Effectful
    /\ Streaming => Ordered /\ \A i \in DOMAIN calls : Traced(i)
    /\ ~Streaming => parts = <<>>

\* Where the next attempt is made, the last one has left no effects behind and
\* no tool, unless its stream broke over calls nobody had read.
Repeatable == phase \in {"ready", "backoff"} => (attempt \in wrote => attempt \in dropped)
Leftovers == phase # "thrown" => \A z \in zombies : z[1] \in dropped

\* The end of the run comes after that of its attempts.
Ended ==
  /\ promise # "pending" => phase \in {"returned", "thrown"}
  /\ event = "none" => state \in {"preparing", "executing"}
  /\ event = "completed" => phase = "returned"

IInv ==
  /\ Typed
  /\ Counted
  /\ Attempted
  /\ Repeatable
  /\ Leftovers
  /\ Ended
  /\ EffectsNotRepeated
  /\ OneEnding

LEMMA InvInit == Init => IInv
<1> SUFFICES ASSUME Init PROVE IInv
  OBVIOUS
<1> USE TurnAssumption DEF Init
<1>1. TypeOK
  <2>1. Len(Chain) \in Nat \ {0} /\ DOMAIN Chain = 1..Len(Chain)
    OBVIOUS
  <2>2. 0 \in 0..(Len(Chain) * (MaxRetries + 1)) /\ 0 \in 0..(ToolBudget + MaxCalls)
    BY <2>1
  <2>3. \A i \in DOMAIN calls : calls[i] \in [kind : Kinds, running : BOOLEAN]
    OBVIOUS
  <2>4. pos \in DOMAIN Chain /\ tries \in 0..MaxRetries
    BY <2>1
  <2>5. attempt \in 0..(Len(Chain) * (MaxRetries + 1)) /\ spent \in 0..(ToolBudget + MaxCalls)
    BY <2>2
  <2> QED
    BY <2>3, <2>4, <2>5 DEF TypeOK
<1>2. Typed
  BY <1>1 DEF Typed
<1>3. Counted
  BY DEF Counted
<1>4. Attempted /\ Repeatable /\ Leftovers /\ Ended /\ EffectsNotRepeated /\ OneEnding
  BY DEF Attempted, Repeatable, Leftovers, Ended, EffectsNotRepeated, OneEnding, Finished
<1> QED
  BY <1>2, <1>3, <1>4 DEF IInv

-----------------------------------------------------------------------------
(* The stream *)

\* What a part can be.
LEMMA PartForms ==
  ASSUME NEW p \in Parts
  PROVE  /\ p[1] \in {"call", "result", "error", "end"}
         /\ p[1] \in {"call", "result"} => p = <<p[1], p[2]>> /\ p[2] \in Nat
         /\ p[1] = "error" => p = <<"error", p[2]>> /\ p[2] \in Classes
         /\ p[1] = "end" => p = <<"end">>
BY DEF Parts, LastParts, Classes

\* A part is added at the end.
LEMMA PartAdded ==
  ASSUME parts \in Seq(Parts), NEW p \in Parts, parts' = Append(parts, p)
  PROVE  /\ parts' \in Seq(Parts)
         /\ DOMAIN parts' = DOMAIN parts \cup {Len(parts) + 1}
         /\ \A k \in DOMAIN parts : parts'[k] = parts[k]
         /\ parts'[Len(parts) + 1] = p
         /\ \A i : Unread(i) => Unread(i)'
<1>1. /\ parts' \in Seq(Parts) /\ Len(parts) \in Nat
      /\ Len(parts') = Len(parts) + 1 /\ DOMAIN parts' = 1..Len(parts') /\ DOMAIN parts = 1..Len(parts)
      /\ \A k \in 1..Len(parts) : parts'[k] = parts[k]
      /\ parts'[Len(parts) + 1] = p
  OBVIOUS
<1>2. DOMAIN parts' = DOMAIN parts \cup {Len(parts) + 1}
  BY <1>1
<1> QED
  BY <1>1, <1>2 DEF Unread

\* The first part is read.
LEMMA PartRead ==
  ASSUME parts \in Seq(Parts), parts # <<>>, parts' = Tail(parts)
  PROVE  /\ parts' \in Seq(Parts) /\ parts[1] \in Parts
         /\ 1 \in DOMAIN parts
         /\ \A k \in DOMAIN parts' : k + 1 \in DOMAIN parts /\ parts'[k] = parts[k + 1]
         /\ \A i : Unread(i) => Unread(i)' \/ parts[1] = <<"call", i>>
<1>1. /\ parts' \in Seq(Parts) /\ Len(parts) \in Nat \ {0}
      /\ Len(parts') = Len(parts) - 1 /\ DOMAIN parts' = 1..Len(parts') /\ DOMAIN parts = 1..Len(parts)
      /\ \A k \in 1..Len(parts') : parts'[k] = parts[k + 1]
      /\ parts[1] \in Parts
  OBVIOUS
<1>2. \A k \in DOMAIN parts' : k + 1 \in DOMAIN parts /\ parts'[k] = parts[k + 1]
  BY <1>1
<1>3. ASSUME NEW i, Unread(i), parts[1] # <<"call", i>> PROVE Unread(i)'
  <2>1. PICK k \in DOMAIN parts : parts[k] = <<"call", i>>
    BY <1>3 DEF Unread
  <2>2. k # 1 /\ k - 1 \in DOMAIN parts' /\ parts'[k - 1] = parts[k]
    BY <1>1, <1>3, <2>1
  <2> QED
    BY <2>1, <2>2 DEF Unread
<1> QED
  BY <1>1, <1>2, <1>3

-----------------------------------------------------------------------------
(* An attempt that fails *)

\* Only an error the triggers are about is tried again, and only when no tool
\* with effects has been started that is known of.
LEMMA FailureOutcome ==
  ASSUME NEW class, AttemptFails(class)
  PROVE  /\ phase' \in {"thrown", "backoff", "ready"}
         /\ phase' # "thrown" => Seen(class) = class /\ class \in {"rate", "down", "timeout"}
         /\ phase' = "backoff" => tries < MaxRetries /\ tries' = tries + 1 /\ pos' = pos
         /\ phase' = "ready" => ~(tries < MaxRetries) /\ pos < Len(Chain) /\ pos' = pos + 1 /\ tries' = 0
         /\ phase' = "thrown" => pos' = pos /\ tries' = tries
<1>1. Seen(class) \in {class, "final"}
  BY DEF Seen
<1>2. Retryable(Seen(class)) => Seen(class) = class /\ class \in {"rate", "down", "timeout"}
  BY <1>1, TurnAssumption DEF Retryable
<1>3. ~Retryable(Seen(class)) => phase' = "thrown" /\ pos' = pos /\ tries' = tries
  BY Zenon DEF AttemptFails
<1>4. Retryable(Seen(class)) /\ tries < MaxRetries => phase' = "backoff" /\ tries' = tries + 1 /\ pos' = pos
  BY Zenon DEF AttemptFails
<1>5. Retryable(Seen(class)) /\ ~(tries < MaxRetries) /\ pos < Len(Chain)
        => phase' = "ready" /\ pos' = pos + 1 /\ tries' = 0
  BY Zenon DEF AttemptFails
<1>6. Retryable(Seen(class)) /\ ~(tries < MaxRetries) /\ ~(pos < Len(Chain))
        => phase' = "thrown" /\ pos' = pos /\ tries' = tries
  BY Zenon DEF AttemptFails
<1> QED
  BY <1>2, <1>3, <1>4, <1>5, <1>6

\* The multiples a bound on the attempts is made of.
LEMMA NextMultiple == \A a \in Nat, b \in Nat : (a + 1 - 1) * b = (a - 1) * b + b
OBVIOUS

LEMMA Product == \A a \in Nat, b \in Nat : a * b \in Nat
OBVIOUS

LEMMA MoreIsMore == \A a \in Nat, c \in Nat, b \in Nat : a <= c => a * b <= c * b
OBVIOUS

\* An attempt may fail as long as it is not made again over effects or tools
\* that it leaves behind.
LEMMA FailKeeps ==
  ASSUME IInv, phase = "attempt", NEW class, AttemptFails(class),
         aborted \subseteq aborted', aborted' \subseteq {"user", "budget"},
         dropped \subseteq dropped', dropped' \subseteq dropped \cup {attempt},
         spent' \in 0..(ToolBudget + MaxCalls), spent' <= ToolBudget \/ class = "budget",
         class \in {"rate", "down", "timeout"} /\ Seen(class) = class /\ attempt \notin dropped' =>
           attempt \notin wrote /\ Running = {}
  PROVE  IInv'
<1> USE TurnAssumption
<1>1. /\ parts' = <<>> /\ open' = FALSE
      /\ calls' = <<>> /\ names' = {} /\ happened' = FALSE /\ completed' = {}
      /\ zombies' = zombies \cup {<<attempt, i, calls[i].kind>> : i \in Running}
      /\ UNCHANGED <<attempt, state, event, promise, wrote>>
  BY DEF AttemptFails, runVars
<1>2. /\ phase' \in {"thrown", "backoff", "ready"}
      /\ phase' # "thrown" => Seen(class) = class /\ class \in {"rate", "down", "timeout"}
      /\ phase' = "backoff" => tries < MaxRetries /\ tries' = tries + 1 /\ pos' = pos
      /\ phase' = "ready" => ~(tries < MaxRetries) /\ pos < Len(Chain) /\ pos' = pos + 1 /\ tries' = 0
      /\ phase' = "thrown" => pos' = pos /\ tries' = tries
  BY FailureOutcome
<1>3. /\ attempt \in Nat /\ pos \in 1..Len(Chain) /\ tries \in 0..MaxRetries /\ Len(Chain) \in Nat
      /\ DOMAIN Chain = 1..Len(Chain)
  BY DEF IInv, Typed, TypeOK
<1>4. phase' # "thrown" => (attempt \in dropped' \/ (attempt \notin wrote /\ Running = {}))
  BY <1>2
<1>5. Typed'
  <2>1. TypeOK'
    <3>1. TypeOK
      BY DEF IInv, Typed
    <3>2. pos' \in DOMAIN Chain /\ tries' \in 0..MaxRetries
      BY <1>2, <1>3
    <3>3. \A i \in DOMAIN calls' : calls'[i] \in [kind : Kinds, running : BOOLEAN]
      BY <1>1
    <3>4. names' \subseteq DOMAIN calls' /\ completed' \subseteq Kinds
          /\ happened' \in BOOLEAN /\ open' \in BOOLEAN
      BY <1>1
    <3> QED
      BY <1>1, <1>2, <3>1, <3>2, <3>3, <3>4 DEF TypeOK
  <2>2. zombies' \subseteq Nat \X Nat \X Kinds
    <3>1. ASSUME NEW i \in Running PROVE i \in Nat /\ calls[i].kind \in Kinds
      <4>1. calls \in Seq(CallRecords) /\ i \in DOMAIN calls
        BY DEF IInv, Typed, Running
      <4>2. i \in Nat /\ calls[i] \in CallRecords
        BY <4>1
      <4> QED
        BY <4>2 DEF CallRecords
    <3> QED
      BY <1>1, <1>3, <3>1 DEF IInv, Typed
  <2> QED
    BY <1>1, <1>3, <2>1, <2>2 DEF IInv, Typed
<1>6. Counted'
  <2> DEFINE M == MaxRetries + 1
             done == (pos - 1) * M
  <2>1. attempt <= done + tries + 1
    BY DEF IInv, Counted
  <2>2. M \in Nat /\ done \in Nat
    BY <1>3
  <2>3. (pos + 1 - 1) * M = done + M
    BY <1>3, <2>2, NextMultiple
  <2>4. Len(calls') <= MaxCalls /\ (phase' # "thrown" => spent' <= ToolBudget)
    BY <1>1, <1>2
  <2>5. CASE phase' = "backoff"
    BY <1>1, <1>2, <1>3, <2>1, <2>2, <2>4, <2>5 DEF Counted
  <2>6. CASE phase' = "ready"
    <3>1. attempt <= done + M
      BY <1>2, <1>3, <2>1, <2>2, <2>6
    <3>2. (pos' - 1) * (MaxRetries + 1) + tries' + 0 = done + M
      BY <1>2, <1>3, <2>2, <2>3, <2>6
    <3> QED
      BY <1>1, <2>4, <2>6, <3>1, <3>2 DEF Counted
  <2>7. CASE phase' = "thrown"
    BY <1>1, <1>2, <1>3, <2>1, <2>2, <2>4, <2>7 DEF Counted
  <2> QED
    BY <1>2, <2>5, <2>6, <2>7
<1>7. Attempted'
  BY <1>2 DEF Attempted
<1>8. Repeatable'
  BY <1>1, <1>4 DEF Repeatable
<1>9. Leftovers'
  <2> SUFFICES ASSUME phase' # "thrown", NEW z \in zombies' PROVE z[1] \in dropped'
    BY DEF Leftovers
  <2>1. CASE z \in zombies
    BY <2>1 DEF IInv, Leftovers
  <2>2. CASE z \notin zombies
    BY <1>1, <1>4, <2>2
  <2> QED
    BY <2>1, <2>2
<1>10. Ended'
  BY <1>1, <1>2 DEF IInv, Ended
<1>11. EffectsNotRepeated'
  BY <1>1 DEF IInv, EffectsNotRepeated
<1>12. OneEnding'
  BY <1>1 DEF IInv, OneEnding, Ended
<1> QED
  BY <1>5, <1>6, <1>7, <1>8, <1>9, <1>10, <1>11, <1>12 DEF IInv

\* When nothing is unread, an outcome that is safe to retry has no effects and
\* no tool that runs.
LEMMA SafeMeansSafe ==
  ASSUME IInv, phase = "attempt", Streaming, NEW class, Seen(class) = class, class # "final",
         \A i \in DOMAIN calls : ~Unread(i)
  PROVE  attempt \notin wrote /\ Running = {}
<1>1. \A i \in DOMAIN calls : Traced(i)
  BY DEF IInv, Attempted
<1>2. calls # <<>> => names = {} /\ completed \cap Effectful = {}
  BY DEF Seen, RetrySafe
<1>3. calls = <<>> => DOMAIN calls = {}
  OBVIOUS
<1>4. \A i \in DOMAIN calls : ~calls[i].running /\ calls[i].kind \notin Effectful
  BY <1>1, <1>2, <1>3 DEF Traced
<1> QED
  BY <1>4 DEF IInv, Attempted, Running

\* Each way for an attempt to fail.
LEMMA FailuresKeep ==
  ASSUME IInv,
         \/ DeadlineFires \/ AttemptAborted \/ ReadError
         \/ \E class \in Classes : StreamBreaks(class) \/ CallRejects(class)
  PROVE  IInv'
<1> USE TurnAssumption
<1>t. /\ Typed /\ aborted \subseteq {"user", "budget"} /\ parts \in Seq(Parts)
      /\ phase # "thrown" => spent \in 0..(ToolBudget + MaxCalls) /\ spent <= ToolBudget
  BY DEF IInv, Typed, TypeOK, Counted
<1>1. CASE DeadlineFires
  <2>1. phase = "attempt" /\ AttemptFails(Stall) /\ UNCHANGED <<aborted, spent, dropped>>
    BY <1>1 DEF DeadlineFires
  <2> QED
    BY <1>t, <2>1, FailKeeps DEF Stall
<1>2. CASE AttemptAborted
  <2>1. phase = "attempt" /\ AttemptFails("abort") /\ UNCHANGED <<aborted, spent, dropped>>
    BY <1>2 DEF AttemptAborted
  <2> QED
    BY <1>t, <2>1, FailKeeps
<1>3. CASE ReadError
  <2>1. /\ phase = "attempt" /\ parts # <<>> /\ parts[1][1] = "error"
        /\ AttemptFails(parts[1][2]) /\ UNCHANGED <<aborted, spent, dropped>>
    BY <1>3 DEF ReadError, Reading
  <2>2. Streaming /\ Ordered
    BY <2>1 DEF IInv, Attempted
  <2>3. 1 \in DOMAIN parts /\ DOMAIN parts \subseteq Nat \ {0}
    BY <1>t, <2>1
  <2>4. \A k \in DOMAIN parts : parts[k][1] # "call"
    BY <2>1, <2>2, <2>3 DEF Ordered
  <2>5. \A i : ~Unread(i)
    BY <2>4 DEF Unread
  <2>6. parts[1][2] \in {"rate", "down", "timeout"} /\ Seen(parts[1][2]) = parts[1][2]
          => attempt \notin wrote /\ Running = {}
    BY <2>1, <2>2, <2>5, SafeMeansSafe
  <2> QED
    BY <1>t, <2>1, <2>6, FailKeeps
<1>4. ASSUME NEW class \in Classes, StreamBreaks(class) PROVE IInv'
  <2>1. /\ phase = "attempt" /\ Streaming
        /\ AttemptFails(class) /\ UNCHANGED <<aborted, spent>>
        /\ dropped' = IF \E k \in DOMAIN parts : parts[k][1] = "call"
                        THEN dropped \cup {attempt} ELSE dropped
    BY <1>4 DEF StreamBreaks, Attempting
  <2>2. attempt \notin dropped' => \A i : ~Unread(i)
    BY <2>1 DEF Unread
  <2>3. class \in {"rate", "down", "timeout"} /\ Seen(class) = class /\ attempt \notin dropped'
          => attempt \notin wrote /\ Running = {}
    BY <2>1, <2>2, SafeMeansSafe
  <2> QED
    BY <1>t, <2>1, <2>3, FailKeeps
<1>5. ASSUME NEW class \in Classes, CallRejects(class) PROVE IInv'
  <2>1. /\ phase = "attempt" /\ ~Streaming /\ Running = {}
        /\ AttemptFails(class) /\ UNCHANGED <<aborted, spent, dropped>>
    BY <1>5 DEF CallRejects, Attempting
  <2>2. class # "final" /\ Seen(class) = class => \A i \in DOMAIN calls : calls[i].kind \notin Effectful
    <3>1. calls = <<>> => DOMAIN calls = {}
      OBVIOUS
    <3> QED
      BY <2>1, <3>1 DEF Seen, RetrySafe
  <2>3. class \in {"rate", "down", "timeout"} /\ Seen(class) = class => attempt \notin wrote
    BY <2>1, <2>2 DEF IInv, Attempted
  <2> QED
    BY <1>t, <2>1, <2>3, FailKeeps
<1> QED
  BY <1>1, <1>2, <1>3, <1>4, <1>5

-----------------------------------------------------------------------------
(* An attempt that goes on *)

LEMMA Numbers ==
  ASSUME IInv
  PROVE  /\ attempt \in Nat /\ pos \in 1..Len(Chain) /\ tries \in 0..MaxRetries /\ Len(Chain) \in Nat
         /\ DOMAIN Chain = 1..Len(Chain) /\ wrote \subseteq 0..attempt
         /\ calls \in Seq(CallRecords) /\ parts \in Seq(Parts) /\ Len(calls) \in Nat
         /\ spent \in Nat /\ MaxRetries \in Nat /\ MaxCalls \in Nat /\ ToolBudget \in Nat
         /\ DOMAIN calls = 1..Len(calls) /\ DOMAIN parts = 1..Len(parts)
BY TurnAssumption DEF IInv, Typed, TypeOK

\* Whatever the provider, its tools and the loop do, as long as the attempt
\* goes on they owe no more than what is typed, and Attempted.
LEMMA GoesOn ==
  ASSUME IInv, phase = "attempt", phase' = "attempt",
         UNCHANGED <<pos, tries, attempt, aborted, event, promise, zombies, dropped>>,
         calls' \in Seq(CallRecords), parts' \in Seq(Parts), Len(calls') <= MaxCalls,
         names' \subseteq DOMAIN calls', happened' \in BOOLEAN, open' \in BOOLEAN,
         completed' \subseteq Kinds, spent' \in 0..ToolBudget,
         state' \in {state, "executing"}, wrote' \subseteq wrote \cup {attempt},
         Attempted'
  PROVE  IInv'
<1>1. TypeOK'
  <2>1. TypeOK
    BY DEF IInv, Typed
  <2>2. \A i \in DOMAIN calls' : calls'[i] \in [kind : Kinds, running : BOOLEAN]
    <3>1. \A i \in DOMAIN calls' : calls'[i] \in CallRecords
      OBVIOUS
    <3> QED
      BY <3>1 DEF CallRecords
  <2>3. spent' \in 0..(ToolBudget + MaxCalls)
    BY TurnAssumption
  <2>4. state' \in {"preparing", "executing", "failed", "cancelled"} \cup Finished
    BY <2>1 DEF TypeOK
  <2> QED
    BY <2>1, <2>2, <2>3, <2>4 DEF TypeOK
<1>2. Typed'
  BY <1>1, Numbers DEF IInv, Typed
<1>3. Counted'
  BY DEF IInv, Counted
<1>4. promise = "pending" /\ event = "none" /\ state \in {"preparing", "executing"}
  BY DEF IInv, Ended, OneEnding
<1>5. Ended' /\ OneEnding'
  BY <1>4 DEF Ended, OneEnding, IInv, Finished
<1>6. Repeatable' /\ Leftovers' /\ EffectsNotRepeated'
  BY DEF IInv, Repeatable, Leftovers, EffectsNotRepeated
<1> QED
  BY <1>2, <1>3, <1>5, <1>6 DEF IInv

\* A tool may start.
LEMMA CallAdded ==
  ASSUME IInv, NEW kind \in Kinds, EmitCall(kind)
  PROVE  IInv'
<1>1. /\ phase = "attempt" /\ open /\ Len(calls) < MaxCalls
      /\ calls' = Append(calls, [kind |-> kind, running |-> TRUE])
      /\ Streaming => parts' = Append(parts, <<"call", Len(calls) + 1>>)
      /\ ~Streaming => parts' = parts
      /\ wrote' = IF kind \in Effectful THEN wrote \cup {attempt} ELSE wrote
      /\ UNCHANGED <<phase, pos, tries, attempt, open, names, happened, completed,
                     aborted, spent, state, event, promise, zombies, dropped>>
  BY DEF EmitCall, Attempting, runVars
<1> DEFINE n == Len(calls) + 1
<1>2. /\ calls' \in Seq(CallRecords) /\ Len(calls') = n /\ n \in Nat
      /\ DOMAIN calls' = DOMAIN calls \cup {n} /\ n \notin DOMAIN calls
      /\ \A i \in DOMAIN calls : calls'[i] = calls[i]
      /\ calls'[n].kind = kind
  <2>1. calls \in Seq(CallRecords) /\ [kind |-> kind, running |-> TRUE] \in CallRecords
    BY Numbers DEF CallRecords
  <2>2. /\ calls' \in Seq(CallRecords) /\ Len(calls') = n /\ n \in Nat
        /\ DOMAIN calls' = 1..n /\ DOMAIN calls = 1..Len(calls)
        /\ \A i \in 1..Len(calls) : calls'[i] = calls[i]
        /\ calls'[n] = [kind |-> kind, running |-> TRUE]
    BY <1>1, <2>1
  <2>3. DOMAIN calls' = DOMAIN calls \cup {n}
    BY <2>2, Numbers
  <2> QED
    BY <2>2, <2>3
<1>3. Streaming' <=> Streaming
  BY <1>1 DEF Streaming, Provider
<1>4. Streaming => /\ parts' \in Seq(Parts)
                   /\ DOMAIN parts' = DOMAIN parts \cup {Len(parts) + 1}
                   /\ \A k \in DOMAIN parts : parts'[k] = parts[k]
                   /\ parts'[Len(parts) + 1] = <<"call", n>>
                   /\ \A i : Unread(i) => Unread(i)'
  <2>1. <<"call", n>> \in Parts
    BY <1>2 DEF Parts
  <2> QED
    BY <1>1, <2>1, PartAdded, Numbers
<1>5. Attempted'
  <2>1. ASSUME attempt' \in wrote' PROVE \E i \in DOMAIN calls' : calls'[i].kind \in Effectful
    <3>1. CASE kind \in Effectful
      BY <1>2, <3>1
    <3>2. CASE kind \notin Effectful
      <4>1. attempt \in wrote
        BY <1>1, <2>1, <3>2
      <4>2. PICK i \in DOMAIN calls : calls[i].kind \in Effectful
        BY <1>1, <4>1 DEF IInv, Attempted
      <4> QED
        BY <1>2, <4>2
    <3> QED
      BY <3>1, <3>2
  <2>2. ASSUME Streaming PROVE Ordered'
    <3>1. Ordered
      BY <1>1, <2>2 DEF IInv, Attempted
    <3>2. \A k \in DOMAIN parts : parts[k][1] \notin {"error", "end"}
      BY <1>1, <3>1 DEF Ordered
    <3>3. ASSUME NEW k \in DOMAIN parts'
          PROVE  /\ parts'[k][1] \in {"call", "result"} => parts'[k][2] \in DOMAIN calls'
                 /\ parts'[k][1] = "result" => ~calls'[parts'[k][2]].running
                 /\ parts'[k][1] \notin {"error", "end"}
      <4>1. CASE k \in DOMAIN parts
        BY <1>2, <1>4, <2>2, <3>1, <3>2, <4>1 DEF Ordered
      <4>2. CASE k = Len(parts) + 1
        BY <1>2, <1>4, <2>2, <4>2
      <4> QED
        BY <1>4, <2>2, <4>1, <4>2
    <3> QED
      BY <3>3 DEF Ordered
  <2>3. ASSUME Streaming, NEW i \in DOMAIN calls' PROVE Traced(i)'
    <3>1. CASE i = n
      <4>1. Unread(i)'
        BY <1>4, <2>3, <3>1 DEF Unread
      <4> QED
        BY <4>1 DEF Traced
    <3>2. CASE i \in DOMAIN calls
      <4>1. Traced(i)
        BY <1>1, <2>3, <3>2 DEF IInv, Attempted
      <4> QED
        BY <1>1, <1>2, <1>4, <2>3, <3>2, <4>1 DEF Traced
    <3> QED
      BY <1>2, <3>1, <3>2
  <2>4. ~Streaming => parts' = <<>>
    BY <1>1 DEF IInv, Attempted
  <2> QED
    BY <1>3, <2>1, <2>2, <2>3, <2>4 DEF Attempted
<1>6. parts' \in Seq(Parts)
  BY <1>1, <1>4, Numbers
<1>7. names \subseteq DOMAIN calls' /\ happened \in BOOLEAN /\ completed \subseteq Kinds /\ open \in BOOLEAN
  BY <1>2 DEF IInv, Typed, TypeOK
<1>8. spent \in 0..ToolBudget
  BY <1>1, Numbers DEF IInv, Counted
<1>9. Len(calls') <= MaxCalls
  BY <1>1, <1>2, Numbers
<1> QED
  BY <1>1, <1>2, <1>5, <1>6, <1>7, <1>8, <1>9, GoesOn

\* A tool may end.
LEMMA CallEnded ==
  ASSUME IInv, NEW i \in DOMAIN calls, ToolEnds(i)
  PROVE  IInv'
<1>1. /\ phase = "attempt" /\ calls[i].running
      /\ calls' = [calls EXCEPT ![i].running = FALSE]
      /\ Streaming => parts' = Append(parts, <<"result", i>>)
      /\ ~Streaming => parts' = parts
      /\ UNCHANGED <<phase, pos, tries, attempt, open, names, happened, completed,
                     aborted, spent, state, event, promise, zombies, wrote, dropped>>
  BY DEF ToolEnds, Running, runVars, history
<1>2. calls \in Seq(CallRecords) /\ i \in Nat /\ DOMAIN calls = 1..Len(calls) /\ Len(calls) \in Nat
  BY Numbers
<1>3. /\ calls' \in Seq(CallRecords) /\ Len(calls') = Len(calls) /\ DOMAIN calls' = DOMAIN calls
      /\ \A j \in DOMAIN calls : /\ calls'[j].kind = calls[j].kind
                                 /\ calls'[j].running => calls[j].running
      /\ ~calls'[i].running
  <2>1. \A j \in DOMAIN calls : calls[j] \in CallRecords
    BY <1>2
  <2>2. DOMAIN calls' = DOMAIN calls /\ \A j \in DOMAIN calls : j # i => calls'[j] = calls[j]
    BY <1>1, <1>2
  <2>3. calls'[i] = [calls[i] EXCEPT !.running = FALSE]
    BY <1>1, <1>2
  <2>4. calls'[i] \in CallRecords /\ calls'[i].kind = calls[i].kind /\ ~calls'[i].running
    BY <2>1, <2>3 DEF CallRecords
  <2>5. calls' \in [1..Len(calls) -> CallRecords]
    <3>1. \A j \in 1..Len(calls) : calls'[j] \in CallRecords
      BY <1>2, <2>1, <2>2, <2>4
    <3>2. calls' = [j \in 1..Len(calls) |-> calls'[j]]
      BY <1>1, <1>2
    <3> QED
      BY <3>1, <3>2
  <2>6. calls' \in Seq(CallRecords) /\ Len(calls') = Len(calls)
    BY <1>2, <2>5
  <2> QED
    BY <2>2, <2>4, <2>6
<1>4. Streaming' <=> Streaming
  BY <1>1 DEF Streaming, Provider
<1>5. Streaming => /\ parts' \in Seq(Parts)
                   /\ DOMAIN parts' = DOMAIN parts \cup {Len(parts) + 1}
                   /\ \A k \in DOMAIN parts : parts'[k] = parts[k]
                   /\ parts'[Len(parts) + 1] = <<"result", i>>
                   /\ \A j : Unread(j) => Unread(j)'
  <2>1. <<"result", i>> \in Parts
    BY <1>2 DEF Parts
  <2> QED
    BY <1>1, <2>1, PartAdded, Numbers
<1>6. Attempted'
  <2>1. attempt' \in wrote' => \E j \in DOMAIN calls' : calls'[j].kind \in Effectful
    BY <1>1, <1>3 DEF IInv, Attempted
  <2>2. ASSUME Streaming PROVE Ordered'
    <3>1. Ordered
      BY <1>1, <2>2 DEF IInv, Attempted
    <3>2. ASSUME NEW k \in DOMAIN parts'
          PROVE  /\ parts'[k][1] \in {"call", "result"} => parts'[k][2] \in DOMAIN calls'
                 /\ parts'[k][1] = "result" => ~calls'[parts'[k][2]].running
      <4>1. CASE k \in DOMAIN parts
        BY <1>3, <1>5, <2>2, <3>1, <4>1 DEF Ordered
      <4>2. CASE k = Len(parts) + 1
        BY <1>3, <1>5, <2>2, <4>2
      <4> QED
        BY <1>5, <2>2, <4>1, <4>2
    <3>3. ASSUME NEW k \in DOMAIN parts', parts'[k][1] \in {"error", "end"}
          PROVE  ~open /\ \A j \in DOMAIN parts' : parts'[j][1] = "call" => j < k
      <4>1. k \in DOMAIN parts /\ parts'[k] = parts[k]
        BY <1>5, <2>2, <3>3
      <4>2. ~open /\ \A j \in DOMAIN parts : parts[j][1] = "call" => j < k
        BY <3>1, <3>3, <4>1 DEF Ordered
      <4> QED
        BY <1>5, <2>2, <4>2
    <3> QED
      BY <1>1, <3>2, <3>3 DEF Ordered
  <2>3. ASSUME Streaming, NEW j \in DOMAIN calls' PROVE Traced(j)'
    <3>1. Traced(j) /\ j \in DOMAIN calls
      BY <1>1, <1>3, <2>3 DEF IInv, Attempted
    <3> QED
      BY <1>1, <1>3, <1>5, <2>3, <3>1 DEF Traced
  <2>4. ~Streaming => parts' = <<>>
    BY <1>1 DEF IInv, Attempted
  <2> QED
    BY <1>4, <2>1, <2>2, <2>3, <2>4 DEF Attempted
<1>7. parts' \in Seq(Parts)
  BY <1>1, <1>5, Numbers
<1>8. names \subseteq DOMAIN calls' /\ happened \in BOOLEAN /\ completed \subseteq Kinds /\ open \in BOOLEAN
  BY <1>3 DEF IInv, Typed, TypeOK
<1>9. spent \in 0..ToolBudget /\ Len(calls') <= MaxCalls
  BY <1>1, <1>3, Numbers DEF IInv, Counted
<1> QED
  BY <1>1, <1>3, <1>6, <1>7, <1>8, <1>9, GoesOn

\* The provider may end its stream, or say that it has failed.
LEMMA LastAdded ==
  ASSUME IInv, NEW part \in LastParts, EmitLast(part)
  PROVE  IInv'
<1>1. /\ phase = "attempt" /\ open /\ Streaming /\ open' = FALSE
      /\ parts' = Append(parts, part)
      /\ UNCHANGED <<phase, pos, tries, attempt, calls, names, happened, completed,
                     aborted, spent, state, event, promise, zombies, wrote, dropped>>
  BY DEF EmitLast, Attempting, runVars, history
<1>2. part \in Parts /\ part[1] \in {"error", "end"}
  BY DEF Parts, LastParts
<1>3. Streaming'
  BY <1>1 DEF Streaming, Provider
<1>4. /\ parts' \in Seq(Parts)
      /\ DOMAIN parts' = DOMAIN parts \cup {Len(parts) + 1}
      /\ \A k \in DOMAIN parts : parts'[k] = parts[k]
      /\ parts'[Len(parts) + 1] = part
      /\ \A i : Unread(i) => Unread(i)'
  BY <1>1, <1>2, PartAdded, Numbers
<1>5. Ordered /\ \A i \in DOMAIN calls : Traced(i)
  BY <1>1 DEF IInv, Attempted
<1>6. Ordered'
  <2>1. ASSUME NEW k \in DOMAIN parts'
        PROVE  /\ parts'[k][1] \in {"call", "result"} => parts'[k][2] \in DOMAIN calls'
               /\ parts'[k][1] = "result" => ~calls'[parts'[k][2]].running
    <3>1. CASE k \in DOMAIN parts
      BY <1>1, <1>4, <1>5, <3>1 DEF Ordered
    <3>2. CASE k = Len(parts) + 1
      BY <1>2, <1>4, <3>2
    <3> QED
      BY <1>4, <3>1, <3>2
  <2>2. ASSUME NEW k \in DOMAIN parts', parts'[k][1] \in {"error", "end"},
               NEW j \in DOMAIN parts', parts'[j][1] = "call"
        PROVE  j < k
    <3>1. k = Len(parts) + 1
      BY <1>1, <1>4, <1>5, <2>2 DEF Ordered
    <3>2. j \in DOMAIN parts
      BY <1>2, <1>4, <2>2
    <3> QED
      BY <3>1, <3>2, Numbers
  <2> QED
    BY <1>1, <2>1, <2>2 DEF Ordered
<1>7. \A i \in DOMAIN calls' : Traced(i)'
  BY <1>1, <1>4, <1>5 DEF Traced
<1>8. Attempted'
  BY <1>1, <1>3, <1>6, <1>7 DEF IInv, Attempted
<1>9. names \subseteq DOMAIN calls /\ happened \in BOOLEAN /\ completed \subseteq Kinds
  BY DEF IInv, Typed, TypeOK
<1>10. spent \in 0..ToolBudget /\ Len(calls) <= MaxCalls
  BY <1>1, Numbers DEF IInv, Counted
<1> QED
  BY <1>1, <1>4, <1>8, <1>9, <1>10, Numbers, GoesOn

\* What is left on the stream when its first part has been read is ordered.
LEMMA OrderKept ==
  ASSUME parts \in Seq(Parts), parts # <<>>, parts' = Tail(parts), Ordered,
         UNCHANGED <<calls, open>>
  PROVE  Ordered'
<1>1. /\ DOMAIN parts' \subseteq Nat
      /\ \A k \in DOMAIN parts' : k + 1 \in DOMAIN parts /\ parts'[k] = parts[k + 1]
  <2>1. parts' \in Seq(Parts)
    BY PartRead
  <2> QED
    BY <2>1, PartRead
<1>2. ASSUME NEW k \in DOMAIN parts', parts'[k][1] \in {"error", "end"},
             NEW j \in DOMAIN parts', parts'[j][1] = "call"
      PROVE  j < k
  <2>1. j + 1 < k + 1
    BY <1>1, <1>2 DEF Ordered
  <2> QED
    BY <1>1, <2>1
<1> QED
  BY <1>1, <1>2 DEF Ordered

\* The loop reads a call: it knows it by name, unless the budget is exceeded.
LEMMA CallRead ==
  ASSUME IInv, ReadCall
  PROVE  IInv'
<1>1. phase = "attempt" /\ parts # <<>> /\ parts[1][1] = "call" /\ spent' = spent + 1
  BY DEF ReadCall, Reading
<1>2. Streaming /\ Ordered /\ \A i \in DOMAIN calls : Traced(i)
  BY <1>1 DEF IInv, Attempted
<1>3. 1 \in DOMAIN parts /\ parts[1][2] \in DOMAIN calls
  BY <1>1, <1>2, PartRead, Numbers DEF Ordered
<1>4. spent <= ToolBudget /\ Len(calls) <= MaxCalls /\ Len(calls) >= 1
  <2>1. spent <= ToolBudget /\ Len(calls) <= MaxCalls
    BY <1>1 DEF IInv, Counted
  <2>2. \A i \in DOMAIN calls : Len(calls) >= 1
    BY Numbers
  <2> QED
    BY <1>3, <2>1, <2>2
<1>5. CASE spent + 1 <= ToolBudget
  <2>1. /\ names' = names \cup {parts[1][2]} /\ happened' = TRUE
        /\ parts' = Tail(parts) /\ state' = "executing"
        /\ UNCHANGED <<phase, pos, tries, attempt, calls, open, completed,
                       aborted, event, promise, zombies, wrote, dropped>>
    BY <1>5 DEF ReadCall, history
  <2>2. /\ parts' \in Seq(Parts)
        /\ \A i : Unread(i) => Unread(i)' \/ parts[1] = <<"call", i>>
    BY <1>1, <2>1, PartRead, Numbers
  <2>3. Streaming' /\ Ordered'
    BY <1>1, <1>2, <2>1, OrderKept, Numbers DEF Streaming, Provider
  <2>4. ASSUME NEW i \in DOMAIN calls' PROVE Traced(i)'
    <3>1. Unread(i) => Unread(i)' \/ i \in names'
      BY <2>1, <2>2
    <3> QED
      BY <1>2, <2>1, <3>1 DEF Traced
  <2>5. Attempted'
    BY <1>1, <2>1, <2>3, <2>4 DEF IInv, Attempted
  <2>6. names' \subseteq DOMAIN calls' /\ completed \subseteq Kinds /\ open \in BOOLEAN
    BY <1>3, <2>1 DEF IInv, Typed, TypeOK
  <2>7. spent' \in 0..ToolBudget
    BY <1>1, <1>5, Numbers
  <2> QED
    BY <1>1, <1>4, <2>1, <2>2, <2>5, <2>6, <2>7, Numbers, GoesOn
<1>6. CASE ~(spent + 1 <= ToolBudget)
  <2>1. AttemptFails("budget") /\ aborted' = aborted \cup {"budget"} /\ dropped' = dropped
    BY <1>6 DEF ReadCall
  <2>2. spent' \in 0..(ToolBudget + MaxCalls)
    BY <1>1, <1>4, Numbers
  <2>3. aborted' \subseteq {"user", "budget"}
    BY <2>1 DEF IInv, Typed, TypeOK
  <2> QED
    BY <1>1, <2>1, <2>2, <2>3, FailKeeps
<1> QED
  BY <1>5, <1>6

\* The loop reads a result: the kind of its call counts as completed.
LEMMA ResultRead ==
  ASSUME IInv, ReadResult
  PROVE  IInv'
<1> DEFINE r == parts[1][2]
<1>1. /\ phase = "attempt" /\ parts # <<>> /\ parts[1][1] = "result"
      /\ names' = names \ {r} /\ completed' = completed \cup {calls[r].kind}
      /\ parts' = Tail(parts)
      /\ UNCHANGED <<phase, pos, tries, attempt, calls, open, happened, aborted,
                     spent, state, event, promise, zombies, wrote, dropped>>
  BY DEF ReadResult, Reading, runVars, history
<1>2. Streaming /\ Ordered /\ \A i \in DOMAIN calls : Traced(i)
  BY <1>1 DEF IInv, Attempted
<1>3. 1 \in DOMAIN parts /\ r \in DOMAIN calls /\ ~calls[r].running
  BY <1>1, <1>2, PartRead, Numbers DEF Ordered
<1>4. /\ parts' \in Seq(Parts)
      /\ \A i : Unread(i) => Unread(i)' \/ parts[1] = <<"call", i>>
  BY <1>1, PartRead, Numbers
<1>5. \A i : Unread(i) => Unread(i)'
  BY <1>1, <1>4
<1>6. Streaming' /\ Ordered'
  BY <1>1, <1>2, OrderKept, Numbers DEF Streaming, Provider
<1>7. ASSUME NEW i \in DOMAIN calls' PROVE Traced(i)'
  <2>1. CASE i = r
    BY <1>1, <1>3, <2>1 DEF Traced
  <2>2. CASE i # r
    BY <1>1, <1>2, <1>5, <1>7, <2>2 DEF Traced
  <2> QED
    BY <2>1, <2>2
<1>8. Attempted'
  BY <1>1, <1>6, <1>7 DEF IInv, Attempted
<1>9. calls[r].kind \in Kinds
  BY <1>3 DEF IInv, Typed, TypeOK
<1>10. names' \subseteq DOMAIN calls' /\ completed' \subseteq Kinds /\ open \in BOOLEAN /\ happened \in BOOLEAN
  BY <1>1, <1>9 DEF IInv, Typed, TypeOK
<1>11. spent \in 0..ToolBudget /\ Len(calls) <= MaxCalls
  BY <1>1, Numbers DEF IInv, Counted
<1> QED
  BY <1>1, <1>4, <1>8, <1>10, <1>11, Numbers, GoesOn

-----------------------------------------------------------------------------
(* Between the attempts, and around them *)

\* An attempt that succeeds leaves no tool behind.
LEMMA SuccessKeeps ==
  ASSUME IInv, phase = "attempt", AttemptSucceeds, aborted' = aborted,
         spent' \in 0..ToolBudget, state' \in {state, "executing"}
  PROVE  IInv'
<1>1. /\ phase' = "returned" /\ open' = FALSE
      /\ UNCHANGED <<pos, tries, attempt, calls, parts, names, happened, completed,
                     event, promise, zombies, wrote, dropped>>
  BY DEF AttemptSucceeds, history
<1>2. spent' \in 0..(ToolBudget + MaxCalls)
  BY Numbers
<1>3. promise = "pending" /\ event = "none" /\ state \in {"preparing", "executing"}
  BY DEF IInv, Ended, OneEnding
<1>4. TypeOK'
  BY <1>1, <1>2, <1>3 DEF IInv, Typed, TypeOK
<1>5. Typed'
  BY <1>1, <1>4 DEF IInv, Typed
<1>6. Counted'
  <2>1. /\ Len(calls) <= MaxCalls
        /\ attempt <= (pos - 1) * (MaxRetries + 1) + tries + 1
    BY DEF IInv, Counted
  <2> QED
    BY <1>1, <2>1 DEF Counted
<1>7. Attempted' /\ Repeatable' /\ Leftovers' /\ EffectsNotRepeated'
  BY <1>1 DEF IInv, Attempted, Repeatable, Leftovers, EffectsNotRepeated
<1>8. Ended' /\ OneEnding'
  BY <1>1, <1>3 DEF IInv, Ended, OneEnding, Finished
<1> QED
  BY <1>5, <1>6, <1>7, <1>8 DEF IInv

\* generateText() resolves: over budget, the attempt fails.
LEMMA ResolutionKeeps ==
  ASSUME IInv, CallResolves
  PROVE  IInv'
<1>1. phase = "attempt"
  BY DEF CallResolves, Attempting
<1>2. spent <= ToolBudget /\ Len(calls) <= MaxCalls
  BY <1>1 DEF IInv, Counted
<1>3. CASE spent + Len(calls) <= ToolBudget
  <2>1. /\ spent' = spent + Len(calls) /\ AttemptSucceeds /\ aborted' = aborted
        /\ state' \in {state, "executing"}
    BY <1>3 DEF CallResolves
  <2>2. spent' \in 0..ToolBudget
    BY <1>3, <2>1, Numbers
  <2> QED
    BY <1>1, <2>1, <2>2, SuccessKeeps
<1>4. CASE ~(spent + Len(calls) <= ToolBudget)
  <2>1. /\ spent' = ToolBudget + 1 /\ aborted' = aborted \cup {"budget"}
        /\ AttemptFails("budget") /\ dropped' = dropped
    BY <1>4 DEF CallResolves
  <2>2. spent' \in 0..(ToolBudget + MaxCalls)
    BY <1>2, <1>4, <2>1, Numbers
  <2>3. aborted' \subseteq {"user", "budget"}
    BY <2>1 DEF IInv, Typed, TypeOK
  <2> QED
    BY <1>1, <2>1, <2>2, <2>3, FailKeeps
<1> QED
  BY <1>3, <1>4

\* The next attempt is made over nothing but what has been dropped.
LEMMA StartKeeps ==
  ASSUME IInv, StartAttempt
  PROVE  IInv'
<1>1. /\ phase = "ready" /\ phase' = "attempt" /\ attempt' = attempt + 1
      /\ calls' = <<>> /\ parts' = <<>> /\ open' = TRUE
      /\ names' = {} /\ happened' = FALSE /\ completed' = {}
      /\ UNCHANGED <<pos, tries, aborted, spent, state, event, promise, zombies, wrote, dropped>>
  BY DEF StartAttempt, runVars, history
<1> DEFINE M == MaxRetries + 1
           bound == Len(Chain) * M
<1>2. M \in Nat /\ bound \in Nat /\ (pos - 1) * M \in Nat /\ pos * M \in Nat
  <2>1. M \in Nat /\ pos - 1 \in Nat /\ pos \in Nat /\ Len(Chain) \in Nat
    BY Numbers
  <2> QED
    BY <2>1, Product
<1>3. attempt <= (pos - 1) * M + tries /\ Len(calls) <= MaxCalls /\ spent <= ToolBudget
  <2>1. attempt <= (pos - 1) * (MaxRetries + 1) + tries + 0
    BY <1>1 DEF IInv, Counted
  <2> HIDE DEF M
  <2>2. attempt <= (pos - 1) * M + tries + 0
    BY <2>1 DEF M
  <2>3. attempt <= (pos - 1) * M + tries
    BY <1>2, <2>2, Numbers
  <2> QED
    BY <1>1, <2>3 DEF IInv, Counted
<1>4. attempt + 1 \in 0..bound
  <2>1. pos * M <= bound
    <3>1. pos \in Nat /\ Len(Chain) \in Nat /\ pos <= Len(Chain) /\ M \in Nat
      BY <1>2, Numbers
    <3> QED
      BY <3>1, MoreIsMore
  <2>2. pos * M = (pos - 1) * M + M
    <3>1. pos - 1 \in Nat /\ pos \in Nat
      BY Numbers
    <3>2. (pos + 1 - 1) * M = (pos - 1) * M + M
      BY <1>2, <3>1, NextMultiple
    <3>3. pos + 1 - 1 = pos
      BY <3>1
    <3> QED
      BY <3>2, <3>3
  <2>3. tries + 1 <= M
    BY Numbers
  <2> DEFINE before == (pos - 1) * M
             within == pos * M
  <2>4. before \in Nat /\ within \in Nat /\ bound \in Nat /\ M \in Nat /\ attempt \in Nat /\ tries \in Nat
    BY <1>2, Numbers
  <2>5. attempt <= before + tries /\ within = before + M /\ within <= bound
    BY <1>3, <2>1, <2>2
  <2> HIDE DEF M, bound, before, within
  <2> QED
    BY <2>3, <2>4, <2>5
<1>5. TypeOK'
  <2>1. TypeOK
    BY DEF IInv, Typed
  <2>2. attempt' \in 0..(Len(Chain) * (MaxRetries + 1))
    BY <1>1, <1>4
  <2>3. /\ \A i \in DOMAIN calls' : calls'[i] \in [kind : Kinds, running : BOOLEAN]
        /\ names' \subseteq DOMAIN calls' /\ completed' \subseteq Kinds
    BY <1>1
  <2> QED
    BY <1>1, <2>1, <2>2, <2>3 DEF TypeOK
<1>6. Typed'
  BY <1>1, <1>5, Numbers DEF IInv, Typed
<1>7. Counted'
  <2>1. Len(calls') <= MaxCalls
    BY <1>1, Numbers
  <2>2. attempt' <= (pos' - 1) * (MaxRetries + 1) + tries' + 1
    <3> DEFINE before == (pos - 1) * M
    <3>1. before \in Nat /\ attempt \in Nat /\ tries \in Nat /\ attempt <= before + tries
      BY <1>2, <1>3, Numbers
    <3>2. attempt + 1 <= before + tries + 1
      <4> HIDE DEF before
      <4> QED
        BY <3>1
    <3> QED
      BY <1>1, <3>2
  <2> QED
    BY <1>1, <1>3, <2>1, <2>2 DEF Counted
<1>8. attempt' \notin wrote'
  BY <1>1, Numbers
<1>9. Attempted'
  BY <1>1, <1>8 DEF Attempted, Ordered
<1>10. EffectsNotRepeated' /\ Repeatable' /\ Leftovers'
  BY <1>1 DEF IInv, EffectsNotRepeated, Repeatable, Leftovers
<1>11. Ended' /\ OneEnding'
  BY <1>1 DEF IInv, Ended, OneEnding
<1> QED
  BY <1>6, <1>7, <1>9, <1>10, <1>11 DEF IInv

\* What happens between two attempts, and around them.
LEMMA AroundKeeps ==
  ASSUME IInv,
         \/ BackoffOver \/ DriverAborted \/ RunFails
         \/ \E z \in zombies : ZombieEnds(z)
         \/ \E who \in {"user", "budget"} : Abort(who)
         \/ \E ending \in Finished, throws \in BOOLEAN : RunFinishes(ending, throws)
  PROVE  IInv'
<1>1. /\ UNCHANGED <<pos, tries, attempt, calls, parts, open, names, happened, completed,
                     spent, wrote, dropped>>
      /\ zombies' \subseteq zombies
  BY DEF BackoffOver, DriverAborted, RunFails, ZombieEnds, Abort, RunFinishes,
         attemptVars, runVars, history
<1>2. \/ phase' = phase
      \/ phase = "backoff" /\ phase' = "ready"
      \/ phase \in {"ready", "backoff"} /\ phase' = "thrown"
  BY DEF BackoffOver, DriverAborted, RunFails, ZombieEnds, Abort, RunFinishes
<1>3. /\ aborted \subseteq aborted'
      /\ \/ UNCHANGED <<state, event, promise>>
         \/ /\ phase \in {"returned", "thrown"} /\ phase' = phase
            /\ promise' \in {"resolved", "rejected"}
            /\ \/ /\ state' \in Finished /\ event' = "completed" /\ phase = "returned"
               \/ /\ state' \in {"cancelled", "failed"} /\ event' = "failed"
                  /\ promise' = "rejected"
                  /\ state' = "cancelled" => "user" \in aborted
    <2>1. CASE BackoffOver \/ DriverAborted \/ \E z \in zombies : ZombieEnds(z)
      BY <2>1 DEF BackoffOver, DriverAborted, ZombieEnds, runVars
    <2>2. CASE RunFails
      BY <2>2 DEF RunFails
    <2>3. CASE \E who \in {"user", "budget"} : Abort(who)
      BY <2>3 DEF Abort, runVars
    <2>4. CASE \E ending \in Finished, throws \in BOOLEAN : RunFinishes(ending, throws)
      BY <2>4 DEF RunFinishes
    <2> QED
      BY <2>1, <2>2, <2>3, <2>4
<1>4. aborted' \subseteq {"user", "budget"}
  <2>1. aborted \subseteq {"user", "budget"}
    BY DEF IInv, Typed, TypeOK
  <2>2. aborted' = aborted \/ aborted' \subseteq {"user", "budget"}
    BY DEF BackoffOver, DriverAborted, RunFails, ZombieEnds, Abort, RunFinishes
  <2> QED
    BY <2>1, <2>2
<1>5. TypeOK'
  BY <1>1, <1>2, <1>3, <1>4 DEF IInv, Typed, TypeOK, Finished
<1>6. Typed'
  BY <1>1, <1>5 DEF IInv, Typed
<1>7. Counted'
  <2>1. /\ Len(calls) <= MaxCalls
        /\ phase # "thrown" => spent <= ToolBudget
        /\ attempt <= (pos - 1) * (MaxRetries + 1) + tries
                      + (IF phase \in {"ready", "backoff"} THEN 0 ELSE 1)
    BY DEF IInv, Counted
  <2>2. (pos - 1) * (MaxRetries + 1) \in Nat /\ tries \in Nat
    <3>1. pos - 1 \in Nat /\ MaxRetries + 1 \in Nat /\ tries \in Nat
      BY Numbers
    <3> QED
      BY <3>1, Product
  <2>3. attempt <= (pos - 1) * (MaxRetries + 1) + tries
                   + (IF phase' \in {"ready", "backoff"} THEN 0 ELSE 1)
    BY <1>2, <2>1, <2>2, Numbers
  <2>4. phase' # "thrown" => spent' <= ToolBudget
    BY <1>1, <1>2, <2>1
  <2> QED
    BY <1>1, <2>1, <2>3, <2>4 DEF Counted
<1>8. Attempted'
  <2>1. phase' = "attempt" => phase = "attempt"
    BY <1>2
  <2>2. UNCHANGED <<pos, attempt, calls, parts, open, names, completed, wrote>>
    BY <1>1
  <2>3. (Streaming' <=> Streaming) /\ (Ordered' <=> Ordered) /\ \A i : Traced(i)' <=> Traced(i)
    BY <2>2 DEF Streaming, Provider, Ordered, Traced, Unread
  <2> QED
    BY <2>1, <2>2, <2>3 DEF IInv, Attempted
<1>9. Repeatable'
  BY <1>1, <1>2 DEF IInv, Repeatable
<1>10. Leftovers'
  BY <1>1, <1>2 DEF IInv, Leftovers
<1>11. EffectsNotRepeated'
  BY <1>1 DEF IInv, EffectsNotRepeated
<1>12. Ended'
  BY <1>2, <1>3 DEF IInv, Ended, Finished
<1>13. OneEnding'
  <2>1. OneEnding /\ Leftovers
    BY DEF IInv
  <2>2. CASE UNCHANGED <<state, event, promise>>
    BY <1>1, <1>3, <2>1, <2>2 DEF OneEnding, Finished
  <2>3. CASE state' \in Finished /\ event' = "completed" /\ phase = "returned" /\ promise' \in {"resolved", "rejected"}
    BY <1>1, <2>1, <2>3 DEF OneEnding, Leftovers, Finished
  <2>4. CASE /\ state' \in {"cancelled", "failed"} /\ event' = "failed" /\ promise' = "rejected"
             /\ state' = "cancelled" => "user" \in aborted
    BY <1>3, <2>4 DEF OneEnding, Finished
  <2> QED
    BY <1>3, <2>2, <2>3, <2>4
<1> QED
  BY <1>6, <1>7, <1>8, <1>9, <1>10, <1>11, <1>12, <1>13 DEF IInv

-----------------------------------------------------------------------------
(* The theorems *)

LEMMA InvStep == IInv /\ [Next]_vars => IInv'
<1> SUFFICES ASSUME IInv, [Next]_vars PROVE IInv'
  OBVIOUS
<1>1. CASE StartAttempt
  BY <1>1, StartKeeps
<1>2. CASE \/ DeadlineFires \/ AttemptAborted \/ ReadError
           \/ \E class \in Classes : StreamBreaks(class) \/ CallRejects(class)
  BY <1>2, FailuresKeep
<1>3. CASE ReadCall
  BY <1>3, CallRead
<1>4. CASE ReadResult
  BY <1>4, ResultRead
<1>5. CASE ReadEnd
  <2>1. phase = "attempt" /\ AttemptSucceeds /\ UNCHANGED <<aborted, spent, state>>
    BY <1>5 DEF ReadEnd, Reading
  <2>2. spent \in 0..ToolBudget
    BY <2>1, Numbers DEF IInv, Counted
  <2> QED
    BY <2>1, <2>2, SuccessKeeps
<1>6. CASE CallResolves
  BY <1>6, ResolutionKeeps
<1>7. CASE \E kind \in Kinds : EmitCall(kind)
  BY <1>7, CallAdded
<1>8. CASE \E i \in DOMAIN calls : ToolEnds(i)
  BY <1>8, CallEnded
<1>9. CASE \E part \in LastParts : EmitLast(part)
  BY <1>9, LastAdded
<1>10. CASE \/ BackoffOver \/ DriverAborted \/ RunFails
            \/ \E z \in zombies : ZombieEnds(z)
            \/ \E who \in {"user", "budget"} : Abort(who)
            \/ \E ending \in Finished, throws \in BOOLEAN : RunFinishes(ending, throws)
  BY <1>10, AroundKeeps
<1>11. CASE UNCHANGED vars
  <2>1. UNCHANGED <<phase, pos, tries, attempt, calls, parts, open, names, happened, completed,
                    aborted, spent, state, event, promise, zombies, wrote, dropped>>
    BY <1>11 DEF vars, attemptVars, runVars, history
  <2>2. (Streaming' <=> Streaming) /\ (Ordered' <=> Ordered) /\ \A i : Traced(i)' <=> Traced(i)
    BY <2>1 DEF Streaming, Provider, Ordered, Traced, Unread
  <2>3. Attempted'
    BY <2>1, <2>2 DEF IInv, Attempted
  <2>4. Typed' /\ Counted' /\ Repeatable' /\ Leftovers'
    BY <2>1 DEF IInv, Typed, TypeOK, Counted, Repeatable, Leftovers
  <2>5. Ended' /\ EffectsNotRepeated' /\ OneEnding'
    BY <2>1 DEF IInv, Ended, EffectsNotRepeated, OneEnding
  <2> QED
    BY <2>3, <2>4, <2>5 DEF IInv
<1> QED
  BY <1>1, <1>2, <1>3, <1>4, <1>5, <1>6, <1>7, <1>8, <1>9, <1>10, <1>11 DEF Next

\* IInv holds in every state of every behaviour.
THEOREM Invariant == Spec => []IInv
<1> QED
  BY InvInit, InvStep, PTL DEF Spec

\* No run makes more attempts than its providers and retries allow, or spends
\* more tool calls than the budget and one attempt.
THEOREM TypeCorrect == Spec => []TypeOK
<1>1. IInv => TypeOK
  BY DEF IInv, Typed
<1> QED
  BY <1>1, Invariant, PTL

\* An attempt that has started a tool with effects is the last one of its run,
\* on any provider, unless its stream broke over a call nobody had read.
THEOREM EffectsAreNotRepeated == Spec => []EffectsNotRepeated
<1>1. IInv => EffectsNotRepeated
  BY DEF IInv
<1> QED
  BY <1>1, Invariant, PTL

\* The last event of a run, its state and what run() returns agree, and no tool
\* outlives a completed run that the loop has known of.
THEOREM OneEndingOnly == Spec => []OneEnding
<1>1. IInv => OneEnding
  BY DEF IInv
<1> QED
  BY <1>1, Invariant, PTL
=============================================================================
