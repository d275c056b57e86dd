------------------------- MODULE PermissionGateProofs -------------------------
(***************************************************************************)
(* Proofs about PermissionGate for any number of requests and turns and    *)
(* every client.                                                           *)
(***************************************************************************)
EXTENDS PermissionGate, NaturalsInduction, WellFoundedInduction, TLAPS

-----------------------------------------------------------------------------
(* The inductive invariant *)

GateType ==
  /\ gate \in [Requests -> {"none", "pending", "settled"}]
  /\ answer \in [Requests -> Decisions \cup {"none"}]
  /\ settlements \in [Requests -> Nat]

\* No request of an interrupted turn waits.
NoneLeftWaiting == \A r \in Requests : gate[r] = "pending" => ~Aborted(r)

IInv == GateType /\ SettledOnce /\ NoneLeftWaiting

\* What a step makes of the requests: those in S settle with d, those in W
\* begin to wait, and nothing that had settled is touched.
Moves(S, W, d) ==
  /\ S \subseteq Requests /\ W \subseteq Requests /\ d \in Decisions
  /\ \A r \in S : gate[r] # "settled"
  /\ \A r \in W : gate[r] = "none" /\ ~Aborted(r)
  /\ gate' = [r \in Requests |-> IF r \in S THEN "settled"
                                 ELSE IF r \in W THEN "pending" ELSE gate[r]]
  /\ answer' = [r \in Requests |-> IF r \in S THEN d ELSE answer[r]]
  /\ settlements' = [r \in Requests |-> settlements[r] + IF r \in S THEN 1 ELSE 0]

-----------------------------------------------------------------------------
(* Lemmas about the operations of the gate *)

\* Such a step settles each request at most once.
LEMMA MovesSettleOnce ==
  ASSUME IInv, NEW S, NEW W, NEW d, Moves(S, W, d)
  PROVE  GateType' /\ SettledOnce'
<1>1. GateType'
  BY DEF IInv, GateType, Moves
<1>2. ASSUME NEW r \in Requests
      PROVE  /\ settlements'[r] = IF gate'[r] = "settled" THEN 1 ELSE 0
             /\ answer'[r] # "none" <=> gate'[r] = "settled"
  BY DEF IInv, GateType, SettledOnce, Moves, Decisions
<1> QED
  BY <1>1, <1>2 DEF SettledOnce

\* Nothing moves when the gate is left alone.
LEMMA NothingMoves ==
  ASSUME IInv, UNCHANGED <<gate, answer, settlements>>
  PROVE  Moves({}, {}, "deny")
  BY DEF IInv, GateType, Moves, Decisions

\* finish() of requests that have not settled.
LEMMA FinishMoves ==
  ASSUME IInv, NEW S \in SUBSET Requests, NEW d \in Decisions, Finish(S, d),
         \A r \in S : gate[r] # "settled"
  PROVE  Moves(S, {}, d)
  BY DEF Finish, Moves

\* respond(): to a request that waits, or to none.
LEMMA RespondMoves ==
  ASSUME IInv, NEW r \in Requests, NEW d \in Decisions, Respond(r, d)
  PROVE  \/ gate[r] = "pending" /\ Moves({r}, {}, d)
         \/ Moves({}, {}, "deny")
<1>1. CASE gate[r] = "pending"
  BY <1>1, FinishMoves DEF Respond
<1>2. CASE gate[r] # "pending"
  BY <1>2, NothingMoves DEF Respond
<1> QED
  BY <1>1, <1>2

\* wait(): settled at once by what it was given, denied, or left waiting.
LEMMA WaitMoves ==
  ASSUME IInv, NEW r \in Requests, gate[r] = "none",
         NEW response \in Decisions \cup {"none"}, Wait(r, response)
  PROVE  \/ response # "none" /\ Moves({r}, {}, response)
         \/ Moves({r}, {}, "deny")
         \/ ~Aborted(r) /\ Moves({}, {r}, "deny")
<1>1. CASE response # "none"
  <2>1. Finish({r}, response)
    BY <1>1 DEF Wait
  <2> QED
    BY <1>1, <2>1, FinishMoves
<1>2. CASE response = "none" /\ Aborted(r)
  <2>1. Finish({r}, "deny")
    BY <1>2 DEF Wait
  <2> QED
    BY <2>1, FinishMoves DEF Decisions
<1>3. CASE response = "none" /\ ~Aborted(r)
  <2>1. gate' = [gate EXCEPT ![r] = "pending"] /\ UNCHANGED <<answer, settlements>>
    BY <1>3 DEF Wait
  <2>2. /\ gate' = [q \in Requests |-> IF q \in {} THEN "settled"
                                       ELSE IF q \in {r} THEN "pending" ELSE gate[q]]
        /\ answer' = [q \in Requests |-> IF q \in {} THEN "deny" ELSE answer[q]]
        /\ settlements' = [q \in Requests |-> settlements[q] + IF q \in {} THEN 1 ELSE 0]
    <3>1. gate' = [q \in Requests |-> IF q \in {} THEN "settled"
                                     ELSE IF q \in {r} THEN "pending" ELSE gate[q]]
      BY <2>1 DEF IInv, GateType
    <3>3. answer' = [q \in Requests |-> IF q \in {} THEN "deny" ELSE answer[q]]
      BY <2>1 DEF IInv, GateType
    <3>4. settlements' = [q \in Requests |-> settlements[q] + IF q \in {} THEN 1 ELSE 0]
      BY <2>1 DEF IInv, GateType
    <3> QED
      BY <3>1, <3>3, <3>4
  <2>3. Moves({}, {r}, "deny")
    <3>1. \A q \in {r} : gate[q] = "none" /\ ~Aborted(q)
      BY <1>3
    <3>2. {} \subseteq Requests /\ {r} \subseteq Requests /\ "deny" \in Decisions
      BY DEF Decisions
    <3> QED
      BY <2>2, <3>1, <3>2, Zenon DEF Moves
  <2> QED
    BY <1>3, <2>3
<1> QED
  BY <1>1, <1>2, <1>3

-----------------------------------------------------------------------------
(* Every step *)

\* Who is allowed has waited until now, or asks a headless runner.
Permitted(S, d) == d = "allow" => \A r \in S : gate[r] = "pending" \/ mode = "headless"

Orderly == \E S, W, d : Moves(S, W, d) /\ Permitted(S, d)

\* No step but an interrupt can leave a request of an aborted turn waiting.
LEMMA WaitingKept ==
  ASSUME IInv, Orderly, UNCHANGED aborted
  PROVE  NoneLeftWaiting'
<1>1. PICK S, W, d : Moves(S, W, d)
  BY DEF Orderly
<1> QED
  BY <1>1 DEF IInv, NoneLeftWaiting, Aborted, Moves

\* Every action moves requests in such a way.
LEMMA GateStep == IInv /\ [Next]_vars => Orderly /\ NoneLeftWaiting'
<1> SUFFICES ASSUME IInv, [Next]_vars PROVE Orderly /\ NoneLeftWaiting'
  OBVIOUS
<1>n. ASSUME UNCHANGED <<gate, answer, settlements>> PROVE Orderly
  BY <1>n, NothingMoves DEF Orderly, Permitted
<1>a. ASSUME NEW r \in Requests, NEW d \in Decisions, Respond(r, d) PROVE Orderly
  <2>1. \/ gate[r] = "pending" /\ Moves({r}, {}, d)
        \/ Moves({}, {}, "deny")
    BY <1>a, RespondMoves
  <2> QED
    BY <2>1 DEF Orderly, Permitted
<1>f. ASSUME NEW S \in SUBSET Pending, Finish(S, "deny")
      PROVE  Moves(S, {}, "deny") /\ Orderly
  <2>1. S \in SUBSET Requests /\ \A r \in S : gate[r] # "settled"
    BY DEF Pending
  <2>2. Moves(S, {}, "deny")
    BY <1>f, <2>1, FinishMoves DEF Decisions
  <2> QED
    BY <2>2 DEF Orderly, Permitted
<1>w. ASSUME NEW r \in Requests, gate[r] = "none", NEW response \in Decisions \cup {"none"},
             Wait(r, response), response = "none" \/ mode = "headless"
      PROVE  Orderly
  <2>1. \/ response # "none" /\ Moves({r}, {}, response)
        \/ Moves({r}, {}, "deny")
        \/ Moves({}, {r}, "deny")
    BY <1>w, WaitMoves
  <2> QED
    BY <1>w, <2>1 DEF Orderly, Permitted
<1>1. CASE UNCHANGED vars
  <2>1. UNCHANGED <<gate, answer, settlements>> /\ UNCHANGED aborted
    BY <1>1 DEF vars
  <2> QED
    BY <2>1, <1>n, WaitingKept
<1>2. ASSUME NEW r \in Requests, NEW d \in Decisions, AskHeadless(r, d)
      PROVE  Orderly /\ NoneLeftWaiting'
  <2>1. gate[r] = "none" /\ mode = "headless" /\ Wait(r, d) /\ UNCHANGED aborted
    BY <1>2 DEF AskHeadless, MayAsk
  <2> QED
    BY <2>1, <1>w, WaitingKept
<1>3. ASSUME NEW r \in Requests, AskFullAccess(r) \/ AskProjectAuto(r) \/ AskUser(r)
      PROVE  Orderly /\ NoneLeftWaiting'
  <2>1. gate[r] = "none" /\ Wait(r, "none") /\ UNCHANGED aborted
    BY <1>3 DEF AskFullAccess, AskProjectAuto, AskUser, MayAsk
  <2> QED
    BY <2>1, <1>w, WaitingKept
<1>4. ASSUME NEW r \in Requests, Microtask(r) \/ VerdictAllows(r)
      PROVE  Orderly /\ NoneLeftWaiting'
  <2>1. Respond(r, "allow") /\ UNCHANGED aborted /\ "allow" \in Decisions
    BY <1>4 DEF Microtask, VerdictAllows, Decisions
  <2> QED
    BY <2>1, <1>a, WaitingKept
<1>5. ASSUME NEW d \in Decisions, UserAnswers(d)
      PROVE  Orderly /\ NoneLeftWaiting'
  <2>1. Respond(screen, d) /\ UNCHANGED aborted
    BY <1>5 DEF UserAnswers
  <2>2. screen \in Requests \/ UNCHANGED <<gate, answer, settlements>>
    BY <2>1 DEF Respond, Finish, IInv, GateType
  <2> QED
    BY <2>1, <2>2, <1>a, <1>n, WaitingKept
<1>6. ASSUME NEW r \in Requests, NEW d \in Decisions, RemoteAnswers(r, d)
      PROVE  Orderly /\ NoneLeftWaiting'
  BY <1>6, <1>a, WaitingKept DEF RemoteAnswers
<1>7. ASSUME NEW r \in Requests, Timeout(r)
      PROVE  Orderly /\ NoneLeftWaiting'
  <2>1. {r} \in SUBSET Pending /\ Finish({r}, "deny") /\ UNCHANGED aborted
    BY <1>7 DEF Timeout
  <2> QED
    BY <2>1, <1>f, WaitingKept
<1>8. ASSUME Finish(Pending, "deny") PROVE Orderly /\ NoneLeftWaiting'
  <2>1. Moves(Pending, {}, "deny") /\ Orderly
    BY <1>8, <1>f
  <2> QED
    BY <2>1 DEF Moves, NoneLeftWaiting, Pending
<1>9. CASE Interrupt
  BY <1>9, <1>8 DEF Interrupt, CancelActiveTurn
<1>10. CASE UserInterrupts
  <2>1. CASE Respond(screen, "deny") /\ UNCHANGED aborted
    <3>1. Respond(screen, "deny") /\ UNCHANGED aborted /\ "deny" \in Decisions
      BY <2>1 DEF Decisions
    <3>2. screen \in Requests \/ UNCHANGED <<gate, answer, settlements>>
      BY <3>1 DEF Respond, Finish, IInv, GateType
    <3> QED
      BY <3>1, <3>2, <1>a, <1>n, WaitingKept
  <2>2. CASE CancelActiveTurn
    BY <2>2, <1>8 DEF CancelActiveTurn
  <2> QED
    BY <1>10, <2>1, <2>2 DEF UserInterrupts
<1>11. CASE RemoteInterrupt
  <2> DEFINE S == {r \in Pending : TurnOf[r] = turn}
  <2>1. Moves(S, {}, "deny") /\ Orderly
    BY <1>11, <1>f DEF RemoteInterrupt
  <2>2. ASSUME NEW r \in Requests, gate'[r] = "pending" PROVE ~Aborted(r)'
    <3>1. gate[r] = "pending" /\ r \notin S
      BY <2>1, <2>2 DEF Moves
    <3>2. TurnOf[r] # turn /\ TurnOf[r] \notin aborted
      BY <3>1 DEF Pending, IInv, NoneLeftWaiting, Aborted
    <3> QED
      BY <3>2, <1>11 DEF RemoteInterrupt, Aborted
  <2> QED
    BY <2>1, <2>2 DEF NoneLeftWaiting
<1>12. ASSUME UNCHANGED <<gate, answer, settlements>> /\ UNCHANGED aborted
       PROVE  Orderly /\ NoneLeftWaiting'
  BY <1>12, <1>n, WaitingKept
<1>13. CASE Draw \/ TurnEnds \/ NextTurn \/ (\E m \in Modes : Switch(m)) \/ (\E r \in Requests : VerdictAsks(r))
  BY <1>13, <1>12 DEF Draw, TurnEnds, NextTurn, Switch, VerdictAsks
<1> QED
  BY <1>1, <1>2, <1>3, <1>4, <1>5, <1>6, <1>7, <1>9, <1>10, <1>11, <1>13 DEF Next

\* The invariant holds throughout.
LEMMA Invariant == Spec => []IInv
<1>1. Init => IInv
  BY DEF Init, IInv, GateType, SettledOnce, NoneLeftWaiting, Decisions
<1>2. IInv /\ [Next]_vars => IInv'
  <2>1. ASSUME IInv, [Next]_vars PROVE IInv'
    <3>1. NoneLeftWaiting' /\ \E S, W, d : Moves(S, W, d)
      BY <2>1, GateStep DEF Orderly
    <3> QED
      BY <2>1, <3>1, MovesSettleOnce DEF IInv
  <2> QED
    BY <2>1
<1> QED
  BY <1>1, <1>2, PTL DEF Spec

-----------------------------------------------------------------------------
(* What the gate promises *)

\* However response, timer, abort and cancel race, a request settles once.
THEOREM SettlesOnce == Spec => []SettledOnce
<1>1. IInv => SettledOnce
  BY DEF IInv
<1> QED
  BY <1>1, Invariant, PTL

\* No request of an interrupted turn is allowed: none is left waiting by an
\* interrupt, and one that asks later is denied.
THEOREM InterruptsDeny == Spec => InterruptDenies
<1> DEFINE Denied == \A r \in Requests :
             answer[r] = "none" /\ answer'[r] = "allow" => ~Aborted(r) \/ mode = "headless"
<1>1. ASSUME IInv, Next PROVE Denied
  <2>1. PICK S, W, d : Moves(S, W, d) /\ Permitted(S, d)
    BY <1>1, GateStep DEF Orderly
  <2>2. ASSUME NEW r \in Requests, answer[r] = "none", answer'[r] = "allow"
        PROVE  ~Aborted(r) \/ mode = "headless"
    <3>1. r \in S /\ d = "allow"
      BY <2>1, <2>2 DEF Moves
    <3> QED
      BY <1>1, <2>1, <3>1 DEF Permitted, IInv, NoneLeftWaiting
  <2> QED
    BY <2>2
<1>2. IInv /\ [Next]_vars => [Denied]_vars
  BY <1>1
<1> QED
  BY <1>2, Invariant, PTL DEF Spec, InterruptDenies

-----------------------------------------------------------------------------
(* The queue of prompts.  filter() is defined by recursion over the        *)
(* positions of the queue: that there is such a function, and what it      *)
(* leaves, is shown by induction over the prompts it has looked at.        *)

\* Induction over a set of numbers: there is no least number it lacks.
LEMMA Induction ==
  ASSUME NEW T, 0 \in T, \A n \in T \cap Nat : n + 1 \in T
  PROVE  Nat \subseteq T
<1> DEFINE Rest == Nat \ T
<1> SUFFICES ASSUME Rest # {} PROVE FALSE
  OBVIOUS
<1>1. PICK m \in Rest : \A n \in Rest : ~(<<n, m>> \in OpToRel(<, Nat))
  <2>1. Rest \subseteq Nat
    OBVIOUS
  <2>2. Rest # {}
    OBVIOUS
  <2> HIDE DEF Rest
  <2> QED
    BY <2>1, <2>2, NatLessThanWellFounded, WFMin
<1>2. m \in Nat /\ m \notin T /\ m # 0
  BY <1>1
<1>3. m - 1 \in Nat /\ m - 1 < m /\ (m - 1) + 1 = m
  BY <1>2
<1>4. <<m - 1, m>> \in OpToRel(<, Nat)
  BY <1>2, <1>3 DEF OpToRel
<1>5. m - 1 \in T
  BY <1>1, <1>3, <1>4
<1> QED
  BY <1>2, <1>3, <1>5

\* Appending adds one element and takes none away.
LEMMA Appended ==
  ASSUME NEW R, NEW s \in Seq(R), NEW e \in R
  PROVE  /\ Append(s, e) \in Seq(R)
         /\ \A r : r \in ToSet(Append(s, e)) <=> r \in ToSet(s) \/ r = e
<1>1. /\ Append(s, e) \in Seq(R) /\ Len(s) \in Nat
      /\ Len(Append(s, e)) = Len(s) + 1
      /\ \A i \in 1..Len(s) : Append(s, e)[i] = s[i]
      /\ Append(s, e)[Len(s) + 1] = e
  OBVIOUS
<1>2. DOMAIN s = 1..Len(s) /\ DOMAIN Append(s, e) = 1..(Len(s) + 1)
  OBVIOUS
<1>3. ASSUME NEW r
      PROVE  (\E i \in 1..(Len(s) + 1) : Append(s, e)[i] = r) <=>
             (\E i \in 1..Len(s) : s[i] = r) \/ r = e
  <2>1. ASSUME NEW i \in 1..Len(s), s[i] = r
        PROVE  \E j \in 1..(Len(s) + 1) : Append(s, e)[j] = r
    <3>1. i \in 1..(Len(s) + 1) /\ Append(s, e)[i] = r
      BY <1>1, <2>1
    <3> QED
      BY <3>1
  <2>2. Len(s) + 1 \in 1..(Len(s) + 1)
    BY <1>1
  <2>3. ASSUME NEW i \in 1..(Len(s) + 1), Append(s, e)[i] = r, r # e
        PROVE  \E j \in 1..Len(s) : s[j] = r
    <3>1. i \in 1..Len(s)
      BY <1>1, <2>3
    <3> QED
      BY <1>1, <2>3, <3>1
  <2> QED
    BY <1>1, <2>1, <2>2, <2>3
<1> QED
  BY <1>1, <1>2, <1>3 DEF ToSet

\* Nobody is in the empty queue.
LEMMA EmptyHasNone == <<>> \in Seq(Requests) /\ \A r : r \notin ToSet(<<>>)
<1>1. DOMAIN <<>> = {}
  OBVIOUS
<1> QED
  BY <1>1 DEF ToSet

\* filter() takes the prompts of S off the queue and no others.
LEMMA WithoutIs ==
  ASSUME queue \in Seq(Requests), NEW S
  PROVE  /\ Without(S) \in Seq(Requests)
         /\ ToSet(Without(S)) = ToSet(queue) \ S
<1> DEFINE N == Len(queue)
           Step(g, n) == IF n = 0 THEN <<>>
                         ELSE IF queue[n] \in S THEN g[n - 1]
                         ELSE Append(g[n - 1], queue[n])
           Upto(g, m) == \A n \in 0..m : n <= N => g[n] = Step(g, n)
           kept == CHOOSE g : g = [n \in 0..N |-> Step(g, n)]
<1>1. N \in Nat /\ \A n \in 1..N : queue[n] \in Requests
  OBVIOUS
<1>2. Without(S) = kept[N]
  BY Zenon DEF Without
\* There is such a function: one for the first m prompts extends to m + 1.
<1>3. \A m \in Nat : \E g \in [0..m -> Seq(Requests)] : Upto(g, m)
  <2> DEFINE T == {m \in Nat : \E g \in [0..m -> Seq(Requests)] : Upto(g, m)}
  <2>1. 0 \in T
    <3> DEFINE g == [n \in 0..0 |-> <<>>]
    <3>1. g \in [0..0 -> Seq(Requests)]
      OBVIOUS
    <3>2. Upto(g, 0)
      OBVIOUS
    <3> QED
      BY <3>1, <3>2
  <2>2. ASSUME NEW m \in T \cap Nat PROVE m + 1 \in T
    <3>1. PICK g \in [0..m -> Seq(Requests)] : Upto(g, m)
      OBVIOUS
    <3> DEFINE e == IF m + 1 <= N THEN Step(g, m + 1) ELSE <<>>
               h == [n \in 0..(m + 1) |-> IF n = m + 1 THEN e ELSE g[n]]
    <3>2. e \in Seq(Requests)
      BY <1>1
    <3>3. h \in [0..(m + 1) -> Seq(Requests)]
      BY <3>2
    <3>4. ASSUME NEW n \in 0..(m + 1), n <= N PROVE h[n] = Step(h, n)
      <4>1. n # 0 => h[n - 1] = g[n - 1]
        OBVIOUS
      <4>2. CASE n = m + 1
        BY <4>1, <4>2, <3>4
      <4>3. CASE n # m + 1
        <5>1. n \in 0..m
          BY <4>3
        <5>2. g[n] = Step(g, n)
          BY <5>1, <3>1, <3>4
        <5> QED
          BY <5>1, <5>2, <4>1, <4>3
      <4> QED
        BY <4>2, <4>3
    <3>5. Upto(h, m + 1)
      BY <3>4
    <3> HIDE DEF h, Upto
    <3>6. m + 1 \in Nat
      OBVIOUS
    <3> QED
      BY <3>3, <3>5, <3>6
  <2> HIDE DEF T
  <2>3. Nat \subseteq T
    BY <2>1, <2>2, Induction
  <2> QED
    BY <2>3 DEF T
<1>4. kept = [n \in 0..N |-> Step(kept, n)]
  <2>1. PICK g \in [0..N -> Seq(Requests)] : Upto(g, N)
    BY <1>1, <1>3
  <2>2. g = [n \in 0..N |-> Step(g, n)]
    BY <1>1, <2>1
  <2> QED
    BY <2>2, Zenon
<1> HIDE DEF kept
\* What it leaves of the first n prompts.
<1>5. \A n \in Nat : n <= N =>
        /\ kept[n] \in Seq(Requests)
        /\ \A r : r \in ToSet(kept[n]) <=> r \notin S /\ \E i \in 1..n : queue[i] = r
  <2> DEFINE Left(n) == /\ kept[n] \in Seq(Requests)
                        /\ \A r : r \in ToSet(kept[n]) <=>
                             r \notin S /\ \E i \in 1..n : queue[i] = r
             T == {n \in Nat : n <= N => Left(n)}
  <2>1. 0 \in T
    <3>1. kept[0] = <<>>
      BY <1>1, <1>4
    <3>2. ~\E i \in 1..0 : queue[i] = queue[i]
      OBVIOUS
    <3>3. Left(0)
      BY <3>1, <3>2, EmptyHasNone
    <3> QED
      BY <3>3
  <2>2. ASSUME NEW n \in T \cap Nat PROVE n + 1 \in T
    <3> SUFFICES ASSUME n + 1 <= N PROVE Left(n + 1)
      OBVIOUS
    <3>1. Left(n) /\ queue[n + 1] \in Requests
      BY <1>1
    <3>2. kept[n + 1] = IF queue[n + 1] \in S THEN kept[n]
                        ELSE Append(kept[n], queue[n + 1])
      <4>1. n + 1 \in 0..N /\ n + 1 # 0 /\ (n + 1) - 1 = n
        BY <1>1
      <4>2. kept[n + 1] = Step(kept, n + 1)
        BY <1>4, <4>1
      <4> QED
        BY <4>1, <4>2
    <3>3. \A r : (\E i \in 1..(n + 1) : queue[i] = r) <=>
                 (\E i \in 1..n : queue[i] = r) \/ queue[n + 1] = r
      OBVIOUS
    <3>4. CASE queue[n + 1] \in S
      BY <3>1, <3>2, <3>3, <3>4
    <3>5. CASE queue[n + 1] \notin S
      <4>1. kept[n + 1] = Append(kept[n], queue[n + 1])
        BY <3>2, <3>5
      <4>2. kept[n + 1] \in Seq(Requests)
        BY <3>1, <4>1
      <4>3. \A r : r \in ToSet(kept[n + 1]) <=> r \in ToSet(kept[n]) \/ r = queue[n + 1]
        BY <3>1, <4>1, Appended
      <4> QED
        BY <3>1, <3>3, <3>5, <4>2, <4>3
    <3> QED
      BY <3>4, <3>5
  <2> HIDE DEF T
  <2>3. Nat \subseteq T
    BY <2>1, <2>2, Induction
  <2> QED
    BY <2>3 DEF T
<1>6. /\ kept[N] \in Seq(Requests)
      /\ \A r : r \in ToSet(kept[N]) <=> r \notin S /\ \E i \in 1..N : queue[i] = r
  <2>1. N \in Nat /\ N <= N
    BY <1>1
  <2> HIDE DEF N
  <2> QED
    BY <2>1, <1>5
<1>7. \A r : r \in ToSet(queue) <=> \E i \in 1..N : queue[i] = r
  BY DEF ToSet
<1> QED
  BY <1>2, <1>6, <1>7
-----------------------------------------------------------------------------
(* Prompts and requests *)

Shown == ToSet(queue)

PromptType ==
  /\ queue \in Seq(Requests) /\ screen \in Requests \cup {NoRequest}
  /\ microtask \subseteq Requests /\ checking \subseteq Requests

\* A request is nowhere before it is made, and then in at most one place: before
\* the user, being checked, or about to be answered; in one of them as long as
\* it waits, unless its prompt was dropped, and before the user no longer than
\* that, unless it came late.
Placed(r) ==
  /\ gate[r] = "none" => r \notin Shown \cup checking \cup microtask
  /\ gate[r] = "pending" => r \in Shown \cup checking \cup microtask \cup forgotten
  /\ r \in Shown => r \notin checking \cup microtask
  /\ r \in Shown => gate[r] = "pending" \/ r \in late
  /\ r \notin checking \cap microtask

PromptInv == PromptType /\ \A r \in Requests : Placed(r)

\* The property, by the members of the queue.
LEMMA PlacedMatches == GateType /\ PromptInv => PromptsMatchPending
<1> SUFFICES ASSUME GateType, PromptInv PROVE PromptsMatchPending
  OBVIOUS
<1>1. ASSUME NEW r \in Pending PROVE Contains(queue, r) \/ r \in checking \cup microtask \cup forgotten
  <2>1. r \in Requests /\ (r \in Shown \/ r \in checking \cup microtask \cup forgotten)
    BY DEF Pending, PromptInv, Placed
  <2>2. r \in Shown => Contains(queue, r)
    BY DEF Shown, ToSet, Contains, PromptInv, PromptType
  <2> QED
    BY <2>1, <2>2
<1>2. ASSUME NEW r \in ToSet(queue) PROVE r \in Pending \cup late
  <2>1. r \in Requests
    BY DEF ToSet, PromptInv, PromptType
  <2> QED
    BY <2>1 DEF Pending, PromptInv, Placed, Shown
<1> QED
  BY <1>1, <1>2 DEF PromptsMatchPending

\* What finish(), respond() and wait() do to the state of each request.
LEMMA FinishGate ==
  ASSUME GateType, NEW S, NEW d, Finish(S, d), NEW q \in Requests
  PROVE  gate'[q] = IF q \in S THEN "settled" ELSE gate[q]
BY DEF Finish

LEMMA RespondGate ==
  ASSUME GateType, NEW r, NEW d, Respond(r, d), NEW q \in Requests
  PROVE  gate'[q] = IF q = r /\ gate[q] = "pending" THEN "settled" ELSE gate[q]
<1>1. CASE gate[r] = "pending"
  <2>1. Finish({r}, d)
    BY <1>1 DEF Respond
  <2> QED
    BY <1>1, <2>1, FinishGate
<1>2. CASE gate[r] # "pending"
  BY <1>2 DEF Respond
<1> QED
  BY <1>1, <1>2

LEMMA WaitGate ==
  ASSUME GateType, NEW r \in Requests, NEW response, Wait(r, response)
  PROVE  /\ \A q \in Requests \ {r} : gate'[q] = gate[q]
         /\ \/ gate'[r] = "settled" /\ (response # "none" \/ Aborted(r))
            \/ gate'[r] = "pending" /\ response = "none" /\ ~Aborted(r)
<1>1. CASE response # "none"
  <2>1. Finish({r}, response)
    BY <1>1 DEF Wait
  <2> QED
    BY <1>1, <2>1, FinishGate
<1>2. CASE response = "none" /\ Aborted(r)
  <2>1. Finish({r}, "deny")
    BY <1>2 DEF Wait
  <2> QED
    BY <1>2, <2>1, FinishGate
<1>3. CASE response = "none" /\ ~Aborted(r)
  <2>1. gate' = [gate EXCEPT ![r] = "pending"]
    BY <1>3 DEF Wait
  <2> QED
    BY <1>3, <2>1 DEF GateType
<1> QED
  BY <1>1, <1>2, <1>3

\* What becomes of the prompts.
LEMMA ShownAppended ==
  ASSUME PromptType, NEW r \in Requests, queue' = Append(queue, r)
  PROVE  queue' \in Seq(Requests) /\ \A q : q \in Shown' <=> q \in Shown \/ q = r
BY Appended DEF Shown, PromptType

LEMMA ShownWithout ==
  ASSUME PromptType, NEW S, queue' = Without(S)
  PROVE  queue' \in Seq(Requests) /\ \A q : q \in Shown' <=> q \in Shown /\ q \notin S
BY WithoutIs DEF Shown, PromptType

LEMMA ShownEmptied ==
  ASSUME queue' = <<>>
  PROVE  queue' \in Seq(Requests) /\ \A q : q \notin Shown'
BY EmptyHasNone DEF Shown

LEMMA PromptStep ==
  ASSUME IInv, PromptInv, [Next]_vars
  PROVE  PromptInv'
<1> USE DEF PromptInv
<1>t. GateType /\ PromptType
  BY DEF IInv
<1>0. CASE UNCHANGED vars
  <2>1. UNCHANGED Shown
    BY <1>0 DEF vars, Shown
  <2> QED
    BY <1>0, <2>1 DEF vars, PromptType, Placed
\* Requests that are made.
<1>1. ASSUME NEW r \in Requests, MayAsk(r), NEW response, Wait(r, response),
             response # "none", UNCHANGED <<forgotten, microtask, checking, queue, screen, late>>
      PROVE  PromptInv'
  <2>1. UNCHANGED Shown /\ PromptType'
    BY <1>1 DEF Shown, PromptType
  <2>2. ASSUME NEW q \in Requests PROVE Placed(q)'
    <3>1. gate[r] = "none" /\ gate'[r] = "settled" /\ (q # r => gate'[q] = gate[q])
      BY <1>t, <1>1, WaitGate DEF MayAsk
    <3> QED
      BY <1>1, <2>1, <3>1 DEF Placed
  <2> QED
    BY <2>1, <2>2
<1>2. ASSUME NEW r \in Requests, MayAsk(r), Wait(r, "none"),
             UNCHANGED <<forgotten, screen, late>>, PromptType',
             \A q \in Requests \ {r} :
               /\ q \in Shown' <=> q \in Shown
               /\ q \in checking' <=> q \in checking
               /\ q \in microtask' <=> q \in microtask,
             gate'[r] = "pending" => r \in Shown' \cup checking' \cup microtask',
             r \in Shown' => gate'[r] = "pending" /\ r \notin checking' \cup microtask',
             r \notin checking' \cap microtask'
      PROVE  PromptInv'
  <2>1. ASSUME NEW q \in Requests PROVE Placed(q)'
    <3>1. /\ gate[r] = "none" /\ TurnOf[r] <= turn
          /\ \/ gate'[r] = "settled" /\ Aborted(r)
             \/ gate'[r] = "pending" /\ ~Aborted(r)
          /\ q # r => gate'[q] = gate[q]
      BY <1>t, <1>2, WaitGate DEF MayAsk
    <3>2. CASE q = r
      BY <1>t, <1>2, <3>1, <3>2 DEF Placed
    <3>3. CASE q # r
      BY <1>2, <3>1, <3>3 DEF Placed
    <3> QED
      BY <3>2, <3>3
  <2> QED
    BY <1>2, <2>1
<1>3. ASSUME NEW r \in Requests, AskFullAccess(r) PROVE PromptInv'
  <2>1. /\ MayAsk(r) /\ Wait(r, "none") /\ microtask = {} /\ microtask' = {r}
        /\ UNCHANGED <<forgotten, screen, late, checking, queue>>
    BY <1>3 DEF AskFullAccess, MayAsk
  <2>2. UNCHANGED Shown /\ PromptType'
    BY <2>1 DEF Shown, PromptType
  <2>3. r \notin Shown \cup checking
    BY <2>1 DEF MayAsk, Placed
  <2> QED
    BY <1>2, <2>1, <2>2, <2>3
<1>4. ASSUME NEW r \in Requests, AskProjectAuto(r) PROVE PromptInv'
  <2>1. /\ MayAsk(r) /\ Wait(r, "none") /\ microtask = {} /\ checking' = checking \cup {r}
        /\ UNCHANGED <<forgotten, screen, late, microtask, queue>>
    BY <1>4 DEF AskProjectAuto, MayAsk
  <2>2. UNCHANGED Shown /\ PromptType'
    BY <2>1 DEF Shown, PromptType
  <2>3. r \notin Shown
    BY <2>1 DEF MayAsk, Placed
  <2> QED
    BY <1>2, <2>1, <2>2, <2>3
<1>5. ASSUME NEW r \in Requests, AskUser(r) PROVE PromptInv'
  <2>1. /\ MayAsk(r) /\ Wait(r, "none") /\ r \notin Shown \cup checking \cup microtask
        /\ UNCHANGED <<forgotten, screen, late, microtask, checking>>
        /\ IF Aborted(r) THEN UNCHANGED queue ELSE queue' = Append(queue, r)
    BY <1>5 DEF AskUser, MayAsk, Placed
  <2>2. \/ gate'[r] = "settled" /\ Aborted(r)
        \/ gate'[r] = "pending" /\ ~Aborted(r)
    BY <1>t, <2>1, WaitGate
  <2>3. CASE Aborted(r)
    <3>1. UNCHANGED Shown /\ PromptType'
      BY <2>1, <2>3 DEF Shown, PromptType
    <3> QED
      BY <1>2, <2>1, <2>2, <2>3, <3>1
  <2>4. CASE ~Aborted(r)
    <3>1. queue' \in Seq(Requests) /\ \A q : q \in Shown' <=> q \in Shown \/ q = r
      BY <1>t, <2>1, <2>4, ShownAppended
    <3>2. PromptType'
      BY <2>1, <3>1 DEF PromptType
    <3> QED
      BY <1>2, <2>1, <2>2, <2>4, <3>1, <3>2
  <2> QED
    BY <2>3, <2>4
\* Requests that are answered before they have a prompt.
<1>6. ASSUME NEW r \in Requests, Microtask(r) \/ VerdictAllows(r) PROVE PromptInv'
  <2>1. /\ \/ r \in microtask /\ microtask' = microtask \ {r} /\ UNCHANGED checking
           \/ r \in checking /\ checking' = checking \ {r} /\ UNCHANGED microtask
        /\ Respond(r, "allow")
        /\ UNCHANGED <<forgotten, queue, screen, late>>
    BY <1>6 DEF Microtask, VerdictAllows
  <2>2. UNCHANGED Shown /\ PromptType'
    BY <2>1 DEF Shown, PromptType
  <2>3. ASSUME NEW q \in Requests PROVE Placed(q)'
    <3>1. gate'[q] = IF q = r /\ gate[q] = "pending" THEN "settled" ELSE gate[q]
      BY <1>t, <2>1, RespondGate
    <3>3. Placed(q)'
      <4>1. CASE q = r
        BY <1>t, <2>1, <2>2, <3>1, <4>1 DEF Placed, GateType
      <4>2. CASE q # r
        BY <2>1, <2>2, <3>1, <4>2 DEF Placed
      <4> QED
        BY <4>1, <4>2
    <3> QED
      BY <3>3
  <2> QED
    BY <2>2, <2>3
<1>7. ASSUME NEW r \in Requests, VerdictAsks(r) PROVE PromptInv'
  <2>1. /\ microtask = {} /\ r \in checking /\ checking' = checking \ {r} /\ r \notin Shown
        /\ Show(r) /\ late' = IF gate[r] = "settled" THEN late \cup {r} ELSE late
        /\ UNCHANGED <<forgotten, gate, microtask, screen>>
    BY <1>7 DEF VerdictAsks, Placed
  <2>2. ~Contains(queue, r)
    BY <2>1 DEF Shown, ToSet, Contains, PromptType
  <2>3. queue' \in Seq(Requests) /\ \A q : q \in Shown' <=> q \in Shown \/ q = r
    <3>1. queue' = Append(queue, r)
      BY <2>1, <2>2 DEF Show
    <3> QED
      BY <1>t, <3>1, ShownAppended
  <2>4. PromptType'
    BY <2>1, <2>3 DEF PromptType
  <2>5. ASSUME NEW q \in Requests PROVE Placed(q)'
    BY <1>t, <2>1, <2>3 DEF Placed, GateType
  <2> QED
    BY <2>4, <2>5
\* Requests that are answered, or settle, and lose their prompt.
<1>8. ASSUME NEW S, queue' = Without(S),
             \A q \in Requests :
               gate'[q] = IF q \in S /\ gate[q] = "pending" THEN "settled" ELSE gate[q],
             screen' \in Requests \cup {NoRequest},
             UNCHANGED <<forgotten, microtask, checking, late>>
      PROVE  PromptInv'
  <2>1. queue' \in Seq(Requests) /\ \A q : q \in Shown' <=> q \in Shown /\ q \notin S
    BY <1>t, <1>8, ShownWithout
  <2>2. PromptType'
    BY <1>8, <2>1 DEF PromptType
  <2>3. ASSUME NEW q \in Requests PROVE Placed(q)'
    BY <1>t, <1>8, <2>1 DEF Placed, GateType
  <2> QED
    BY <2>2, <2>3
<1>9. ASSUME NEW d \in Decisions, UserAnswers(d) PROVE PromptInv'
  <2>1. /\ Respond(screen, d) /\ queue' = Without({screen}) /\ screen' = NoRequest
        /\ UNCHANGED <<forgotten, microtask, checking, late>>
    BY <1>9 DEF UserAnswers
  <2>2. \A q \in Requests :
          gate'[q] = IF q \in {screen} /\ gate[q] = "pending" THEN "settled" ELSE gate[q]
    BY <1>t, <2>1, RespondGate
  <2> QED
    BY <1>8, <2>1, <2>2
<1>10. ASSUME NEW r \in Requests, NEW d \in Decisions, RemoteAnswers(r, d) PROVE PromptInv'
  <2>1. /\ Respond(r, d) /\ queue' = Without({r})
        /\ UNCHANGED <<forgotten, microtask, checking, screen, late>>
    BY <1>10 DEF RemoteAnswers
  <2>2. \A q \in Requests :
          gate'[q] = IF q \in {r} /\ gate[q] = "pending" THEN "settled" ELSE gate[q]
    BY <1>t, <2>1, RespondGate
  <2> QED
    BY <1>t, <1>8, <2>1, <2>2 DEF PromptType
<1>11. ASSUME NEW r \in Requests, Timeout(r) PROVE PromptInv'
  <2>1. /\ gate[r] = "pending" /\ Finish({r}, "deny") /\ queue' = Without({r})
        /\ UNCHANGED <<forgotten, microtask, checking, screen, late>>
    BY <1>11 DEF Timeout, Pending
  <2>2. \A q \in Requests :
          gate'[q] = IF q \in {r} /\ gate[q] = "pending" THEN "settled" ELSE gate[q]
    BY <1>t, <2>1, FinishGate
  <2> QED
    BY <1>t, <1>8, <2>1, <2>2 DEF PromptType
<1>12. CASE RemoteInterrupt
  <2> DEFINE S == {r \in Pending : TurnOf[r] = turn}
  <2>1. /\ Finish(S, "deny") /\ queue' = Without(S)
        /\ UNCHANGED <<forgotten, microtask, checking, screen, late>>
    BY <1>12 DEF RemoteInterrupt
  <2>2. \A q \in Requests :
          gate'[q] = IF q \in S /\ gate[q] = "pending" THEN "settled" ELSE gate[q]
    <3> TAKE q \in Requests
    <3>1. gate'[q] = IF q \in S THEN "settled" ELSE gate[q]
      BY <1>t, <2>1, FinishGate
    <3> QED
      BY <3>1 DEF Pending
  <2> HIDE DEF S
  <2>3. screen' \in Requests \cup {NoRequest}
    BY <1>t, <2>1 DEF PromptType
  <2> QED
    BY <1>8, <2>1, <2>2, <2>3
\* The queue is emptied: nobody waits who is not being checked, or forgotten.
<1>13. ASSUME queue' = <<>>, screen' \in Requests \cup {NoRequest},
              \A q \in Requests :
                /\ gate'[q] = "settled" \/ gate'[q] = gate[q]
                /\ gate'[q] = "pending" => q \in checking \cup microtask \cup forgotten',
              UNCHANGED <<microtask, checking, late>>
       PROVE  PromptInv'
  <2>1. queue' \in Seq(Requests) /\ \A q : q \notin Shown'
    BY <1>13, ShownEmptied
  <2>2. PromptType'
    BY <1>13, <1>t, <2>1 DEF PromptType
  <2>3. ASSUME NEW q \in Requests PROVE Placed(q)'
    BY <1>13, <2>1 DEF Placed
  <2> QED
    BY <2>2, <2>3
<1>14. ASSUME CancelActiveTurn, NEW q \in Requests
       PROVE  /\ gate'[q] # "pending"
              /\ gate'[q] = "settled" \/ gate'[q] = gate[q]
  <2>1. gate'[q] = IF q \in Pending THEN "settled" ELSE gate[q]
    BY <1>t, <1>14, FinishGate DEF CancelActiveTurn
  <2> QED
    BY <2>1 DEF Pending
<1>15. CASE Interrupt
  <2>1. /\ CancelActiveTurn /\ queue' = <<>>
        /\ UNCHANGED <<forgotten, microtask, checking, screen, late>>
    BY <1>15 DEF Interrupt
  <2> QED
    BY <1>t, <1>13, <1>14, <2>1 DEF PromptType
<1>16. CASE UserInterrupts
  <2>1. /\ queue' = <<>> /\ screen' = NoRequest
        /\ UNCHANGED <<microtask, checking, late>>
    BY <1>16 DEF UserInterrupts
  <2>2. CASE CancelActiveTurn
    BY <1>13, <1>14, <2>1, <2>2
  <2>3. CASE /\ Respond(screen, "deny")
             /\ forgotten' = forgotten \cup ((Pending \cap ToSet(queue)) \ {screen})
    <3>1. ASSUME NEW q \in Requests
          PROVE  /\ gate'[q] = "settled" \/ gate'[q] = gate[q]
                 /\ gate'[q] = "pending" => q \in checking \cup microtask \cup forgotten'
      <4>1. gate'[q] = IF q = screen /\ gate[q] = "pending" THEN "settled" ELSE gate[q]
        BY <1>t, <2>3, RespondGate
      <4>2. gate'[q] = "pending" => q \in Pending \ {screen}
        BY <4>1 DEF Pending
      <4>3. q \in Pending => q \in ToSet(queue) \cup checking \cup microtask \cup forgotten
        BY DEF Pending, Placed, Shown
      <4> QED
        BY <2>3, <4>1, <4>2, <4>3
    <3> QED
      BY <1>13, <2>1, <3>1
  <2> QED
    BY <1>16, <2>2, <2>3 DEF UserInterrupts
\* The rest.
<1>17. CASE TurnEnds \/ NextTurn
  <2>1. UNCHANGED <<forgotten, gate, microtask, checking, queue, screen, late>>
    BY <1>17 DEF TurnEnds, NextTurn
  <2>2. UNCHANGED Shown /\ PromptType'
    BY <2>1 DEF Shown, PromptType
  <2> QED
    BY <2>1, <2>2 DEF Placed
<1>18. CASE Draw
  <2>1. /\ screen' = IF queue = <<>> THEN NoRequest ELSE Head(queue)
        /\ UNCHANGED <<forgotten, gate, microtask, checking, queue, late>>
    BY <1>18 DEF Draw
  <2>2. UNCHANGED Shown /\ PromptType'
    BY <2>1 DEF Shown, PromptType
  <2> QED
    BY <2>1, <2>2 DEF Placed
<1>19. ASSUME NEW m \in Modes, Switch(m) PROVE PromptInv'
  <2>1. UNCHANGED <<forgotten, gate, microtask, checking, queue, screen, late>>
    BY <1>19 DEF Switch
  <2>2. UNCHANGED Shown /\ PromptType'
    BY <2>1 DEF Shown, PromptType
  <2> QED
    BY <2>1, <2>2 DEF Placed
<1>20. ASSUME NEW r \in Requests, NEW d \in Decisions, AskHeadless(r, d) PROVE PromptInv'
  <2>1. /\ MayAsk(r) /\ Wait(r, d) /\ d # "none"
        /\ UNCHANGED <<forgotten, microtask, checking, queue, screen, late>>
    BY <1>20 DEF AskHeadless, Decisions
  <2> QED
    BY <1>1, <2>1
<1> HIDE DEF PromptInv
<1> QED
  BY <1>0, <1>3, <1>4, <1>5, <1>6, <1>7, <1>9, <1>10, <1>11, <1>12, <1>15, <1>16,
     <1>17, <1>18, <1>19, <1>20 DEF Next

\* PromptInv holds throughout.
LEMMA PromptsPlaced == Spec => [](IInv /\ PromptInv)
<1>1. Init => PromptInv
  <2> SUFFICES ASSUME Init PROVE PromptInv
    OBVIOUS
  <2>1. \A q : q \notin Shown
    BY EmptyHasNone DEF Init, Shown
  <2>2. PromptType
    BY EmptyHasNone DEF Init, PromptType
  <2>3. \A q \in Requests : gate[q] = "none"
    BY DEF Init
  <2>4. checking = {} /\ microtask = {}
    BY DEF Init
  <2>5. ASSUME NEW q \in Requests PROVE Placed(q)
    BY <2>1, <2>3, <2>4 DEF Placed
  <2> QED
    BY <2>2, <2>5 DEF PromptInv
<1>2. IInv /\ PromptInv /\ [Next]_vars => PromptInv'
  BY PromptStep
<1> QED
  BY <1>1, <1>2, Invariant, PTL DEF Spec

\* A request that waits can be answered, and a prompt in the queue is live or
\* came late from Project Auto, for any number of requests, turns and clients.
THEOREM PromptsMatch == Spec => []PromptsMatchPending
<1>1. IInv /\ PromptInv => PromptsMatchPending
  BY PlacedMatches DEF IInv
<1> QED
  BY <1>1, PromptsPlaced, PTL

-----------------------------------------------------------------------------
(* Types *)

\* What the two invariants say nothing of.
RestType ==
  /\ mode \in Modes /\ turn \in Nat /\ stage \in {"working", "cancelled", "idle"}
  /\ aborted \subseteq Nat /\ forgotten \subseteq Requests
  /\ early \in [Requests -> Decisions \cup {"none"}]
  /\ published \subseteq Requests /\ late \subseteq Requests

\* Responses are kept under the request they are for.
LEMMA RespondType ==
  ASSUME RestType, NEW r \in Requests, NEW d \in Decisions, Respond(r, d)
  PROVE  early' \in [Requests -> Decisions \cup {"none"}]
BY DEF Respond, RestType

LEMMA TypeStep ==
  ASSUME IInv, PromptInv, RestType, [Next]_vars
  PROVE  RestType'
<1>t. "deny" \in Decisions /\ "allow" \in Decisions
      /\ (screen # NoRequest => screen \in Requests)
  BY DEF PromptInv, PromptType, Decisions
<1>1. CASE UNCHANGED vars \/ Draw
  BY <1>1 DEF vars, Draw, RestType
<1>9. CASE TurnEnds \/ NextTurn
  <2>1. stage' \in {"working", "cancelled", "idle"} /\ turn' \in Nat
    BY <1>9 DEF TurnEnds, NextTurn, RestType
  <2>2. UNCHANGED <<mode, aborted, early, published, late, forgotten>>
    BY <1>9 DEF TurnEnds, NextTurn
  <2> QED
    BY <2>1, <2>2 DEF RestType
<1>2. ASSUME NEW r \in Requests, AskFullAccess(r) \/ AskProjectAuto(r) \/ AskUser(r)
                                 \/ VerdictAsks(r) \/ Timeout(r)
      PROVE  RestType'
  BY <1>2 DEF AskFullAccess, AskProjectAuto, AskUser, VerdictAsks, Show, Timeout, RestType
<1>3. ASSUME NEW r \in Requests, Microtask(r) \/ VerdictAllows(r) PROVE RestType'
  <2>1. Respond(r, "allow") /\ UNCHANGED <<mode, turn, stage, aborted, published, late, forgotten>>
    BY <1>3 DEF Microtask, VerdictAllows
  <2> QED
    BY <1>t, <2>1, RespondType DEF RestType
<1>4. ASSUME NEW r \in Requests, NEW d \in Decisions, AskHeadless(r, d) \/ RemoteAnswers(r, d)
      PROVE  RestType'
  <2>1. /\ UNCHANGED <<mode, turn, stage, aborted, published, late, forgotten>>
        /\ UNCHANGED early \/ Respond(r, d)
    BY <1>4 DEF AskHeadless, RemoteAnswers
  <2> QED
    BY <2>1, RespondType DEF RestType
<1>5. ASSUME NEW d \in Decisions, UserAnswers(d) PROVE RestType'
  <2>1. Respond(screen, d) /\ screen # NoRequest /\ UNCHANGED <<mode, turn, stage, aborted, published, late, forgotten>>
    BY <1>5 DEF UserAnswers
  <2> QED
    BY <1>t, <2>1, RespondType DEF RestType
<1>6. CASE Interrupt \/ RemoteInterrupt
  BY <1>t, <1>6 DEF Interrupt, CancelActiveTurn, RemoteInterrupt, RestType
<1>7. CASE UserInterrupts
  <2>1. UNCHANGED <<mode, turn, published, late>> /\ screen # NoRequest
    BY <1>7 DEF UserInterrupts
  <2>2. CASE /\ Respond(screen, "deny") /\ UNCHANGED <<stage, aborted>>
             /\ forgotten' = forgotten \cup ((Pending \cap ToSet(queue)) \ {screen})
    <3>1. forgotten' \subseteq Requests
      BY <2>2 DEF RestType, Pending
    <3>2. early' \in [Requests -> Decisions \cup {"none"}]
      BY <1>t, <2>1, <2>2, RespondType
    <3> QED
      BY <2>1, <2>2, <3>1, <3>2 DEF RestType
  <2>3. CASE CancelActiveTurn /\ UNCHANGED forgotten
    BY <2>1, <2>3 DEF CancelActiveTurn, RestType
  <2> QED
    BY <1>7, <2>2, <2>3 DEF UserInterrupts
<1>8. ASSUME NEW m \in Modes, Switch(m) PROVE RestType'
  BY <1>8 DEF Switch, RestType
<1> QED
  BY <1>1, <1>2, <1>3, <1>4, <1>5, <1>6, <1>7, <1>8, <1>9 DEF Next

\* Every variable of the gate keeps its type, for any number of requests.
THEOREM TypeCorrect == Spec => []TypeOK
<1>1. Init => RestType
  BY DEF Init, RestType
<1>2. IInv /\ PromptInv /\ RestType /\ [Next]_vars => RestType'
  BY TypeStep
<1>3. IInv /\ PromptInv /\ RestType => TypeOK
  BY DEF IInv, GateType, PromptInv, PromptType, RestType, TypeOK
<1> QED
  BY <1>1, <1>2, <1>3, PromptsPlaced, PTL DEF Spec

=============================================================================
