------------------------- MODULE SnapshotHistoryProofs -------------------------
(***************************************************************************)
(* Proofs about SnapshotHistory for any calls, files, scopes and bounds.   *)
(***************************************************************************)
EXTENDS SnapshotHistory, SequenceTheorems, WellFoundedInduction, TLAPS

-----------------------------------------------------------------------------
(* The inductive invariant.  It is about behaviours without accidents: in  *)
(* them a persist leaves the histories as they are.                        *)

Restorers(s) == {a \in Actors : Scope(a) = s /\ pc[a] = "restore"}

\* The entries of scope s that have been taken back and not yet restored,
\* newest first.
Rest(s) ==
  IF Restorers(s) = {} THEN <<>> ELSE todo[CHOOSE a \in Restorers(s) : TRUE]

\* All pre-images of scope s that stand between the disk and the past, oldest
\* first.  Taking entries back does not change it, a restore takes its last one.
Log(s) == histories[s] \o Reverse(Rest(s))

\* The oldest entry of l for p above m has a content in G.
Oldest(l, p, m, G) ==
  \A i \in 1..Len(l) :
    /\ i > m /\ l[i].path = p
    /\ \A j \in 1..Len(l) : m < j /\ j < i => l[j].path # p
    => l[i].content \in G

\* l has no entry for p above m.
Bare(l, p, m) == \A i \in 1..Len(l) : i > m => l[i].path # p

\* What p holds, and what a snapshot of p has read, is in G.
Holds(p, G) ==
  /\ disk[p] \in G
  /\ \A c \in Calls : pc[c] = "push" /\ File(c) = p => got[c] \in G

\* Restoring the log of s down to m leaves p with a content in G.
LeadsBack(s, p, m, G) ==
  /\ Oldest(Log(s), p, m, G)
  /\ Bare(Log(s), p, m) => Holds(p, G)

\* Above m there is a snapshot of every file that c has got past.
Covered(c, m) ==
  \A i \in DOMAIN FilesOf[c] :
    \/ pc[c] = "write"
    \/ pc[c] \in {"read", "push"} /\ i < at[c]
    \/ pc[c] = "snapshot" /\ i <= at[c]
    => ~Bare(Log(ScopeOf[c]), FilesOf[c][i], m)

\* Whoever restores is alone in its scope.
Sole ==
  \A d \in Calls : \A a \in Actors \ {d} :
    /\ Scope(a) = ScopeOf[d]
    /\ pc[a] = "restore" \/ (a = User /\ pc[a] = "persist")
    => pc[d] \in Resting

\* The persist queue holds each of those who wait for it once.
Queued ==
  /\ \A i \in 1..Len(queue) : pc[queue[i]] \in {"snapshot", "persist"}
  /\ \A i, j \in 1..Len(queue) : queue[i] = queue[j] => i = j
  /\ copy # NoCopy => queue # <<>>

Steps == {"read", "push", "snapshot", "write"}

\* A call that snapshots or writes is at one of its files.
AtFile ==
  \A c \in Calls :
    /\ pc[c] = "idle" => at[c] = 1
    /\ pc[c] \in Steps => c \notin Undos /\ at[c] \in DOMAIN FilesOf[c]

Marked ==
  \A c \in Calls :
    /\ c \in Patches /\ pc[c] \in Steps => mark[c] <= Len(histories[ScopeOf[c]])
    /\ c \in Patches /\ pc[c] = "restore" => mark[c] = Len(histories[ScopeOf[c]])

\* A history has entries for the files of its session only.
Foreign ==
  \A s \in Scopes : \A i \in 1..Len(Log(s)) :
    \E c \in Calls : ScopeOf[c] = s /\ Log(s)[i].path \in Range(FilesOf[c])

CheckpointInv ==
  LET m == checkpoint.mark IN
  /\ pc[User] \in {"restore", "persist"} =>
       checkpoint # NoCheckpoint /\ m = Len(histories[UserScope])
  /\ checkpoint # NoCheckpoint =>
       /\ m <= Len(histories[UserScope])
       /\ \A p \in Own(UserScope) : LeadsBack(UserScope, p, m, {checkpoint.disk[p]})
       /\ \A c \in Calls : ScopeOf[c] = UserScope =>
            /\ Covered(c, m)
            /\ c \in Patches /\ pc[c] \in Steps => mark[c] >= m

\* No entry for p among the first m has content x.
Free(l, p, m, x) == \A i \in 1..Len(l) : i <= m /\ l[i].path = p => l[i].content # x

PatchInv(x) ==
  \A p \in Own(ScopeOf[x]) :
    /\ pc[x] \in Steps \cup {"restore"} =>
         /\ Free(Log(ScopeOf[x]), p, mark[x], x)
         /\ LeadsBack(ScopeOf[x], p, mark[x], Contents \ {x})
    /\ pc[x] \in {"idle", "persist", "failed"} =>
         /\ Free(Log(ScopeOf[x]), p, Len(Log(ScopeOf[x])), x)
         /\ Holds(p, Contents \ {x})

SInv ==
  /\ Sole /\ Marked /\ Foreign
  /\ CheckpointInv
  /\ \A x \in Patches : PatchInv(x) /\ Covered(x, mark[x])

IInv == TypeOK /\ Queued /\ AtFile /\ (accidents = {} => SInv)

-----------------------------------------------------------------------------
(* Logs as sequences *)

\* The lemmas below speak of any sequence of snapshots.
LEMMA OldestAppend ==
  ASSUME NEW l \in Seq(Snapshots), NEW e \in Snapshots, NEW p, NEW m \in Nat, NEW G,
         Oldest(l, p, m, G),
         Bare(l, p, m) /\ e.path = p => e.content \in G
  PROVE  /\ Oldest(Append(l, e), p, m, G)
         /\ Bare(Append(l, e), p, m) => Bare(l, p, m)
BY DEF Oldest, Bare

\* What is left of a log when its last entry has been restored.
LEMMA OldestDrop ==
  ASSUME NEW l \in Seq(Snapshots), NEW e \in Snapshots, NEW p, NEW m \in Nat, NEW G,
         Oldest(Append(l, e), p, m, G)
  PROVE  /\ Oldest(l, p, m, G)
         /\ Bare(l, p, m) /\ e.path # p => Bare(Append(l, e), p, m)
         /\ Bare(l, p, m) /\ e.path = p /\ m <= Len(l) => e.content \in G
<1> DEFINE k == Append(l, e)
<1>1. /\ Len(k) = Len(l) + 1 /\ Len(l) \in Nat
      /\ \A i \in 1..Len(l) : k[i] = l[i]
      /\ k[Len(k)] = e
  OBVIOUS
<1> HIDE DEF k
<1>2. Oldest(k, p, m, G)
  BY DEF k
<1>3. Oldest(l, p, m, G)
  BY <1>1, <1>2 DEF Oldest
<1>4. Bare(l, p, m) /\ e.path # p => Bare(k, p, m)
  BY <1>1 DEF Bare
<1>5. ASSUME Bare(l, p, m), e.path = p, m <= Len(l) PROVE e.content \in G
  BY <1>1, <1>2, <1>5 DEF Oldest, Bare
<1> QED
  BY <1>3, <1>4, <1>5 DEF k

LEMMA BareAppend ==
  ASSUME NEW l \in Seq(Snapshots), NEW e \in Snapshots, NEW p, NEW m \in Nat
  PROVE  /\ ~Bare(l, p, m) => ~Bare(Append(l, e), p, m)
         /\ e.path = p /\ m <= Len(l) => ~Bare(Append(l, e), p, m)
BY DEF Bare

LEMMA FreeAppend ==
  ASSUME NEW l \in Seq(Snapshots), NEW e \in Snapshots, NEW p, NEW m \in Nat, NEW x
  PROVE  /\ Free(Append(l, e), p, m, x) => Free(l, p, m, x)
         /\ Free(l, p, m, x) /\ (m <= Len(l) \/ e.path # p \/ e.content # x)
              => Free(Append(l, e), p, m, x)
         /\ Free(Append(l, e), p, Len(Append(l, e)), x) <=>
              Free(l, p, Len(l), x) /\ (e.path = p => e.content # x)
<1> DEFINE k == Append(l, e)
<1>1. /\ Len(k) = Len(l) + 1 /\ Len(l) \in Nat
      /\ \A i \in 1..Len(l) : k[i] = l[i]
      /\ k[Len(k)] = e
  OBVIOUS
<1> HIDE DEF k
<1>2. Free(k, p, m, x) => Free(l, p, m, x)
  BY <1>1 DEF Free
<1>3. Free(l, p, m, x) /\ (m <= Len(l) \/ e.path # p \/ e.content # x) => Free(k, p, m, x)
  BY <1>1 DEF Free
<1>4. Free(k, p, Len(k), x) <=> Free(l, p, Len(l), x) /\ (e.path = p => e.content # x)
  BY <1>1 DEF Free
<1> QED
  BY <1>2, <1>3, <1>4 DEF k

\* Above its own length a log has no entries.
LEMMA BareAtEnd ==
  ASSUME NEW l \in Seq(Snapshots), NEW p, NEW G
  PROVE  Bare(l, p, Len(l)) /\ Oldest(l, p, Len(l), G)
BY DEF Bare, Oldest

LEMMA ReverseTwice ==
  ASSUME NEW t \in Seq(Snapshots)
  PROVE  /\ Reverse(t) \in Seq(Snapshots) /\ Len(Reverse(t)) = Len(t)
         /\ \A i \in 1..Len(t) : Reverse(t)[i] = t[(Len(t) - i) + 1]
         /\ Reverse(Reverse(t)) = t
<1>1. Len(t) \in Nat /\ \A i \in 1..Len(t) : t[i] \in Snapshots
  OBVIOUS
<1>2. /\ Reverse(t) \in Seq(Snapshots) /\ Len(Reverse(t)) = Len(t)
      /\ \A i \in 1..Len(t) : Reverse(t)[i] = t[(Len(t) - i) + 1]
  BY <1>1 DEF Reverse
<1> DEFINE r == Reverse(t)
<1>3. /\ Reverse(r) \in Seq(Snapshots) /\ Len(Reverse(r)) = Len(r)
      /\ \A i \in 1..Len(r) : Reverse(r)[i] = r[(Len(r) - i) + 1]
  <2> HIDE DEF r
  <2>1. r \in Seq(Snapshots) /\ Len(r) \in Nat /\ \A i \in 1..Len(r) : r[i] \in Snapshots
    BY <1>2 DEF r
  <2> QED
    BY <2>1 DEF Reverse
<1>4. \A i \in 1..Len(t) : Reverse(r)[i] = t[i]
  BY <1>1, <1>2, <1>3
<1> QED
  BY <1>2, <1>3, <1>4, SeqEqual

LEMMA Joined ==
  ASSUME NEW h \in Seq(Snapshots), NEW t \in Seq(Snapshots)
  PROVE  /\ h \o t \in Seq(Snapshots) /\ Len(h \o t) = Len(h) + Len(t)
         /\ \A i \in 1..Len(h) : (h \o t)[i] = h[i]
         /\ \A i \in 1..Len(t) : (h \o t)[Len(h) + i] = t[i]
<1>1. Len(h) \in Nat /\ Len(t) \in Nat
  OBVIOUS
<1> QED
  BY <1>1, ConcatProperties

\* Restoring the newest entry takes the last one from the log.
LEMMA Unreversed ==
  ASSUME NEW h \in Seq(Snapshots), NEW t \in Seq(Snapshots), t # <<>>
  PROVE  /\ Head(t) \in Snapshots /\ Tail(t) \in Seq(Snapshots)
         /\ h \o Reverse(t) = Append(h \o Reverse(Tail(t)), Head(t))
<1> DEFINE u == Tail(t)  rt == Reverse(t)  ru == Reverse(u)
<1>1. /\ Head(t) \in Snapshots /\ Head(t) = t[1] /\ u \in Seq(Snapshots)
      /\ Len(u) = Len(t) - 1 /\ \A i \in 1..Len(u) : u[i] = t[i + 1]
      /\ Len(t) \in Nat \ {0} /\ Len(h) \in Nat
  BY HeadTailProperties
<1> HIDE DEF u
<1>2. /\ rt \in Seq(Snapshots) /\ Len(rt) = Len(t)
      /\ \A i \in 1..Len(t) : rt[i] = t[(Len(t) - i) + 1]
  BY ReverseTwice
<1>3. /\ ru \in Seq(Snapshots) /\ Len(ru) = Len(u)
      /\ \A i \in 1..Len(u) : ru[i] = u[(Len(u) - i) + 1]
  BY <1>1, ReverseTwice
<1> HIDE DEF rt, ru
<1> DEFINE k == h \o rt  l == h \o ru
<1>4. /\ k \in Seq(Snapshots) /\ Len(k) = Len(h) + Len(t)
      /\ \A i \in 1..Len(h) : k[i] = h[i]
      /\ \A i \in 1..Len(t) : k[Len(h) + i] = rt[i]
  <2>1. rt \in Seq(Snapshots)
    BY <1>2
  <2>2. /\ k \in Seq(Snapshots) /\ Len(k) = Len(h) + Len(rt)
        /\ \A i \in 1..Len(h) : k[i] = h[i]
        /\ \A i \in 1..Len(rt) : k[Len(h) + i] = rt[i]
    BY <2>1, Joined
  <2> HIDE DEF k
  <2> QED
    BY <1>2, <2>2
<1>5. /\ l \in Seq(Snapshots) /\ Len(l) = Len(h) + Len(u)
      /\ \A i \in 1..Len(h) : l[i] = h[i]
      /\ \A i \in 1..Len(u) : l[Len(h) + i] = ru[i]
  <2>1. ru \in Seq(Snapshots)
    BY <1>3
  <2>2. /\ l \in Seq(Snapshots) /\ Len(l) = Len(h) + Len(ru)
        /\ \A i \in 1..Len(h) : l[i] = h[i]
        /\ \A i \in 1..Len(ru) : l[Len(h) + i] = ru[i]
    BY <2>1, Joined
  <2> HIDE DEF l
  <2> QED
    BY <1>3, <2>2
<1> HIDE DEF k, l
<1>6. /\ Append(l, Head(t)) \in Seq(Snapshots) /\ Len(Append(l, Head(t))) = Len(l) + 1
      /\ \A i \in 1..Len(l) : Append(l, Head(t))[i] = l[i]
      /\ Append(l, Head(t))[Len(l) + 1] = Head(t)
  BY <1>1, <1>5, AppendProperties
<1>7. ASSUME NEW i \in 1..Len(k) PROVE k[i] = Append(l, Head(t))[i]
  <2>1. CASE i <= Len(h)
    BY <1>1, <1>4, <1>5, <1>6, <2>1
  <2>2. CASE i > Len(h) /\ i < Len(k)
    <3> DEFINE j == i - Len(h)
    <3>1. j \in 1..Len(u) /\ j \in 1..Len(t) /\ i = Len(h) + j
      BY <1>1, <1>4, <2>2
    <3> HIDE DEF j
    <3>2. k[i] = t[(Len(t) - j) + 1]
      BY <1>1, <1>2, <1>4, <3>1
    <3>3. l[i] = u[(Len(u) - j) + 1] /\ i \in 1..Len(l)
      BY <1>1, <1>3, <1>5, <3>1
    <3>4. u[(Len(u) - j) + 1] = t[(Len(t) - j) + 1]
      BY <1>1, <3>1
    <3> QED
      BY <1>6, <3>2, <3>3, <3>4
  <2>3. CASE i = Len(k)
    <3>1. k[i] = rt[Len(t)] /\ i = Len(l) + 1
      BY <1>1, <1>4, <1>5, <2>3
    <3>2. rt[Len(t)] = t[1]
      BY <1>1, <1>2
    <3> QED
      BY <1>1, <1>6, <3>1, <3>2
  <2>4. i <= Len(h) \/ (i > Len(h) /\ i < Len(k)) \/ i = Len(k)
    BY <1>1, <1>4
  <2> QED
    BY <2>1, <2>2, <2>3, <2>4
<1>8. k = Append(l, Head(t))
  BY <1>1, <1>4, <1>5, <1>6, <1>7, SeqEqual
<1> QED
  BY <1>1, <1>8 DEF k, l, u, rt, ru

\* splice: what is kept, and what is taken back in reverse, are the history.
LEMMA Spliced ==
  ASSUME NEW h \in Seq(Snapshots), NEW m \in Nat, m <= Len(h)
  PROVE  /\ SubSeq(h, 1, m) \in Seq(Snapshots) /\ Len(SubSeq(h, 1, m)) = m
         /\ Reverse(SubSeq(h, m + 1, Len(h))) \in Seq(Snapshots)
         /\ SubSeq(h, 1, m) \o Reverse(Reverse(SubSeq(h, m + 1, Len(h)))) = h
<1> DEFINE t == SubSeq(h, m + 1, Len(h))
<1>1. Len(h) \in Nat /\ \A i \in 1..Len(h) : h[i] \in Snapshots
  OBVIOUS
<1>2. SubSeq(h, 1, m) \in Seq(Snapshots) /\ Len(SubSeq(h, 1, m)) = m
  BY <1>1, SubSeqProperties
<1>3. t \in Seq(Snapshots)
  BY <1>1, SubSeqProperties
<1> HIDE DEF t
<1>4. Reverse(t) \in Seq(Snapshots) /\ Reverse(Reverse(t)) = t
  BY <1>3, ReverseTwice
<1>5. SubSeq(h, 1, m) \o t = SubSeq(h, 1, Len(h))
  <2>1. 1 \in 1..Len(h) + 1 /\ m \in (1 - 1)..Len(h) /\ Len(h) \in m..Len(h)
    BY <1>1
  <2> QED
    BY <2>1, ConcatAdjacentSubSeq DEF t
<1>6. SubSeq(h, 1, Len(h)) = h
  BY SubSeqFull
<1> QED
  BY <1>2, <1>4, <1>5, <1>6 DEF t

-----------------------------------------------------------------------------
(* Recursive functions.  Combined, KeysOf and Entries are defined by       *)
(* recursion over a sequence: that there is such a function, and the type  *)
(* of what it returns, is shown by induction over the positions.           *)

\* Induction over a set of numbers: there is no least number it lacks.
LEMMA Induction ==
  ASSUME NEW T, 0 \in T, \A n \in T \cap Nat : n + 1 \in T
  PROVE  Nat \subseteq T
<1> DEFINE R == Nat \ T
<1> SUFFICES ASSUME R # {} PROVE FALSE
  OBVIOUS
<1>1. PICK m \in R : \A n \in R : ~(<<n, m>> \in OpToRel(<, Nat))
  <2>1. R \subseteq Nat /\ R # {}
    OBVIOUS
  <2> HIDE DEF R
  <2> QED
    BY <2>1, NatLessThanWellFounded, WFMin
<1>2. m \in Nat /\ m \notin T /\ m # 0
  BY <1>1
<1>3. m - 1 \in Nat /\ m - 1 < m /\ (m - 1) + 1 = m
  BY <1>2
<1>4. <<m - 1, m>> \in OpToRel(<, Nat)
  BY <1>2, <1>3 DEF OpToRel
<1> QED
  BY <1>1, <1>2, <1>3, <1>4

Stepping(S) == [Nat -> [S -> S]]

\* The functions that start from d and take the steps F one after the other.
Runs(S, d, N, F) ==
  {g \in [0..N -> S] : g[0] = d /\ \A n \in 1..N : g[n] = F[n][g[n - 1]]}

LEMMA Recursion ==
  ASSUME NEW S, NEW d \in S, NEW N \in Nat, NEW F \in Stepping(S)
  PROVE  Runs(S, d, N, F) # {}
<1> USE DEF Stepping, Runs
<1> DEFINE Takes(g, m) == g[0] = d /\ \A n \in 1..m : g[n] = F[n][g[n - 1]]
           T == {m \in Nat : \E g \in [0..m -> S] : Takes(g, m)}
<1>1. 0 \in T
  <2> DEFINE g == [n \in 0..0 |-> d]
  <2>1. g \in [0..0 -> S] /\ Takes(g, 0)
    OBVIOUS
  <2> QED
    BY <2>1
<1>2. ASSUME NEW m \in T \cap Nat PROVE m + 1 \in T
  <2>1. PICK g \in [0..m -> S] : Takes(g, m)
    OBVIOUS
  <2> DEFINE h == [n \in 0..(m + 1) |-> IF n = m + 1 THEN F[m + 1][g[m]] ELSE g[n]]
  <2>2. h \in [0..(m + 1) -> S]
    OBVIOUS
  <2>3. h[0] = d
    BY <2>1
  <2>4. ASSUME NEW n \in 1..(m + 1) PROVE h[n] = F[n][h[n - 1]]
    <3>1. h[n - 1] = g[n - 1]
      OBVIOUS
    <3>2. CASE n = m + 1
      <4>1. n - 1 = m /\ h[n] = F[m + 1][g[m]]
        BY <3>2
      <4> QED
        BY <3>1, <3>2, <4>1
    <3>3. CASE n # m + 1
      <4>1. n \in 1..m /\ h[n] = g[n]
        BY <3>3
      <4> QED
        BY <2>1, <3>1, <4>1
    <3> QED
      BY <3>2, <3>3
  <2> HIDE DEF h
  <2>5. Takes(h, m + 1)
    BY <2>3, <2>4
  <2> HIDE DEF Takes
  <2> QED
    BY <2>2, <2>5
<1> HIDE DEF T
<1>3. N \in T
  BY <1>1, <1>2, Induction
<1>4. PICK g \in [0..N -> S] : Takes(g, N)
  BY <1>3 DEF T
<1> QED
  BY <1>4

\* What is in S at first and at no position leaves S is in S at the end.
LEMMA Reached ==
  ASSUME NEW S, NEW N \in Nat, NEW g, g[0] \in S,
         \A n \in 1..N : g[n - 1] \in S => g[n] \in S
  PROVE  g[N] \in S
<1> DEFINE T == {n \in Nat : n <= N => g[n] \in S}
<1>1. 0 \in T
  OBVIOUS
<1>2. ASSUME NEW n \in T \cap Nat PROVE n + 1 \in T
  <2> SUFFICES ASSUME n + 1 <= N PROVE g[n + 1] \in S
    OBVIOUS
  <2>1. g[n] \in S /\ n + 1 \in 1..N /\ (n + 1) - 1 = n
    OBVIOUS
  <2> QED
    BY <2>1
<1> HIDE DEF T
<1>3. N \in T
  BY <1>1, <1>2, Induction
<1> QED
  BY <1>3 DEF T

\* Persisting keeps the types of entries and scopes.
LEMMA EntriesType ==
  ASSUME NEW h \in Seq(Snapshots), NEW s
  PROVE  Entries(h, s) \in Seq(Snapshots)
<1> DEFINE N == Len(h)
           S == Seq(Snapshots)
           Step(v, n) == IF h[n].scope = s THEN Append(v, h[n]) ELSE v
           of == CHOOSE g : g = [n \in 0..N |-> IF n = 0 THEN <<>>
                   ELSE IF h[n].scope = s THEN Append(g[n - 1], h[n]) ELSE g[n - 1]]
           F == [n \in Nat |-> [v \in S |-> IF n \in 1..N THEN Step(v, n) ELSE v]]
<1>1. N \in Nat /\ \A n \in 1..N : h[n] \in Snapshots
  OBVIOUS
<1>2. Entries(h, s) = of[N]
  BY Zenon DEF Entries
<1>3. F \in Stepping(S) /\ <<>> \in S
  BY <1>1 DEF Stepping
<1>4. PICK g \in [0..N -> S] : g[0] = <<>> /\ \A n \in 1..N : g[n] = F[n][g[n - 1]]
  <2> HIDE DEF F, S, N
  <2>1. Runs(S, <<>>, N, F) # {}
    BY <1>1, <1>3, Recursion
  <2> QED
    BY <2>1, Zenon DEF Runs
<1>5. ASSUME NEW n \in 1..N PROVE g[n] = Step(g[n - 1], n)
  <2>1. n \in Nat /\ g[n - 1] \in S
    BY <1>1, <1>4
  <2>2. g[n] = F[n][g[n - 1]]
    BY <1>4
  <2> HIDE DEF S, Step
  <2> QED
    BY <2>1, <2>2
<1>6. g = [n \in 0..N |-> IF n = 0 THEN <<>>
             ELSE IF h[n].scope = s THEN Append(g[n - 1], h[n]) ELSE g[n - 1]]
  <2>1. \A n \in 0..N : n # 0 => n \in 1..N
    BY <1>1
  <2> QED
    BY <1>4, <1>5, <2>1, Zenon
<1>7. of = [n \in 0..N |-> IF n = 0 THEN <<>>
             ELSE IF h[n].scope = s THEN Append(of[n - 1], h[n]) ELSE of[n - 1]]
  BY <1>6, Zenon
<1> HIDE DEF of, F
<1>8. of[0] = <<>> /\ \A n \in 1..N : of[n] = Step(of[n - 1], n)
  <2>1. 0 \in 0..N /\ \A n \in 1..N : n \in 0..N /\ n # 0
    BY <1>1
  <2> QED
    BY <1>7, <2>1, Zenon
<1>9. ASSUME NEW n \in 1..N, of[n - 1] \in S PROVE of[n] \in S
  <2>1. of[n] = Step(of[n - 1], n)
    BY <1>8
  <2>2. h[n] \in Snapshots
    BY <1>1
  <2> QED
    BY <1>9, <2>1, <2>2
<1> HIDE DEF S, N
<1>10. of[N] \in S
  <2>1. N \in Nat /\ of[0] \in S
    BY <1>1, <1>3, <1>8
  <2> QED
    BY <2>1, <1>9, Reached, Zenon
<1> QED
  BY <1>2, <1>10 DEF S

LEMMA KeysType ==
  ASSUME NEW h \in Seq(Snapshots)
  PROVE  KeysOf(h) \in Seq(Scopes)
<1> DEFINE N == Len(h)
           S == Seq(Scopes)
           Step(v, n) == IF Contains(v, h[n].scope) THEN v
                         ELSE Append(v, h[n].scope)
           keys == CHOOSE g : g = [n \in 0..N |-> IF n = 0 THEN <<>>
                   ELSE IF Contains(g[n - 1], h[n].scope) THEN g[n - 1]
                   ELSE Append(g[n - 1], h[n].scope)]
           F == [n \in Nat |-> [v \in S |-> IF n \in 1..N THEN Step(v, n) ELSE v]]
<1>1. N \in Nat /\ \A n \in 1..N : h[n].scope \in Scopes
  <2>1. N \in Nat /\ \A n \in 1..N : h[n] \in Snapshots
    OBVIOUS
  <2> QED
    BY <2>1 DEF Snapshots
<1>2. KeysOf(h) = keys[N]
  BY Zenon DEF KeysOf
<1>3. F \in Stepping(S) /\ <<>> \in S
  BY <1>1 DEF Stepping
<1>4. PICK g \in [0..N -> S] : g[0] = <<>> /\ \A n \in 1..N : g[n] = F[n][g[n - 1]]
  <2> HIDE DEF F, S, N
  <2>1. Runs(S, <<>>, N, F) # {}
    BY <1>1, <1>3, Recursion
  <2> QED
    BY <2>1, Zenon DEF Runs
<1>5. ASSUME NEW n \in 1..N PROVE g[n] = Step(g[n - 1], n)
  <2>1. n \in Nat /\ g[n - 1] \in S
    BY <1>1, <1>4
  <2>2. g[n] = F[n][g[n - 1]]
    BY <1>4
  <2> HIDE DEF S, Step
  <2> QED
    BY <2>1, <2>2
<1>6. g = [n \in 0..N |-> IF n = 0 THEN <<>>
             ELSE IF Contains(g[n - 1], h[n].scope) THEN g[n - 1]
                   ELSE Append(g[n - 1], h[n].scope)]
  <2>1. \A n \in 0..N : n # 0 => n \in 1..N
    BY <1>1
  <2> QED
    BY <1>4, <1>5, <2>1, Zenon
<1>7. keys = [n \in 0..N |-> IF n = 0 THEN <<>>
             ELSE IF Contains(keys[n - 1], h[n].scope) THEN keys[n - 1]
                   ELSE Append(keys[n - 1], h[n].scope)]
  BY <1>6, Zenon
<1> HIDE DEF keys, F
<1>8. keys[0] = <<>> /\ \A n \in 1..N : keys[n] = Step(keys[n - 1], n)
  <2>1. 0 \in 0..N /\ \A n \in 1..N : n \in 0..N /\ n # 0
    BY <1>1
  <2> QED
    BY <1>7, <2>1, Zenon
<1>9. ASSUME NEW n \in 1..N, keys[n - 1] \in S PROVE keys[n] \in S
  <2>1. keys[n] = Step(keys[n - 1], n)
    BY <1>8
  <2>2. h[n].scope \in Scopes
    BY <1>1
  <2> QED
    BY <1>9, <2>1, <2>2
<1> HIDE DEF S, N
<1>10. keys[N] \in S
  <2>1. N \in Nat /\ keys[0] \in S
    BY <1>1, <1>3, <1>8
  <2> QED
    BY <2>1, <1>9, Reached, Zenon
<1> QED
  BY <1>2, <1>10 DEF S

LEMMA CombinedType ==
  ASSUME order \in Seq(Scopes), histories \in [Scopes -> Seq(Snapshots)]
  PROVE  Combined \in Seq(Snapshots)
<1> DEFINE N == Len(order)
           S == Seq(Snapshots)
           Step(v, n) == v \o histories[order[n]]
           all == CHOOSE g : g = [n \in 0..N |-> IF n = 0 THEN <<>>
                   ELSE g[n - 1] \o histories[order[n]]]
           F == [n \in Nat |-> [v \in S |-> IF n \in 1..N THEN Step(v, n) ELSE v]]
<1>1. N \in Nat /\ \A n \in 1..N : histories[order[n]] \in S
  OBVIOUS
<1>2. Combined = all[N]
  BY Zenon DEF Combined
<1>3. <<>> \in S /\ \A v, w \in S : v \o w \in S
  BY Joined
<1> HIDE DEF S
<1>4. ASSUME NEW n \in Nat, NEW v \in S
       PROVE  (IF n \in 1..N THEN Step(v, n) ELSE v) \in S
  BY <1>1, <1>3
<1>5. F \in Stepping(S)
  <2>1. ASSUME NEW n \in Nat
        PROVE  [v \in S |-> IF n \in 1..N THEN Step(v, n) ELSE v] \in [S -> S]
    BY <1>4, Zenon
  <2> QED
    BY <2>1, Zenon DEF Stepping
<1>6. PICK g \in [0..N -> S] : g[0] = <<>> /\ \A n \in 1..N : g[n] = F[n][g[n - 1]]
  <2> HIDE DEF F, N
  <2>1. Runs(S, <<>>, N, F) # {}
    BY <1>1, <1>3, <1>5, Recursion
  <2> QED
    BY <2>1, Zenon DEF Runs
<1>7. ASSUME NEW n \in 1..N PROVE g[n] = Step(g[n - 1], n)
  <2>1. n \in Nat /\ g[n - 1] \in S
    <3>1. n \in Nat /\ n - 1 \in 0..N
      BY <1>1
    <3> QED
      BY <3>1
  <2>2. g[n] = F[n][g[n - 1]]
    BY <1>6
  <2> HIDE DEF Step
  <2> QED
    BY <2>1, <2>2
<1>8. g = [n \in 0..N |-> IF n = 0 THEN <<>>
             ELSE g[n - 1] \o histories[order[n]]]
  <2>1. \A n \in 0..N : n # 0 => n \in 1..N
    BY <1>1
  <2> QED
    BY <1>6, <1>7, <2>1, Zenon
<1>9. all = [n \in 0..N |-> IF n = 0 THEN <<>>
             ELSE all[n - 1] \o histories[order[n]]]
  BY <1>8, Zenon
<1> HIDE DEF all, F
<1>10. all[0] = <<>> /\ \A n \in 1..N : all[n] = Step(all[n - 1], n)
  <2>1. 0 \in 0..N /\ \A n \in 1..N : n \in 0..N /\ n # 0
    BY <1>1
  <2> QED
    BY <1>9, <2>1, Zenon
<1>11. ASSUME NEW n \in 1..N, all[n - 1] \in S PROVE all[n] \in S
  <2>1. all[n] = Step(all[n - 1], n)
    BY <1>10
  <2>2. histories[order[n]] \in S
    BY <1>1
  <2> QED
    BY <1>3, <1>11, <2>1, <2>2
<1> HIDE DEF N
<1>12. all[N] \in S
  <2>1. N \in Nat /\ all[0] \in S
    BY <1>1, <1>3, <1>10
  <2> QED
    BY <2>1, <1>11, Reached, Zenon
<1> QED
  BY <1>2, <1>12 DEF S

-----------------------------------------------------------------------------
(* Types, and the persist queue *)

Places == Resting \cup {"read", "push", "snapshot", "write", "restore", "persist"}
Accidents == {"rebuild", "overlap", "below", "fault"}

LEMMA InScope == ASSUME NEW a \in Actors PROVE Scope(a) \in Scopes
BY SnapshotAssumption DEF Scope, Actors

LEMMA Touching ==
  ASSUME TypeOK, NEW s \in Scopes, Touch(s) PROVE order' \in Seq(Scopes)
BY DEF TypeOK, Touch

LEMMA Going ==
  ASSUME TypeOK, NEW a, NEW s \in Places, Goto(a, s) PROVE pc' \in [Actors -> Places]
BY DEF TypeOK, Goto, Places

LEMMA Advancing ==
  ASSUME TypeOK, NEW c, NEW again \in Places, NEW after \in Places, Advance(c, again, after)
  PROVE  pc' \in [Actors -> Places] /\ at' \in [Calls -> Nat \ {0}]
<1>1. pc' \in [Actors -> Places]
  BY Going DEF Advance
<1>2. at' \in [Calls -> Nat \ {0}]
  BY DEF TypeOK, Advance
<1> QED
  BY <1>1, <1>2

LEMMA TakingBack ==
  ASSUME TypeOK, NEW a \in Actors, NEW m \in Nat, TakeBack(a, m)
  PROVE  /\ todo' \in [Actors -> Seq(Snapshots)]
         /\ histories' \in [Scopes -> Seq(Snapshots)]
         /\ order' \in Seq(Scopes)
         /\ pc' \in [Actors -> Places]
<1> DEFINE h == histories[Scope(a)]
           n == IF m < Len(h) THEN m ELSE Len(h)
<1>1. h \in Seq(Snapshots) /\ Len(h) \in Nat /\ \A i \in 1..Len(h) : h[i] \in Snapshots
  BY InScope DEF TypeOK
<1> HIDE DEF h
<1>2. SubSeq(h, 1, n) \in Seq(Snapshots)
  <2>1. n \in Nat /\ n <= Len(h)
    BY <1>1
  <2> HIDE DEF n
  <2> QED
    BY <1>1, <2>1, SubSeqProperties
<1>3. Reverse(SubSeq(h, m + 1, Len(h))) \in Seq(Snapshots)
  <2>1. SubSeq(h, m + 1, Len(h)) \in Seq(Snapshots)
    BY <1>1, SubSeqProperties
  <2> QED
    BY <2>1, ReverseTwice
<1>4. /\ todo' = [todo EXCEPT ![a] = Reverse(SubSeq(h, m + 1, Len(h)))]
      /\ histories' = [histories EXCEPT ![Scope(a)] = SubSeq(h, 1, n)]
      /\ Touch(Scope(a)) /\ Goto(a, "restore")
  BY DEF TakeBack, h
<1>5. "restore" \in Places
  BY DEF Places
<1> HIDE DEF n
<1>6. todo' \in [Actors -> Seq(Snapshots)] /\ histories' \in [Scopes -> Seq(Snapshots)]
  BY <1>2, <1>3, <1>4 DEF TypeOK
<1> QED
  BY <1>4, <1>5, <1>6, InScope, Touching, Going

LEMMA QueueInit == Init => TypeOK /\ Queued /\ AtFile
BY SnapshotAssumption
   DEF Init, TypeOK, Queued, AtFile, Steps, Resting, Contents, Actors, Snapshots

\* A persist returns to the actor that has queued it, in a place it can go to.
LEMMA Resuming ==
  ASSUME TypeOK, NEW a, Resume(a)
  PROVE  pc' \in [Actors -> Places] /\ at' \in [Calls -> Nat \ {0}]
<1>1. {"read", "write", "failed", "done"} \subseteq Places
  BY DEF Places, Resting
<1>2. CASE pc[a] = "snapshot"
  BY <1>1, <1>2, Advancing DEF Resume
<1>3. CASE pc[a] # "snapshot"
  <2>1. Goto(a, IF a \in Patches THEN "failed" ELSE "done") /\ UNCHANGED at
    BY <1>3 DEF Resume
  <2> QED
    BY <1>1, <2>1, Going DEF TypeOK
<1> QED
  BY <1>2, <1>3

\* The file a call has got to.
LEMMA FileIs ==
  ASSUME TypeOK, AtFile, NEW c \in Calls, pc[c] \in Steps
  PROVE  File(c) \in Paths /\ File(c) \in Range(FilesOf[c])
BY SnapshotAssumption DEF TypeOK, AtFile, File, Range

LEMMA TypeStep == TypeOK /\ Queued /\ AtFile /\ [Next]_vars => TypeOK'
<1> SUFFICES ASSUME TypeOK, Queued, AtFile, [Next]_vars PROVE TypeOK'
  OBVIOUS
<1> DEFINE Ok == /\ order' \in Seq(Scopes) /\ pc' \in [Actors -> Places]
                 /\ at' \in [Calls -> Nat \ {0}]
<1>0. {"read", "push", "snapshot", "write", "restore", "persist", "done", "failed", "idle"}
        = Places
  BY DEF Places, Resting
<1> USE SnapshotAssumption
<1>1. ASSUME NEW c \in Calls, Start(c) PROVE TypeOK'
  <2>1. Len(histories[ScopeOf[c]]) \in Nat
    BY DEF TypeOK
  <2>2. order' \in Seq(Scopes) /\ mark' \in [Calls -> Nat]
    BY <1>1, <2>1, Touching DEF Start, TypeOK
  <2>3. pc' \in [Actors -> Places]
    BY <1>0, <1>1, Going DEF Start
  <2> QED
    BY <1>1, <2>2, <2>3 DEF Start, TypeOK, Overlap, Places, Accidents
<1>2. ASSUME NEW c \in Calls, Undo(c) PROVE TypeOK'
  <2> DEFINE m == Len(histories[ScopeOf[c]])
  <2>1. m \in Nat
    BY DEF TypeOK
  <2>2. c \in Actors /\ ScopeOf[c] \in Scopes
    BY DEF Actors
  <2>3. CASE m = 0
    <3>1. Touch(ScopeOf[c]) /\ Goto(c, "failed")
      BY <1>2, <2>3 DEF Undo
    <3>2. order' \in Seq(Scopes) /\ pc' \in [Actors -> Places]
      BY <1>0, <2>2, <3>1, Touching, Going
    <3>3. UNCHANGED <<todo, histories, accidents, disk, queue, copy, storage, at, got, mark,
                      checkpoint, faults>>
      BY <1>2, <2>3 DEF Undo
    <3> QED
      BY <3>2, <3>3 DEF TypeOK, Places
  <2>4. CASE m # 0
    <3>1. m - 1 \in Nat /\ TakeBack(c, m - 1)
      BY <1>2, <2>1, <2>4 DEF Undo
    <3> HIDE DEF m
    <3>2. /\ todo' \in [Actors -> Seq(Snapshots)] /\ histories' \in [Scopes -> Seq(Snapshots)]
          /\ order' \in Seq(Scopes) /\ pc' \in [Actors -> Places]
      BY <2>2, <3>1, TakingBack
    <3>3. accidents' = accidents \cup Overlap(c, Calls) \cup Below(c, m - 1)
      BY <1>2, <2>4 DEF Undo, m
    <3>4. accidents' \subseteq Accidents
      BY <3>3 DEF Overlap, Below, TypeOK, Accidents
    <3>5. UNCHANGED <<disk, queue, copy, storage, at, got, mark, checkpoint, faults>>
      BY <1>2 DEF Undo
    <3> QED
      BY <3>2, <3>4, <3>5 DEF TypeOK, Accidents, Places
  <2> QED
    BY <2>3, <2>4
<1>3. ASSUME NEW c \in Calls, FailPatch(c) PROVE TypeOK'
  <2>1. c \in Actors /\ mark[c] \in Nat
    BY DEF Actors, TypeOK
  <2>2. /\ todo' \in [Actors -> Seq(Snapshots)] /\ histories' \in [Scopes -> Seq(Snapshots)]
        /\ order' \in Seq(Scopes) /\ pc' \in [Actors -> Places]
    BY <1>3, <2>1, TakingBack DEF FailPatch
  <2>3. disk' \in [Paths -> Contents]
    BY <1>3 DEF FailPatch, Spoiled, TypeOK, Contents
  <2>4. accidents' \subseteq Accidents
    BY <1>3 DEF FailPatch, Overlap, TypeOK, Accidents
  <2>5. UNCHANGED <<queue, copy, storage, at, got, mark, checkpoint, faults>>
    BY <1>3 DEF FailPatch
  <2> QED
    BY <2>2, <2>3, <2>4, <2>5 DEF TypeOK, Accidents, Places
<1>4. ASSUME Rewind PROVE TypeOK'
  <2>1. User \in Actors /\ checkpoint.mark \in Nat
    BY <1>4 DEF Actors, TypeOK, Rewind
  <2>2. /\ todo' \in [Actors -> Seq(Snapshots)] /\ histories' \in [Scopes -> Seq(Snapshots)]
        /\ order' \in Seq(Scopes) /\ pc' \in [Actors -> Places]
    BY <1>4, <2>1, TakingBack DEF Rewind
  <2>3. accidents' \subseteq Accidents
    BY <1>4 DEF Rewind, Overlap, TypeOK, Accidents
  <2> QED
    BY <1>4, <2>2, <2>3 DEF Rewind, TypeOK, Places, Accidents
<1>5. ASSUME NEW c \in Calls, ReadPreImage(c) PROVE TypeOK'
  <2>1. pc' \in [Actors -> Places]
    BY <1>0, <1>5, Going DEF ReadPreImage
  <2>2. pc[c] = "read" /\ got' = [got EXCEPT ![c] = disk[File(c)]]
    BY <1>5 DEF ReadPreImage
  <2>3. got' \in [Calls -> Contents]
    BY <2>2, FileIs DEF TypeOK, Steps
  <2> QED
    BY <1>5, <2>1, <2>3 DEF ReadPreImage, TypeOK, Places
<1>6. ASSUME NEW c \in Calls, PushSnapshot(c) PROVE TypeOK'
  <2> DEFINE e == [path |-> File(c), content |-> got[c], scope |-> ScopeOf[c]]
  <2>1. /\ pc[c] = "push" /\ Touch(ScopeOf[c]) /\ Goto(c, "snapshot")
        /\ histories' = [histories EXCEPT ![ScopeOf[c]] = Append(@, e)]
        /\ queue' = Append(queue, c)
    BY <1>6 DEF PushSnapshot
  <2>2. e \in Snapshots
    BY <2>1, FileIs DEF TypeOK, Snapshots, Steps
  <2> HIDE DEF e
  <2>3. histories' \in [Scopes -> Seq(Snapshots)] /\ queue' \in Seq(Actors)
    BY <2>1, <2>2 DEF TypeOK, Actors
  <2>4. order' \in Seq(Scopes) /\ pc' \in [Actors -> Places]
    BY <1>0, <2>1, Touching, Going
  <2> QED
    BY <1>6, <2>3, <2>4 DEF PushSnapshot, TypeOK, Places
<1>7. ASSUME NEW c \in Calls, SkipSnapshot(c) PROVE TypeOK'
  <2>1. pc' \in [Actors -> Places] /\ at' \in [Calls -> Nat \ {0}]
    BY <1>0, <1>7, Advancing DEF SkipSnapshot
  <2>2. faults' \in 0..MaxFaults /\ accidents' \subseteq Accidents
    BY <1>7 DEF SkipSnapshot, Fault, TypeOK, Accidents
  <2> QED
    BY <1>7, <2>1, <2>2 DEF SkipSnapshot, TypeOK, Places, Accidents
<1>8. ASSUME NEW c \in Calls, WriteFile(c) PROVE TypeOK'
  <2>1. pc' \in [Actors -> Places] /\ at' \in [Calls -> Nat \ {0}]
    BY <1>0, <1>8, Advancing DEF WriteFile
  <2>2. disk' \in [Paths -> Contents]
    BY <1>8 DEF WriteFile, TypeOK, Contents
  <2> QED
    BY <1>8, <2>1, <2>2 DEF WriteFile, TypeOK, Places
<1>9. ASSUME NEW c \in Calls, FailWrite(c) PROVE TypeOK'
  <2>1. pc' \in [Actors -> Places]
    BY <1>0, <1>9, Going DEF FailWrite
  <2>2. disk' \in [Paths -> Contents]
    BY <1>9 DEF FailWrite, Spoiled, TypeOK, Contents
  <2> QED
    BY <1>9, <2>1, <2>2 DEF FailWrite, TypeOK, Places
<1>10. ASSUME NEW a \in Actors, RestoreNext(a) PROVE TypeOK'
  <2>1. todo[a] \in Seq(Snapshots) /\ todo[a] # <<>>
    BY <1>10 DEF RestoreNext, TypeOK
  <2>2. Head(todo[a]).content \in Contents /\ Tail(todo[a]) \in Seq(Snapshots)
    <3>1. Head(todo[a]) \in Snapshots /\ Tail(todo[a]) \in Seq(Snapshots)
      BY <2>1, HeadTailProperties
    <3> QED
      BY <3>1 DEF Snapshots
  <2>3. disk' \in [Paths -> Contents] /\ todo' \in [Actors -> Seq(Snapshots)]
    BY <1>10, <2>2 DEF RestoreNext, TypeOK
  <2> QED
    BY <1>10, <2>3 DEF RestoreNext, TypeOK
<1>11. ASSUME NEW a \in Actors, RestoreFails(a) PROVE TypeOK'
  <2>1. todo[a] \in Seq(Snapshots) /\ todo[a] # <<>>
    BY <1>11 DEF RestoreFails, TypeOK
  <2>2. todo' \in [Actors -> Seq(Snapshots)]
    BY <1>11, <2>1, HeadTailProperties DEF RestoreFails, TypeOK
  <2>3. pc' \in [Actors -> Places]
    BY <1>0, <1>11, Going DEF RestoreFails, TypeOK, Places
  <2>4. faults' \in 0..MaxFaults /\ accidents' \subseteq Accidents
    BY <1>11 DEF RestoreFails, Fault, TypeOK, Accidents
  <2> QED
    BY <1>11, <2>2, <2>3, <2>4 DEF RestoreFails, TypeOK, Places, Accidents
<1>12. ASSUME NEW a \in Actors, RestoreDone(a) PROVE TypeOK'
  <2>1. pc' \in [Actors -> Places]
    BY <1>0, <1>12, Going DEF RestoreDone
  <2>2. queue' \in Seq(Actors)
    BY <1>12 DEF RestoreDone, TypeOK
  <2> QED
    BY <1>12, <2>1, <2>2 DEF RestoreDone, TypeOK, Places
<1>13. ASSUME TakeCheckpoint PROVE TypeOK'
  <2>1. Len(histories[UserScope]) \in Nat /\ order' \in Seq(Scopes)
    BY <1>13, Touching DEF TakeCheckpoint, TypeOK
  <2>2. checkpoint' \in [mark : Nat, disk : [Paths -> Contents]]
    BY <1>13, <2>1 DEF TakeCheckpoint, TypeOK
  <2> QED
    BY <1>13, <2>1, <2>2 DEF TakeCheckpoint, TypeOK, Overlap, Accidents
<1>14. ASSUME PersistStart PROVE TypeOK'
  <2> DEFINE h == Combined
  <2>1. h \in Seq(Snapshots)
    BY CombinedType DEF TypeOK
  <2> HIDE DEF h
  <2>2. Len(h) \in Nat /\ \A i \in 1..Len(h) : h[i] \in Snapshots
    BY <2>1
  <2>3. ASSUME Len(h) > MaxEntries
        PROVE  SubSeq(h, Len(h) - MaxEntries + 1, Len(h)) \in Seq(Snapshots)
    <3>1. Len(h) - MaxEntries + 1 \in Int /\ Len(h) - MaxEntries + 1 >= 1
      BY <2>2, <2>3
    <3> QED
      BY <2>2, <3>1, SubSeqProperties
  <2>4. Trimmed(h) \in Seq(Snapshots)
    BY <2>1, <2>3 DEF Trimmed
  <2>5. copy' \in Seq(Snapshots)
    BY <1>14, <2>4 DEF PersistStart, h
  <2> QED
    BY <1>14, <2>5 DEF PersistStart, TypeOK
<1>15. ASSUME NEW off \in BOOLEAN, PersistEnd(off) PROVE TypeOK'
  <2>1. copy \in Seq(Snapshots) /\ queue # <<>>
    BY <1>15 DEF PersistEnd, TypeOK, Queued
  <2>2. histories' \in [Scopes -> Seq(Snapshots)]
    <3>1. \A s \in Scopes : Entries(copy, s) \in Seq(Snapshots)
      BY <2>1, EntriesType
    <3> QED
      BY <1>15, <3>1 DEF PersistEnd, Rebuilt
  <2>3. order' \in Seq(Scopes)
    BY <1>15, <2>1, KeysType DEF PersistEnd
  <2>4. queue' \in Seq(Actors)
    BY <1>15, <2>1, HeadTailProperties DEF PersistEnd, TypeOK
  <2>5. pc' \in [Actors -> Places] /\ at' \in [Calls -> Nat \ {0}]
    BY <1>15, Resuming DEF PersistEnd
  <2>6. storage' \in BOOLEAN /\ accidents' \subseteq Accidents /\ copy' = NoCopy
    BY <1>15 DEF PersistEnd, TypeOK, Accidents
  <2>7. UNCHANGED <<disk, got, todo, mark, checkpoint>>
    BY <1>15 DEF PersistEnd
  <2>8. faults' \in 0..MaxFaults
    BY <1>15 DEF PersistEnd, TypeOK
  <2> QED
    BY <2>2, <2>3, <2>4, <2>5, <2>6, <2>7, <2>8 DEF TypeOK, Places, Accidents
<1>16. CASE UNCHANGED vars
  BY <1>16 DEF vars, TypeOK
<1> QED
  BY <1>1, <1>2, <1>3, <1>4, <1>5, <1>6, <1>7, <1>8, <1>9, <1>10, <1>11, <1>12, <1>13,
     <1>14, <1>15, <1>16
     DEF Next, Continue, ToolStep, RestoreStep, PersistStep

Waiting == {"snapshot", "persist"}

\* Who does not wait for a persist may go on.
LEMMA QueueKept ==
  ASSUME TypeOK, Queued, NEW a, NEW v,
         queue' = queue, copy' = copy,
         pc' = pc \/ (pc' = [pc EXCEPT ![a] = v] /\ pc[a] \notin Waiting)
  PROVE  Queued'
<1>1. \A i \in 1..Len(queue) : queue[i] \in Actors
  BY DEF TypeOK
<1> QED
  BY <1>1 DEF TypeOK, Queued, Waiting

LEMMA QueueGrows ==
  ASSUME TypeOK, Queued, NEW a \in Actors, NEW v \in Waiting,
         queue' = Append(queue, a), copy' = copy,
         pc' = [pc EXCEPT ![a] = v], pc[a] \notin Waiting
  PROVE  Queued'
<1>1. /\ Len(queue) \in Nat /\ \A i \in 1..Len(queue) : queue[i] \in Actors /\ queue[i] # a
  BY DEF TypeOK, Queued, Waiting
<1>2. /\ Len(queue') = Len(queue) + 1 /\ queue' # <<>>
      /\ \A i \in 1..Len(queue) : queue'[i] = queue[i]
      /\ queue'[Len(queue) + 1] = a
  BY AppendProperties DEF TypeOK
<1>3. \A b \in Actors : pc'[b] = IF b = a THEN v ELSE pc[b]
  BY DEF TypeOK
<1>4. ASSUME NEW i \in 1..Len(queue') PROVE pc'[queue'[i]] \in {"snapshot", "persist"}
  <2>1. CASE i = Len(queue) + 1
    BY <1>2, <1>3, <2>1 DEF Waiting
  <2>2. CASE i # Len(queue) + 1
    <3>1. i \in 1..Len(queue)
      BY <1>1, <1>2, <2>2
    <3> QED
      BY <1>1, <1>2, <1>3, <3>1 DEF Queued
  <2> QED
    BY <2>1, <2>2
<1>5. ASSUME NEW i \in 1..Len(queue'), NEW j \in 1..Len(queue'), queue'[i] = queue'[j]
      PROVE  i = j
  BY <1>1, <1>2, <1>5 DEF Queued
<1> QED
  BY <1>2, <1>4, <1>5 DEF Queued

LEMMA QueueShrinks ==
  ASSUME TypeOK, Queued, NEW off \in BOOLEAN, PersistEnd(off)
  PROVE  /\ Queued'
         /\ Head(queue) \in Actors /\ pc[Head(queue)] \in Waiting
<1> DEFINE a == Head(queue)
<1>1. /\ queue # <<>> /\ queue' = Tail(queue) /\ copy' = NoCopy
      /\ Resume(a)
  BY DEF PersistEnd, Queued
<1>2. /\ Len(queue) \in Nat \ {0} /\ a = queue[1] /\ Len(queue') = Len(queue) - 1
      /\ \A i \in 1..Len(queue') : queue'[i] = queue[i + 1] /\ i + 1 \in 1..Len(queue)
      /\ \A i \in 1..Len(queue) : queue[i] \in Actors
  BY <1>1, HeadTailProperties DEF TypeOK
<1>3. a \in Actors /\ pc[a] \in Waiting
  BY <1>2 DEF Queued, Waiting
<1>4. \A b \in Actors : b # a => pc'[b] = pc[b]
  BY <1>1 DEF Resume, Advance, Goto, TypeOK
<1>5. \A i \in 1..Len(queue') : queue'[i] # a /\ queue'[i] \in Actors
  BY <1>2 DEF Queued
<1>6. \A i \in 1..Len(queue') : pc'[queue'[i]] \in {"snapshot", "persist"}
  BY <1>2, <1>4, <1>5 DEF Queued
<1>7. \A i, j \in 1..Len(queue') : queue'[i] = queue'[j] => i = j
  BY <1>2 DEF Queued
<1> QED
  BY <1>1, <1>3, <1>6, <1>7 DEF Queued

LEMMA QueueStep == TypeOK /\ Queued /\ [Next]_vars => Queued'
<1> SUFFICES ASSUME TypeOK, Queued, [Next]_vars PROVE Queued'
  OBVIOUS
<1> USE DEF Waiting
<1>1. ASSUME NEW c \in Calls,
             Start(c) \/ Undo(c) \/ ReadPreImage(c) \/ SkipSnapshot(c)
               \/ WriteFile(c) \/ FailWrite(c) \/ FailPatch(c)
      PROVE  Queued'
  <2>1. queue' = queue /\ copy' = copy
    BY <1>1 DEF Start, Undo, ReadPreImage, SkipSnapshot, WriteFile, FailWrite, FailPatch
  <2>2. pc[c] \in {"idle", "read", "write"} /\ \E v : pc' = [pc EXCEPT ![c] = v]
    BY <1>1 DEF Start, Undo, ReadPreImage, SkipSnapshot, WriteFile, FailWrite, FailPatch,
                MayStart, Advance, Goto, TakeBack
  <2> QED
    BY <2>1, <2>2, QueueKept
<1>2. ASSUME NEW c \in Calls, PushSnapshot(c) PROVE Queued'
  BY <1>2, QueueGrows DEF PushSnapshot, Goto, Actors
<1>3. ASSUME NEW a \in Actors, RestoreNext(a) \/ RestoreFails(a) \/ RestoreDone(a)
      PROVE  Queued'
  <2>1. CASE RestoreDone(a)
    BY <2>1, QueueGrows DEF RestoreDone, Goto
  <2>2. CASE RestoreNext(a) \/ RestoreFails(a)
    BY <2>2, QueueKept DEF RestoreNext, RestoreFails, Goto
  <2> QED
    BY <1>3, <2>1, <2>2
<1>4. ASSUME TakeCheckpoint \/ Rewind \/ UNCHANGED vars PROVE Queued'
  BY <1>4, QueueKept DEF TakeCheckpoint, Rewind, TakeBack, Goto, vars
<1>5. ASSUME PersistStart PROVE Queued'
  BY <1>5 DEF PersistStart, Queued
<1>6. ASSUME NEW off \in BOOLEAN, PersistEnd(off) PROVE Queued'
  BY <1>6, QueueShrinks
<1> QED
  BY <1>1, <1>2, <1>3, <1>4, <1>5, <1>6 DEF Next, Continue, ToolStep, RestoreStep, PersistStep

\* Where a call goes with Advance.
LEMMA AdvanceAtFile ==
  ASSUME TypeOK, AtFile, NEW c \in Calls, pc[c] \in Steps,
         NEW again \in Places, NEW after \in Places \ {"idle"}, again # "idle",
         Advance(c, again, after)
  PROVE  AtFile'
<1>1. c \notin Undos /\ at[c] \in 1..Len(FilesOf[c]) /\ Len(FilesOf[c]) \in Nat \ {0}
      /\ DOMAIN FilesOf[c] = 1..Len(FilesOf[c])
  BY SnapshotAssumption DEF AtFile
<1>2. c \in Actors /\ \A d \in Calls : d # c => pc'[d] = pc[d] /\ at'[d] = at[d]
  BY DEF TypeOK, Actors, Advance, Goto
<1>3. at'[c] \in 1..Len(FilesOf[c]) /\ pc'[c] \in {again, after}
  BY <1>1, <1>2 DEF Advance, Goto, TypeOK
<1> QED
  BY <1>1, <1>2, <1>3 DEF AtFile

LEMMA AtFileStep == TypeOK /\ Queued /\ AtFile /\ [Next]_vars => AtFile'
<1> SUFFICES ASSUME TypeOK, Queued, AtFile, [Next]_vars PROVE AtFile'
  OBVIOUS
<1>0. \A c \in Calls : c \in Actors /\ c # User
  BY SnapshotAssumption DEF Actors
<1>1. ASSUME NEW c \in Calls, Start(c) PROVE AtFile'
  <2>1. pc[c] = "idle" /\ c \notin Undos /\ pc' = [pc EXCEPT ![c] = "read"] /\ at' = at
    BY <1>1 DEF Start, MayStart, Goto
  <2>2. 1 \in DOMAIN FilesOf[c]
    BY <2>1, SnapshotAssumption
  <2> QED
    BY <1>0, <2>1, <2>2 DEF AtFile, TypeOK
<1>2. ASSUME NEW c \in Calls, SkipSnapshot(c) \/ WriteFile(c) PROVE AtFile'
  BY <1>2, AdvanceAtFile DEF SkipSnapshot, WriteFile, Steps, Places, Resting
<1>3. ASSUME NEW off \in BOOLEAN, PersistEnd(off) PROVE AtFile'
  <2> DEFINE a == Head(queue)
  <2>1. a \in Actors /\ pc[a] \in Waiting /\ Resume(a)
    BY <1>3, QueueShrinks DEF PersistEnd
  <2>2. CASE a \in Calls /\ pc[a] = "snapshot"
    BY <2>1, <2>2, AdvanceAtFile DEF Resume, Steps, Places, Resting
  <2>3. CASE a \in Calls /\ pc[a] # "snapshot"
    BY <1>0, <2>1, <2>3 DEF Resume, Goto, AtFile, TypeOK, Steps
  <2>4. CASE a = User
    BY <1>0, <2>1, <2>4 DEF Resume, Advance, Goto, AtFile, TypeOK, Steps
  <2> QED
    BY <2>1, <2>2, <2>3, <2>4 DEF Actors
<1>4. ASSUME NEW c \in Calls,
             Undo(c) \/ ReadPreImage(c) \/ PushSnapshot(c) \/ FailWrite(c) \/ FailPatch(c)
      PROVE  AtFile'
  <2>1. at' = at /\ \E v \in {"failed", "restore", "push", "snapshot"} :
                      /\ pc' = [pc EXCEPT ![c] = v]
                      /\ v \in Steps => pc[c] \in Steps
    BY <1>4 DEF Undo, ReadPreImage, PushSnapshot, FailWrite, FailPatch, TakeBack, Goto, Steps
  <2> QED
    BY <1>0, <2>1 DEF AtFile, TypeOK
<1>5. ASSUME NEW a \in Actors, RestoreStep(a) PROVE AtFile'
  <2>1. at' = at /\ (pc' = pc \/ \E v \in {"failed", "persist"} : pc' = [pc EXCEPT ![a] = v])
    BY <1>5 DEF RestoreStep, RestoreNext, RestoreFails, RestoreDone, Goto
  <2> QED
    BY <1>0, <2>1 DEF AtFile, TypeOK, Steps
<1>6. ASSUME TakeCheckpoint \/ Rewind \/ PersistStart \/ UNCHANGED vars PROVE AtFile'
  <2>1. at' = at /\ \A c \in Calls : pc'[c] = pc[c]
    BY <1>0, <1>6 DEF TakeCheckpoint, Rewind, PersistStart, vars, TakeBack, Goto, TypeOK
  <2> QED
    BY <2>1 DEF AtFile
<1> QED
  BY <1>1, <1>2, <1>3, <1>4, <1>5, <1>6 DEF Next, Continue, ToolStep, PersistStep

-----------------------------------------------------------------------------
(* Calm steps: those after which there has still been no accident          *)

Calm == [Next]_vars /\ accidents' = {}

LEMMA CalmBefore == Calm => accidents = {}
<1> SUFFICES ASSUME Calm PROVE accidents = {}
  OBVIOUS
<1>1. accidents \subseteq accidents'
  BY DEF Calm, Next, Continue, vars, Start, Undo, ToolStep, ReadPreImage, PushSnapshot, SkipSnapshot,
         WriteFile, FailWrite, FailPatch, RestoreStep, RestoreNext, RestoreFails, RestoreDone,
         TakeCheckpoint, Rewind, PersistStep, PersistStart, PersistEnd, Fault
<1> QED
  BY <1>1 DEF Calm

\* The steps that are left, and what they tell.
LEMMA CalmSteps ==
  ASSUME Calm
  PROVE  /\ \A c \in Calls : ~SkipSnapshot(c)
         /\ \A a \in Actors : ~RestoreFails(a)
         /\ \A c \in Calls : Start(c) => Peers(c) \cap Restoring = {}
         /\ \A c \in Calls : Undo(c) /\ histories[ScopeOf[c]] # <<>> =>
              /\ Peers(c) \cap Calls = {}
              /\ Below(c, Len(histories[ScopeOf[c]]) - 1) = {}
         /\ \A c \in Calls : FailPatch(c) => Peers(c) \cap Calls = {}
         /\ TakeCheckpoint \/ Rewind => Peers(User) = {}
         /\ \A c \in Calls :
              /\ Start(c) \/ (Undo(c) /\ histories[ScopeOf[c]] # <<>>)
              /\ ScopeOf[c] = UserScope
              => pc[User] \notin {"restore", "persist"}
         /\ \A off \in BOOLEAN : PersistEnd(off) => histories' = histories
<1>1. \A a \in Actors : Overlap(a, Calls) = {} => Peers(a) = {}
  BY DEF Overlap, Peers, InFlight
<1>2. TakeCheckpoint \/ Rewind => Peers(User) = {}
  BY <1>1 DEF Calm, TakeCheckpoint, Rewind, Actors
<1>3. ASSUME NEW c \in Calls, Start(c) \/ (Undo(c) /\ histories[ScopeOf[c]] # <<>>),
             ScopeOf[c] = UserScope
      PROVE  pc[User] \notin {"restore", "persist"}
  <2>1. \E T \in {Restoring, Calls} : Overlap(c, T) = {}
    BY <1>3 DEF Calm, Start, Undo
  <2>2. c # User
    BY SnapshotAssumption
  <2>3. Scope(c) = UserScope
    BY <1>3, <2>2 DEF Scope
  <2> QED
    BY <2>1, <2>3 DEF Overlap, Rewinding
<1>4. \A c \in Calls : Start(c) => Peers(c) \cap Restoring = {}
  BY DEF Calm, Start, Overlap
<1>5. \A c \in Calls : Undo(c) /\ histories[ScopeOf[c]] # <<>> =>
              /\ Peers(c) \cap Calls = {}
              /\ Below(c, Len(histories[ScopeOf[c]]) - 1) = {}
  BY DEF Calm, Undo, Overlap
<1>6. \A c \in Calls : FailPatch(c) => Peers(c) \cap Calls = {}
  BY DEF Calm, FailPatch, Overlap
<1> QED
  BY <1>2, <1>3, <1>4, <1>5, <1>6
     DEF Calm, SkipSnapshot, RestoreFails, Fault, PersistEnd

LEMMA SoleKept ==
  ASSUME TypeOK, Sole, NEW b \in Actors, NEW v, pc' = [pc EXCEPT ![b] = v],
         b \in Calls => pc[b] \notin Resting \/ v \in Resting,
         v # "restore",
         b = User /\ v = "persist" => pc[b] \in {"restore", "persist"}
  PROVE  Sole'
<1>1. \A a \in Actors : pc'[a] = IF a = b THEN v ELSE pc[a]
  BY DEF TypeOK
<1>2. Calls \subseteq Actors /\ \A a \in Actors : Scope(a)' = Scope(a)
  BY DEF Actors, Scope
<1> QED
  BY <1>1, <1>2 DEF Sole

\* Somebody begins to restore while no call of its scope is in flight.
LEMMA SoleBegins ==
  ASSUME TypeOK, Sole, NEW b \in Actors, pc' = [pc EXCEPT ![b] = "restore"],
         Peers(b) = {},
         b \in Calls /\ ScopeOf[b] = UserScope => pc[User] \notin {"restore", "persist"}
  PROVE  Sole' /\ Restorers(Scope(b)) \subseteq {b}
<1>1. \A a \in Actors : pc'[a] = IF a = b THEN "restore" ELSE pc[a]
  BY DEF TypeOK
<1>2. Calls \subseteq Actors /\ \A a \in Actors : Scope(a)' = Scope(a)
  BY DEF Actors, Scope
<1>3. \A d \in Calls : d # b /\ ScopeOf[d] = Scope(b) => pc[d] \in Resting
  BY DEF Peers, InFlight
<1>4. User \notin Calls /\ Scope(User) = UserScope /\ \A c \in Calls : Scope(c) = ScopeOf[c]
  BY SnapshotAssumption DEF Scope
<1>5. ASSUME NEW d \in Calls, NEW a \in Actors \ {d}, Scope(a) = ScopeOf[d],
             pc'[a] = "restore" \/ (a = User /\ pc'[a] = "persist")
      PROVE  pc'[d] \in Resting
  <2>1. CASE d # b
    <3>1. CASE a = b
      BY <1>1, <1>2, <1>3, <1>5, <2>1, <3>1
    <3>2. CASE a # b
      BY <1>1, <1>2, <1>5, <2>1, <3>2 DEF Sole
    <3> QED
      BY <3>1, <3>2
  <2>2. CASE d = b
    <3>1. pc'[a] = pc[a]
      BY <1>1, <2>2
    <3>2. CASE a = User
      BY <1>4, <1>5, <2>2, <3>1, <3>2
    <3>3. CASE a # User
      BY <1>3, <1>4, <1>5, <2>2, <3>1, <3>3 DEF Actors, Resting
    <3> QED
      BY <3>2, <3>3
  <2> QED
    BY <2>1, <2>2
<1>6. ASSUME NEW a \in Restorers(Scope(b)), a # b PROVE FALSE
  <2>1. a \in Actors /\ Scope(a) = Scope(b) /\ pc[a] = "restore"
    BY DEF Restorers
  <2>2. CASE a \in Calls
    BY <1>3, <1>4, <1>6, <2>1, <2>2 DEF Resting
  <2>3. CASE a = User
    BY <1>4, <1>6, <2>1, <2>3 DEF Actors
  <2> QED
    BY <2>1, <2>2, <2>3 DEF Actors
<1>7. Restorers(Scope(b)) \subseteq {b}
  BY <1>6
<1> QED
  BY <1>2, <1>5, <1>7 DEF Sole

LEMMA SoleStep == TypeOK /\ Queued /\ Sole /\ Calm => Sole'
<1> SUFFICES ASSUME TypeOK, Queued, Sole, Calm PROVE Sole'
  OBVIOUS
<1>0. /\ \A c \in Calls : c \in Actors /\ c # User /\ Scope(c) = ScopeOf[c]
      /\ User \in Actors /\ Scope(User) = UserScope
  BY SnapshotAssumption DEF Actors, Scope
<1>1. ASSUME NEW c \in Calls, Start(c) PROVE Sole'
  <2>1. /\ pc[c] = "idle" /\ pc' = [pc EXCEPT ![c] = "read"]
        /\ ScopeOf[c] = UserScope => pc[User] \notin {"restore", "persist"}
        /\ Peers(c) \cap Restoring = {}
    BY <1>1, CalmSteps DEF Start, MayStart, Goto
  <2>2. \A a \in Calls \ {c} : ScopeOf[a] = ScopeOf[c] => pc[a] # "restore"
    BY <1>0, <2>1 DEF Peers, InFlight, Restoring, Resting
  <2>3. \A a \in Actors : pc'[a] = IF a = c THEN "read" ELSE pc[a]
    BY <2>1 DEF TypeOK
  <2>4. \A a \in Actors : Scope(a)' = Scope(a)
    BY DEF Scope
  <2> QED
    BY <1>0, <2>1, <2>2, <2>3, <2>4 DEF Sole, Actors
<1>2. ASSUME NEW c \in Calls, Undo(c) PROVE Sole'
  <2>1. CASE histories[ScopeOf[c]] = <<>>
    <3>1. pc' = [pc EXCEPT ![c] = "failed"]
      <4>1. Len(histories[ScopeOf[c]]) = 0
        BY <2>1
      <4> QED
        BY <1>2, <4>1 DEF Undo, Goto
    <3> QED
      BY <1>0, <3>1, SoleKept DEF Resting
  <2>2. CASE histories[ScopeOf[c]] # <<>>
    <3>1. pc' = [pc EXCEPT ![c] = "restore"]
      <4>1. Len(histories[ScopeOf[c]]) # 0
        BY <2>2, SnapshotAssumption DEF TypeOK
      <4> QED
        BY <1>2, <4>1 DEF Undo, TakeBack, Goto
    <3>2. Peers(c) = {}
      BY <1>2, <2>2, CalmSteps DEF Peers, InFlight
    <3>3. ScopeOf[c] = UserScope => pc[User] \notin {"restore", "persist"}
      BY <1>2, <2>2, CalmSteps
    <3> QED
      BY <1>0, <3>1, <3>2, <3>3, SoleBegins
  <2> QED
    BY <2>1, <2>2
<1>3. ASSUME NEW c \in Calls, FailPatch(c) PROVE Sole'
  <2>1. pc[c] = "write" /\ pc' = [pc EXCEPT ![c] = "restore"]
    BY <1>3 DEF FailPatch, TakeBack, Goto
  <2>2. Peers(c) = {}
    BY <1>3, CalmSteps DEF Peers, InFlight
  <2>3. ScopeOf[c] = UserScope => pc[User] \notin {"restore", "persist"}
    BY <1>0, <2>1 DEF Sole, Resting
  <2> QED
    BY <1>0, <2>1, <2>2, <2>3, SoleBegins
<1>4. ASSUME Rewind PROVE Sole'
  <2>1. pc' = [pc EXCEPT ![User] = "restore"] /\ Peers(User) = {}
    BY <1>4, CalmSteps DEF Rewind, TakeBack, Goto
  <2> QED
    BY <1>0, <2>1, SnapshotAssumption, SoleBegins
<1>5. ASSUME NEW c \in Calls,
             ReadPreImage(c) \/ PushSnapshot(c) \/ WriteFile(c) \/ FailWrite(c)
      PROVE  Sole'
  <2>1. pc[c] \notin Resting /\ \E v : v # "restore" /\ pc' = [pc EXCEPT ![c] = v]
    BY <1>5 DEF ReadPreImage, PushSnapshot, WriteFile, FailWrite, Advance, Goto, Resting
  <2> QED
    BY <1>0, <2>1, SoleKept
<1>6. ASSUME NEW a \in Actors, RestoreDone(a) PROVE Sole'
  <2>1. pc[a] = "restore" /\ pc' = [pc EXCEPT ![a] = "persist"]
    BY <1>6 DEF RestoreDone, Goto
  <2> QED
    BY <2>1, SoleKept DEF Resting
<1>7. ASSUME NEW off \in BOOLEAN, PersistEnd(off) PROVE Sole'
  <2> DEFINE a == Head(queue)
  <2>1. a \in Actors /\ pc[a] \in Waiting /\ Resume(a)
    BY <1>7, QueueShrinks DEF PersistEnd
  <2> HIDE DEF a
  <2>2. \E v \in {"read", "write", "failed", "done"} : pc' = [pc EXCEPT ![a] = v]
    BY <2>1 DEF Resume, Advance, Goto
  <2> QED
    BY <2>1, <2>2, SoleKept DEF Waiting, Resting
<1>8. ASSUME pc' = pc PROVE Sole'
  BY <1>8 DEF Sole, Scope
<1>9. ASSUME TakeCheckpoint \/ PersistStart \/ UNCHANGED vars
             \/ \E a \in Actors : RestoreNext(a)
      PROVE  pc' = pc
  BY <1>9 DEF TakeCheckpoint, PersistStart, RestoreNext, vars
<1> QED
  BY <1>1, <1>2, <1>3, <1>4, <1>5, <1>6, <1>7, <1>8, <1>9, CalmSteps
     DEF Calm, Next, Continue, ToolStep, RestoreStep, PersistStep

-----------------------------------------------------------------------------
(* What each step does to the logs                                         *)

LEMMA RestIs ==
  ASSUME TypeOK, Sole, NEW a \in Actors, pc[a] = "restore"
  PROVE  Restorers(Scope(a)) = {a} /\ Rest(Scope(a)) = todo[a]
<1>1. a \in Restorers(Scope(a))
  BY DEF Restorers
<1>2. ASSUME NEW b \in Restorers(Scope(a)), b # a PROVE FALSE
  <2>1. b \in Actors /\ Scope(b) = Scope(a) /\ pc[b] = "restore"
    BY DEF Restorers
  <2>2. \A c \in Calls : Scope(c) = ScopeOf[c]
    BY SnapshotAssumption DEF Scope
  <2>3. a \in Calls \/ b \in Calls
    BY <1>2, <2>1 DEF Actors
  <2> QED
    BY <1>2, <2>1, <2>2, <2>3 DEF Sole, Resting
<1>3. Restorers(Scope(a)) = {a}
  BY <1>1, <1>2
<1> QED
  BY <1>3 DEF Rest

LEMMA RestOfAll ==
  TypeOK /\ Sole => \A a \in Actors : pc[a] = "restore" => Rest(Scope(a)) = todo[a]
BY RestIs

LEMMA LogType ==
  ASSUME TypeOK, NEW s \in Scopes
  PROVE  /\ Log(s) \in Seq(Snapshots) /\ Rest(s) \in Seq(Snapshots)
         /\ histories[s] \in Seq(Snapshots)
         /\ Len(histories[s]) <= Len(Log(s)) /\ Len(histories[s]) \in Nat /\ Len(Log(s)) \in Nat
         /\ Rest(s) # <<>> => Len(histories[s]) < Len(Log(s))
         /\ Rest(s) = <<>> => Log(s) = histories[s]
<1>1. Rest(s) \in Seq(Snapshots)
  <2>1. Restorers(s) # {} => (CHOOSE a \in Restorers(s) : TRUE) \in Actors
    BY DEF Restorers
  <2> QED
    BY <2>1 DEF Rest, TypeOK
<1>2. histories[s] \in Seq(Snapshots)
  BY DEF TypeOK
<1> DEFINE r == Reverse(Rest(s))
<1>3. r \in Seq(Snapshots) /\ Len(r) = Len(Rest(s))
  BY <1>1, ReverseTwice
<1>4. /\ histories[s] \o r \in Seq(Snapshots)
      /\ Len(histories[s] \o r) = Len(histories[s]) + Len(r)
      /\ r = <<>> => histories[s] \o r = histories[s]
  <2> HIDE DEF r
  <2> QED
    BY <1>2, <1>3, Joined, ConcatEmptySeq
<1>5. Len(histories[s]) \in Nat /\ Len(Rest(s)) \in Nat
  BY <1>1, <1>2
<1>6. Rest(s) # <<>> => Len(Rest(s)) > 0
  BY <1>1, EmptySeq
<1>7. Rest(s) = <<>> => r = <<>>
  <2> HIDE DEF r
  <2>1. Len(<<>>) = 0
    OBVIOUS
  <2> QED
    BY <1>3, <2>1, EmptySeq
<1> QED
  BY <1>1, <1>2, <1>3, <1>4, <1>5, <1>6, <1>7 DEF Log

\* Who does not restore has nothing left to restore.
LEMMA LogRests ==
  ASSUME TypeOK, NEW s \in Scopes, Restorers(s) = {} PROVE Log(s) = histories[s]
BY LogType DEF Rest

LEMMA LogKept ==
  ASSUME TypeOK, NEW s \in Scopes, histories'[s] = histories[s],
         \A a \in Actors : Scope(a) = s =>
            todo'[a] = todo[a] /\ (pc'[a] = "restore" <=> pc[a] = "restore")
  PROVE  Log(s)' = Log(s)
<1>1. Restorers(s)' = Restorers(s)
  BY DEF Restorers, Scope
<1>2. Restorers(s) # {} =>
        todo'[CHOOSE a \in Restorers(s) : TRUE] = todo[CHOOSE a \in Restorers(s) : TRUE]
  BY DEF Restorers
<1>3. Rest(s)' = Rest(s)
  BY <1>1, <1>2 DEF Rest
<1> QED
  BY <1>3 DEF Log

LEMMA LogTakenBack ==
  ASSUME TypeOK, TypeOK', Sole', NEW b \in Actors, Restorers(Scope(b)) = {},
         NEW m \in Nat, m <= Len(histories[Scope(b)]), TakeBack(b, m)
  PROVE  /\ \A s \in Scopes : Log(s)' = Log(s)
         /\ \A s \in Scopes : s # Scope(b) => histories'[s] = histories[s]
         /\ Len(histories'[Scope(b)]) = m
<1> DEFINE t == Scope(b)
           h == histories[t]
<1>1. t \in Scopes /\ h \in Seq(Snapshots) /\ Scope(b)' = t
  BY InScope DEF TypeOK, Scope
<1> HIDE DEF t
<1>2. (IF m < Len(h) THEN m ELSE Len(h)) = m
  BY <1>1 DEF t
<1>3. /\ todo' = [todo EXCEPT ![b] = Reverse(SubSeq(h, m + 1, Len(h)))]
      /\ histories' = [histories EXCEPT ![t] = SubSeq(h, 1, m)]
      /\ pc' = [pc EXCEPT ![b] = "restore"]
  BY <1>2 DEF TakeBack, Goto, t
<1>4. /\ Len(SubSeq(h, 1, m)) = m
      /\ SubSeq(h, 1, m) \o Reverse(Reverse(SubSeq(h, m + 1, Len(h)))) = h
  BY <1>1, Spliced DEF t
<1>5. \A s \in Scopes : s # t => histories'[s] = histories[s]
  BY <1>3 DEF TypeOK
<1>6. histories'[t] = SubSeq(h, 1, m)
  BY <1>1, <1>3 DEF TypeOK
<1>7. \A s \in Scopes : s # t => Log(s)' = Log(s)
  BY <1>3, <1>5, LogKept DEF TypeOK, t
<1>8. Log(t) = h
  BY <1>1, LogRests DEF t
<1>9. Log(t)' = h
  <2>1. pc'[b] = "restore" /\ todo'[b] = Reverse(SubSeq(h, m + 1, Len(h)))
    BY <1>3 DEF TypeOK
  <2>2. (Rest(t) = todo[b])'
    <3>1. (TypeOK /\ Sole)' => (\A a \in Actors : pc[a] = "restore" => Rest(Scope(a)) = todo[a])'
      BY RestOfAll, PTL
    <3> QED
      BY <1>1, <2>1, <3>1
  <2>3. Log(t)' = histories'[t] \o Reverse(Rest(t)')
    BY DEF Log
  <2> QED
    BY <1>4, <1>6, <2>1, <2>2, <2>3
<1> QED
  BY <1>1, <1>4, <1>5, <1>6, <1>7, <1>8, <1>9 DEF t

\* The snapshot a call pushes.
Taken(c) == [path |-> File(c), content |-> got[c], scope |-> ScopeOf[c]]

LEMMA LogPushed ==
  ASSUME TypeOK, AtFile, Sole, NEW c \in Calls, PushSnapshot(c)
  PROVE  /\ Taken(c) \in Snapshots
         /\ Log(ScopeOf[c])' = Append(Log(ScopeOf[c]), Taken(c))
         /\ Log(ScopeOf[c]) = histories[ScopeOf[c]]
         /\ Len(histories'[ScopeOf[c]]) = Len(histories[ScopeOf[c]]) + 1
         /\ \A s \in Scopes : s # ScopeOf[c] => Log(s)' = Log(s) /\ histories'[s] = histories[s]
<1> DEFINE t == ScopeOf[c]
           e == Taken(c)
<1>1. /\ t \in Scopes /\ c \in Actors /\ Scope(c) = t
      /\ pc[c] = "push" /\ pc' = [pc EXCEPT ![c] = "snapshot"]
      /\ histories' = [histories EXCEPT ![t] = Append(histories[t], e)]
      /\ todo' = todo
  BY SnapshotAssumption DEF PushSnapshot, Actors, Scope, Goto, Taken
<1>2. Taken(c) \in Snapshots
  BY <1>1, FileIs DEF Taken, Snapshots, TypeOK, Steps
<1> HIDE DEF t, e
<1>3. \A a \in Actors : pc'[a] = "restore" <=> pc[a] = "restore"
  BY <1>1 DEF TypeOK
<1>4. \A s \in Scopes : s # t => histories'[s] = histories[s]
  BY <1>1 DEF TypeOK
<1>5. \A s \in Scopes : s # t => Log(s)' = Log(s)
  BY <1>1, <1>3, <1>4, LogKept
<1>6. histories'[t] = Append(histories[t], e) /\ histories[t] \in Seq(Snapshots)
  BY <1>1 DEF TypeOK
<1>7. Restorers(t) = {} /\ Restorers(t)' = {}
  <2>1. Restorers(t) = {}
    BY <1>1, SnapshotAssumption DEF Restorers, Sole, Resting, t
  <2> QED
    BY <1>3, <2>1 DEF Restorers, Scope
<1>8. Log(t) = histories[t]
  BY <1>1, <1>7, LogRests
<1>9. Log(t)' = histories'[t]
  <2>1. Rest(t)' = <<>>
    BY <1>7 DEF Rest
  <2>2. Log(t)' = histories'[t] \o Reverse(Rest(t)')
    BY DEF Log
  <2>3. Reverse(<<>>) = <<>>
    BY DEF Reverse
  <2>4. histories'[t] \in Seq(Snapshots)
    BY <1>2, <1>6 DEF e
  <2> QED
    BY <2>1, <2>2, <2>3, <2>4, ConcatEmptySeq
<1> QED
  BY <1>2, <1>4, <1>5, <1>6, <1>8, <1>9 DEF t, e

LEMMA LogRestored ==
  ASSUME TypeOK, Sole, NEW a \in Actors, RestoreNext(a)
  PROVE  /\ Head(todo[a]) \in Snapshots
         /\ Log(Scope(a))' \in Seq(Snapshots)
         /\ Log(Scope(a)) = Append(Log(Scope(a))', Head(todo[a]))
         /\ Len(histories[Scope(a)]) < Len(Log(Scope(a)))
         /\ \A s \in Scopes : s # Scope(a) => Log(s)' = Log(s)
<1> DEFINE t == Scope(a)
           h == histories[t]
           r == todo[a]
<1>1. /\ t \in Scopes /\ h \in Seq(Snapshots) /\ pc[a] = "restore" /\ r # <<>>
      /\ r \in Seq(Snapshots)
      /\ histories' = histories /\ pc' = pc /\ todo' = [todo EXCEPT ![a] = Tail(r)]
  BY InScope DEF RestoreNext, TypeOK
<1>2. Restorers(t) = {a} /\ Rest(t) = r
  BY <1>1, RestIs
<1>3. Restorers(t)' = {a}
  BY <1>1, <1>2 DEF Restorers, Scope
<1>4. Rest(t)' = Tail(r)
  <2>1. todo'[a] = Tail(r)
    BY <1>1 DEF TypeOK
  <2> QED
    BY <1>3, <2>1 DEF Rest
<1>5. Log(t) = h \o Reverse(r) /\ Log(t)' = h \o Reverse(Tail(r))
  BY <1>1, <1>2, <1>4 DEF Log
<1> HIDE DEF t, h, r
<1>6. /\ Head(r) \in Snapshots /\ Tail(r) \in Seq(Snapshots)
      /\ h \o Reverse(r) = Append(h \o Reverse(Tail(r)), Head(r))
  BY <1>1, Unreversed
<1>7. h \o Reverse(Tail(r)) \in Seq(Snapshots)
  BY <1>1, <1>6, ReverseTwice, Joined
<1>8. Len(h) < Len(Log(t))
  BY <1>1, <1>2, LogType DEF h
<1>9. \A s \in Scopes : s # t => Log(s)' = Log(s)
  BY <1>1, LogKept DEF TypeOK, t
<1> QED
  BY <1>5, <1>6, <1>7, <1>8, <1>9 DEF t, h, r

LEMMA LogDone ==
  ASSUME TypeOK, Sole, NEW a \in Actors, RestoreDone(a)
  PROVE  /\ \A s \in Scopes : Log(s)' = Log(s)
         /\ Log(Scope(a)) = histories[Scope(a)]
<1> DEFINE t == Scope(a)
<1>1. /\ t \in Scopes /\ pc[a] = "restore" /\ todo[a] = <<>>
      /\ histories' = histories /\ todo' = todo /\ pc' = [pc EXCEPT ![a] = "persist"]
  BY InScope DEF RestoreDone, Goto
<1>2. Restorers(t) = {a} /\ Rest(t) = <<>>
  BY <1>1, RestIs
<1>3. Restorers(t)' = {} /\ Rest(t)' = <<>>
  BY <1>1, <1>2 DEF Restorers, Rest, Scope, TypeOK
<1> HIDE DEF t
<1>4. Log(t)' = Log(t)
  BY <1>1, <1>2, <1>3 DEF Log
<1>5. \A s \in Scopes : s # t => Log(s)' = Log(s)
  BY <1>1, LogKept DEF TypeOK, t
<1>6. Log(t) = histories[t]
  BY <1>1, <1>2, LogType
<1> QED
  BY <1>4, <1>5, <1>6 DEF t

\* Actor b takes back all entries of its scope above m.
Cuts(b, m) ==
  \/ /\ b \in Calls /\ Undo(b) /\ histories[ScopeOf[b]] # <<>>
     /\ m = Len(histories[ScopeOf[b]]) - 1
  \/ b \in Calls /\ FailPatch(b) /\ m = mark[b]
  \/ b = User /\ Rewind /\ m = checkpoint.mark

LEMMA CutIs ==
  ASSUME TypeOK, TypeOK', Sole, Sole', Marked, CheckpointInv, Calm,
         NEW b \in Actors, NEW m, Cuts(b, m)
  PROVE  /\ m \in Nat /\ m <= Len(histories[Scope(b)]) /\ Scope(b) \in Scopes
         /\ Peers(b) = {}
         /\ pc' = [pc EXCEPT ![b] = "restore"]
         /\ pc[b] \notin Waiting
         /\ \A s \in Scopes : Log(s)' = Log(s)
         /\ \A s \in Scopes : s # Scope(b) => histories'[s] = histories[s]
         /\ Len(histories'[Scope(b)]) = m
         /\ checkpoint # NoCheckpoint /\ Scope(b) = UserScope => checkpoint.mark <= m
         /\ UNCHANGED <<at, got, mark, checkpoint>>
         /\ b \in Calls /\ Scope(b) = UserScope => pc[User] \notin {"restore", "persist"}
<1>0. /\ \A c \in Calls : c \in Actors /\ c # User /\ Scope(c) = ScopeOf[c]
      /\ User \in Actors /\ Scope(User) = UserScope
  BY SnapshotAssumption DEF Actors, Scope
<1>1. Scope(b) \in Scopes /\ Len(histories[Scope(b)]) \in Nat
      /\ histories[Scope(b)] \in Seq(Snapshots)
  BY InScope DEF TypeOK
<1> DEFINE Facts ==
      /\ m \in Nat /\ m <= Len(histories[Scope(b)])
      /\ Peers(b) = {} /\ TakeBack(b, m) /\ pc[b] \notin Waiting
      /\ checkpoint # NoCheckpoint /\ Scope(b) = UserScope => checkpoint.mark <= m
      /\ UNCHANGED <<at, got, mark, checkpoint>>
      /\ b \in Calls /\ Scope(b) = UserScope => pc[User] \notin {"restore", "persist"}
<1>2. ASSUME b \in Calls, Undo(b), histories[ScopeOf[b]] # <<>>,
             m = Len(histories[ScopeOf[b]]) - 1
      PROVE  Facts
  <2>1. m \in Nat /\ m <= Len(histories[Scope(b)]) /\ Len(histories[ScopeOf[b]]) # 0
    BY <1>0, <1>1, <1>2, EmptySeq
  <2>2. TakeBack(b, m) /\ pc[b] = "idle"
    BY <1>2, <2>1 DEF Undo, MayStart
  <2>3. Peers(b) = {} /\ Below(b, m) = {}
    BY <1>2, CalmSteps DEF Peers, InFlight
  <2>4. checkpoint # NoCheckpoint /\ Scope(b) = UserScope => checkpoint.mark <= m
    <3>1. checkpoint # NoCheckpoint => checkpoint.mark \in Nat
      BY DEF TypeOK
    <3> QED
      BY <2>1, <2>3, <3>1 DEF Below
  <2>5. UNCHANGED <<at, got, mark, checkpoint>>
        /\ (Scope(b) = UserScope => pc[User] \notin {"restore", "persist"})
    BY <1>0, <1>2, CalmSteps DEF Undo
  <2> QED
    BY <2>1, <2>2, <2>3, <2>4, <2>5 DEF Waiting
<1>3. ASSUME b \in Calls, FailPatch(b), m = mark[b] PROVE Facts
  <2>1. pc[b] = "write" /\ b \in Patches /\ TakeBack(b, m) /\ UNCHANGED <<at, got, mark, checkpoint>>
    BY <1>3 DEF FailPatch
  <2>2. m \in Nat /\ m <= Len(histories[Scope(b)])
    BY <1>0, <1>3, <2>1 DEF TypeOK, Marked, Steps
  <2>3. Peers(b) = {}
    BY <1>3, CalmSteps DEF Peers, InFlight
  <2>4. checkpoint # NoCheckpoint /\ Scope(b) = UserScope => checkpoint.mark <= m
    BY <1>0, <1>3, <2>1 DEF CheckpointInv, Steps
  <2>5. Scope(b) = UserScope => pc[User] \notin {"restore", "persist"}
    BY <1>0, <1>3, <2>1 DEF Sole, Resting
  <2> QED
    BY <2>1, <2>2, <2>3, <2>4, <2>5 DEF Waiting
<1>4. ASSUME b = User, Rewind, m = checkpoint.mark PROVE Facts
  <2>1. pc[User] = "idle" /\ checkpoint # NoCheckpoint /\ Peers(b) = {} /\ TakeBack(b, m)
        /\ UNCHANGED <<at, got, mark, checkpoint>>
    BY <1>4, CalmSteps DEF Rewind
  <2>2. m \in Nat /\ m <= Len(histories[Scope(b)])
    BY <1>0, <1>4, <2>1 DEF TypeOK, CheckpointInv
  <2> QED
    BY <1>4, <2>1, <2>2, SnapshotAssumption DEF Waiting
<1>5. Facts
  BY <1>2, <1>3, <1>4 DEF Cuts
<1>6. pc' = [pc EXCEPT ![b] = "restore"]
  BY <1>5 DEF TakeBack, Goto
<1>7. Restorers(Scope(b)) = {}
  <2>1. Restorers(Scope(b)) \subseteq {b}
    BY <1>5, <1>6, <1>0, SoleBegins
  <2>2. pc[b] # "restore"
    BY <1>2, <1>3, <1>4 DEF Cuts, Undo, MayStart, FailPatch, Rewind
  <2> QED
    BY <2>1, <2>2 DEF Restorers
<1>8. /\ \A s \in Scopes : Log(s)' = Log(s)
      /\ \A s \in Scopes : s # Scope(b) => histories'[s] = histories[s]
      /\ Len(histories'[Scope(b)]) = m
  BY <1>5, <1>7, LogTakenBack
<1> QED
  BY <1>1, <1>5, <1>6, <1>8

\* The steps that leave all histories alone.
Quiet ==
  \/ \E c \in Calls :
       \/ Start(c) \/ ReadPreImage(c) \/ WriteFile(c) \/ FailWrite(c)
       \/ Undo(c) /\ histories[ScopeOf[c]] = <<>>
  \/ TakeCheckpoint \/ PersistStart \/ UNCHANGED vars
  \/ \E off \in BOOLEAN : PersistEnd(off)

LEMMA QuietLogs ==
  ASSUME TypeOK, Queued, Calm, Quiet
  PROVE  histories' = histories /\ \A s \in Scopes : Log(s)' = Log(s)
<1>1. histories' = histories /\ todo' = todo
  <2>1. ASSUME NEW c \in Calls, Undo(c), histories[ScopeOf[c]] = <<>>
        PROVE  histories' = histories /\ todo' = todo
    <3>1. Len(histories[ScopeOf[c]]) = 0
      BY <2>1
    <3> QED
      BY <2>1, <3>1 DEF Undo
  <2>2. ASSUME NEW off \in BOOLEAN, PersistEnd(off)
        PROVE  histories' = histories /\ todo' = todo
    BY <2>2, CalmSteps DEF PersistEnd
  <2> QED
    BY <2>1, <2>2
       DEF Quiet, Start, ReadPreImage, WriteFile, FailWrite, TakeCheckpoint, PersistStart, vars
<1>2. \/ pc' = pc
      \/ \E a \in Actors : \E v :
           pc[a] # "restore" /\ v # "restore" /\ pc' = [pc EXCEPT ![a] = v]
  <2>1. ASSUME NEW off \in BOOLEAN, PersistEnd(off)
        PROVE  \E a \in Actors : \E v :
                 pc[a] # "restore" /\ v # "restore" /\ pc' = [pc EXCEPT ![a] = v]
    <3> DEFINE a == Head(queue)
    <3>1. a \in Actors /\ pc[a] \in Waiting /\ Resume(a)
      BY <2>1, QueueShrinks DEF PersistEnd
    <3> HIDE DEF a
    <3>2. pc[a] # "restore" /\ \E v : v # "restore" /\ pc' = [pc EXCEPT ![a] = v]
      BY <3>1 DEF Resume, Advance, Goto, Waiting
    <3> QED
      BY <3>1, <3>2
  <2>2. ASSUME NEW c \in Calls, Undo(c), histories[ScopeOf[c]] = <<>>
        PROVE  pc[c] = "idle" /\ pc' = [pc EXCEPT ![c] = "failed"]
    <3>1. Len(histories[ScopeOf[c]]) = 0
      BY <2>2
    <3> QED
      BY <2>2, <3>1 DEF Undo, MayStart, Goto
  <2>3. ASSUME NEW c \in Calls, Start(c) \/ ReadPreImage(c) \/ WriteFile(c) \/ FailWrite(c)
        PROVE  pc[c] # "restore" /\ \E v : v # "restore" /\ pc' = [pc EXCEPT ![c] = v]
    BY <2>3 DEF Start, MayStart, ReadPreImage, WriteFile, FailWrite, Advance, Goto
  <2>4. ASSUME TakeCheckpoint \/ PersistStart \/ UNCHANGED vars PROVE pc' = pc
    BY <2>4 DEF TakeCheckpoint, PersistStart, vars
  <2>5. Calls \subseteq Actors
    BY DEF Actors
  <2> QED
    BY <2>1, <2>2, <2>3, <2>4, <2>5 DEF Quiet
<1>3. \A a \in Actors : pc'[a] = "restore" <=> pc[a] = "restore"
  BY <1>2 DEF TypeOK
<1> QED
  BY <1>1, <1>3, LogKept

\* Every calm step is of one of these kinds.
LEMMA CalmKinds ==
  ASSUME TypeOK, Calm
  PROVE  \/ Quiet
         \/ \E c \in Calls : PushSnapshot(c)
         \/ \E b \in Actors : \E m : Cuts(b, m)
         \/ \E a \in Actors : RestoreNext(a) \/ RestoreDone(a)
<1>1. Calls \subseteq Actors /\ User \in Actors
  BY DEF Actors
<1>2. ASSUME NEW c \in Calls, Undo(c) PROVE Quiet \/ \E m : Cuts(c, m)
  BY <1>2 DEF Quiet, Cuts
<1>3. ASSUME NEW c \in Calls, FailPatch(c) PROVE \E m : Cuts(c, m)
  BY <1>3 DEF Cuts
<1>4. ASSUME Rewind PROVE \E m : Cuts(User, m)
  BY <1>4 DEF Cuts
<1> QED
  BY <1>1, <1>2, <1>3, <1>4, CalmSteps
     DEF Calm, Next, Continue, ToolStep, RestoreStep, PersistStep, Quiet

\* What a step does to the log of a scope: nothing, or it adds a snapshot, or it
\* restores the last one.
LEMMA LogStep ==
  ASSUME TypeOK, TypeOK', Queued, AtFile, Sole, Sole', Marked, CheckpointInv, Calm,
         NEW s \in Scopes
  PROVE  \/ Log(s)' = Log(s)
         \/ \E c \in Calls : PushSnapshot(c) /\ ScopeOf[c] = s
              /\ Log(s)' = Append(Log(s), Taken(c)) /\ Taken(c) \in Snapshots
         \/ \E a \in Actors : RestoreNext(a) /\ Scope(a) = s
              /\ Log(s) = Append(Log(s)', Head(todo[a])) /\ Head(todo[a]) \in Snapshots
              /\ Log(s)' \in Seq(Snapshots) /\ Len(histories[s]) < Len(Log(s))
<1>1. CASE Quiet
  BY <1>1, QuietLogs
<1>2. ASSUME NEW c \in Calls, PushSnapshot(c)
      PROVE  \/ Log(s)' = Log(s)
             \/ /\ ScopeOf[c] = s /\ Log(s)' = Append(Log(s), Taken(c))
                /\ Taken(c) \in Snapshots
  BY <1>2, LogPushed
<1>3. ASSUME NEW b \in Actors, NEW m, Cuts(b, m) PROVE Log(s)' = Log(s)
  BY <1>3, CutIs
<1>4. ASSUME NEW a \in Actors, RestoreNext(a)
      PROVE  \/ Log(s)' = Log(s)
             \/ /\ Scope(a) = s /\ Log(s) = Append(Log(s)', Head(todo[a]))
                /\ Head(todo[a]) \in Snapshots /\ Log(s)' \in Seq(Snapshots)
                /\ Len(histories[s]) < Len(Log(s))
  BY <1>4, LogRestored
<1>5. ASSUME NEW a \in Actors, RestoreDone(a) PROVE Log(s)' = Log(s)
  BY <1>5, LogDone
<1> QED
  BY <1>1, <1>2, <1>3, <1>4, <1>5, CalmKinds

-----------------------------------------------------------------------------
(* What each step does to the calls and to the files                       *)

Writes(c) == WriteFile(c) \/ FailWrite(c) \/ FailPatch(c)

\* Where a call comes from.
LEMMA PcKinds ==
  ASSUME TypeOK, Queued, Calm, NEW d \in Calls
  PROVE  /\ mark'[d] = mark[d] \/ (Start(d) /\ pc'[d] = "read")
         /\ pc'[d] \in Steps => pc[d] \in Steps \/ Start(d)
         /\ pc'[d] = "restore" => pc[d] = "restore" \/ \E m : Cuts(d, m)
         /\ pc'[d] = "idle" => pc[d] = "idle"
         /\ d \in Patches /\ pc'[d] \in {"persist", "failed"} =>
              pc[d] \in {"persist", "failed"} \/ RestoreDone(d)
         /\ pc'[d] = "push" => (pc[d] = "push" /\ got'[d] = got[d]) \/ ReadPreImage(d)
         /\ pc'[d] = "push" => at'[d] = at[d]
         /\ pc[d] \in Steps => ~Start(d)
<1> DEFINE Same == /\ pc'[d] = pc[d] /\ at'[d] = at[d] /\ mark'[d] = mark[d] /\ got'[d] = got[d]
           Goes == /\ mark'[d] = mark[d] \/ (Start(d) /\ pc'[d] = "read")
                   /\ pc'[d] \in Steps => pc[d] \in Steps \/ Start(d)
                   /\ pc'[d] = "restore" => pc[d] = "restore" \/ \E m : Cuts(d, m)
                   /\ pc'[d] = "idle" => pc[d] = "idle"
                   /\ d \in Patches /\ pc'[d] \in {"persist", "failed"} =>
                        pc[d] \in {"persist", "failed"} \/ RestoreDone(d)
                   /\ pc'[d] = "push" => (pc[d] = "push" /\ got'[d] = got[d]) \/ ReadPreImage(d)
                   /\ pc'[d] = "push" => at'[d] = at[d]
<1>0. d \in Actors /\ d # User /\ Calls \subseteq Actors /\ d \in DOMAIN pc /\ d \in DOMAIN at
      /\ d \in DOMAIN mark /\ d \in DOMAIN got
  BY SnapshotAssumption DEF Actors, TypeOK
<1>1. Same => Goes
  BY DEF Steps
<1>2. ASSUME Start(d) PROVE Goes
  BY <1>0, <1>2 DEF Start, Goto, Steps
<1>3. ASSUME Undo(d) PROVE Goes
  <2>1. d \notin Patches /\ mark' = mark
    BY <1>3, SnapshotAssumption DEF Undo
  <2>2. pc'[d] \in {"failed", "restore"}
    BY <1>0, <1>3 DEF Undo, TakeBack, Goto
  <2>3. pc'[d] = "restore" => \E m : Cuts(d, m)
    <3>1. CASE histories[ScopeOf[d]] = <<>>
      <4>1. Len(histories[ScopeOf[d]]) = 0
        BY <3>1
      <4>2. pc'[d] = "failed"
        BY <1>0, <1>3, <4>1 DEF Undo, Goto
      <4> QED
        BY <4>2
    <3>2. CASE histories[ScopeOf[d]] # <<>>
      BY <1>3, <3>2 DEF Cuts
    <3> QED
      BY <3>1, <3>2
  <2> QED
    BY <2>1, <2>2, <2>3 DEF Steps
<1>4. ASSUME FailPatch(d) PROVE Goes
  BY <1>0, <1>4 DEF FailPatch, TakeBack, Goto, Steps, Cuts
<1>5. ASSUME ReadPreImage(d) PROVE Goes
  BY <1>0, <1>5 DEF ReadPreImage, Goto, Steps
<1>6. ASSUME PushSnapshot(d) \/ WriteFile(d) \/ FailWrite(d) PROVE Goes
  <2>1. /\ pc[d] \in {"push", "write"} /\ mark' = mark
        /\ pc'[d] \in {"snapshot", "write", "done", "failed"}
        /\ pc'[d] = "failed" => d \notin Patches
    BY <1>0, <1>6 DEF PushSnapshot, WriteFile, FailWrite, Advance, Goto
  <2> QED
    BY <2>1 DEF Steps
<1>7. ASSUME NEW off \in BOOLEAN, PersistEnd(off) PROVE Goes
  <2> DEFINE a == Head(queue)
  <2>1. a \in Actors /\ pc[a] \in Waiting /\ Resume(a) /\ mark' = mark /\ got' = got
    BY <1>7, QueueShrinks DEF PersistEnd
  <2> HIDE DEF a
  <2>2. CASE a # d
    BY <1>0, <1>1, <2>1, <2>2 DEF Resume, Advance, Goto
  <2>3. CASE a = d
    BY <1>0, <2>1, <2>3 DEF Resume, Advance, Goto, Steps, Waiting
  <2> QED
    BY <2>2, <2>3
<1>8. ASSUME RestoreDone(d) PROVE Goes
  BY <1>0, <1>8 DEF RestoreDone, Goto, Steps
<1>9. ASSUME NEW c \in Actors \ {d},
             \/ RestoreNext(c) \/ RestoreDone(c) \/ (Rewind /\ c = User)
             \/ /\ c \in Calls
                /\ \/ Start(c) \/ Undo(c) \/ ReadPreImage(c) \/ PushSnapshot(c)
                   \/ WriteFile(c) \/ FailWrite(c) \/ FailPatch(c)
      PROVE  Goes
  <2>1. Same
    BY <1>0, <1>9 DEF RestoreNext, RestoreDone, Rewind, Start, Undo, ReadPreImage, PushSnapshot,
       WriteFile, FailWrite, FailPatch, TakeBack, Advance, Goto
  <2> QED
    BY <1>1, <2>1
<1>10. ASSUME RestoreNext(d) \/ TakeCheckpoint \/ PersistStart \/ UNCHANGED vars PROVE Goes
  <2>1. Same
    BY <1>10 DEF RestoreNext, TakeCheckpoint, PersistStart, vars
  <2> QED
    BY <1>1, <2>1
<1>11. Goes
  <2> HIDE DEF Goes, Same
  <2>1. \/ \E c \in Calls : \/ Start(c) \/ Undo(c) \/ ReadPreImage(c) \/ PushSnapshot(c)
                            \/ WriteFile(c) \/ FailWrite(c) \/ FailPatch(c)
        \/ \E a \in Actors : RestoreNext(a) \/ RestoreDone(a)
        \/ Rewind \/ TakeCheckpoint \/ PersistStart \/ UNCHANGED vars
        \/ \E off \in BOOLEAN : PersistEnd(off)
    BY CalmSteps DEF Calm, Next, Continue, ToolStep, RestoreStep, PersistStep
  <2>2. User \in Actors \ {d}
    BY <1>0 DEF Actors
  <2>3. ASSUME NEW c \in Calls, \/ Start(c) \/ Undo(c) \/ ReadPreImage(c) \/ PushSnapshot(c)
                                \/ WriteFile(c) \/ FailWrite(c) \/ FailPatch(c)
        PROVE  Goes
    <3>1. CASE c = d
      BY <1>2, <1>3, <1>4, <1>5, <1>6, <2>3, <3>1
    <3>2. CASE c # d
      BY <1>0, <1>9, <2>3, <3>2
    <3> QED
      BY <3>1, <3>2
  <2>4. ASSUME NEW a \in Actors, RestoreNext(a) \/ RestoreDone(a) PROVE Goes
    <3>1. CASE a = d
      BY <1>8, <1>10, <2>4, <3>1, Zenon
    <3>2. CASE a # d
      <4>1. a \in Actors \ {d}
        BY <3>2
      <4>2. CASE RestoreNext(a)
        BY <1>9, <4>1, <4>2, Zenon
      <4>3. CASE RestoreDone(a)
        BY <1>9, <4>1, <4>3, Zenon
      <4> QED
        BY <2>4, <4>2, <4>3
    <3> QED
      BY <3>1, <3>2
  <2>5. ASSUME Rewind PROVE Goes
    BY <1>9, <2>2, <2>5
  <2> QED
    BY <1>7, <1>10, <2>1, <2>3, <2>4, <2>5
<1> QED
  BY <1>11 DEF Start, MayStart, Steps

\* A file keeps its content unless a call writes it or it is restored.
LEMMA HoldsKept ==
  ASSUME TypeOK, Queued, AtFile, Calm, NEW p \in Paths, NEW G, Holds(p, G),
         \A c \in Calls : Writes(c) /\ File(c) = p => c \in G,
         \A a \in Actors : RestoreNext(a) /\ Head(todo[a]).path = p => Head(todo[a]).content \in G
  PROVE  Holds(p, G)'
<1>1. disk'[p] \in G
  <2>1. ASSUME NEW c \in Calls, Writes(c)
        PROVE  disk'[p] = disk[p] \/ (File(c) = p /\ disk'[p] = c)
    BY <2>1 DEF Writes, WriteFile, FailWrite, FailPatch, Spoiled, TypeOK
  <2>2. ASSUME NEW a \in Actors, RestoreNext(a)
        PROVE  \/ disk'[p] = disk[p]
               \/ Head(todo[a]).path = p /\ disk'[p] = Head(todo[a]).content
    BY <2>2 DEF RestoreNext, TypeOK
  <2>3. \/ disk' = disk
        \/ \E c \in Calls : Writes(c)
        \/ \E a \in Actors : RestoreNext(a)
    BY CalmSteps
       DEF Calm, Next, Continue, vars, Writes, Start, Undo, ToolStep, ReadPreImage, PushSnapshot,
           RestoreStep, RestoreDone, TakeCheckpoint, Rewind, PersistStep, PersistStart, PersistEnd
  <2> QED
    BY <2>1, <2>2, <2>3 DEF Holds
<1>2. ASSUME NEW c \in Calls, pc'[c] = "push", File(c)' = p PROVE got'[c] \in G
  <2>1. File(c) = p
    BY <1>2, PcKinds DEF File
  <2>2. CASE pc[c] = "push" /\ got'[c] = got[c]
    BY <2>1, <2>2 DEF Holds
  <2>3. CASE ReadPreImage(c)
    BY <2>1, <2>3 DEF ReadPreImage, TypeOK, Holds
  <2> QED
    BY <1>2, <2>2, <2>3, PcKinds
<1> QED
  BY <1>1, <1>2 DEF Holds

\* What is restored for a file of one session alone comes from that session's log.
LEMMA RestoredOwn ==
  ASSUME TypeOK, Sole, Foreign, NEW s \in Scopes, NEW p \in Own(s), NEW a \in Actors,
         RestoreNext(a), Head(todo[a]).path = p
  PROVE  Scope(a) = s
<1>1. /\ Scope(a) \in Scopes /\ Log(Scope(a)) = Append(Log(Scope(a))', Head(todo[a]))
      /\ Log(Scope(a))' \in Seq(Snapshots) /\ Head(todo[a]) \in Snapshots
  BY InScope, LogRestored
<1> DEFINE l == Log(Scope(a))'
<1>2. Log(Scope(a))[Len(l) + 1] = Head(todo[a]) /\ Len(l) + 1 \in 1..Len(Log(Scope(a)))
  <2> HIDE DEF l
  <2> QED
    BY <1>1, AppendProperties DEF l
<1> HIDE DEF l
<1>3. PICK c \in Calls : ScopeOf[c] = Scope(a) /\ p \in Range(FilesOf[c])
  BY <1>1, <1>2 DEF Foreign
<1> QED
  BY <1>3 DEF Own

-----------------------------------------------------------------------------
(* A calm step preserves each part of the invariant                        *)

Ready ==
  /\ TypeOK /\ TypeOK' /\ Queued /\ AtFile
  /\ Sole /\ Sole' /\ Marked /\ Foreign /\ CheckpointInv
  /\ Calm

LEMMA ForeignStep == Ready => Foreign'
<1> SUFFICES ASSUME Ready, NEW s \in Scopes
             PROVE  \A i \in 1..Len(Log(s)') : \E c \in Calls :
                      ScopeOf[c] = s /\ (Log(s)')[i].path \in Range(FilesOf[c])
  BY DEF Foreign
<1> DEFINE Known(e) == \E c \in Calls : ScopeOf[c] = s /\ e.path \in Range(FilesOf[c])
<1>0. Log(s) \in Seq(Snapshots) /\ Len(Log(s)) \in Nat /\ \A i \in 1..Len(Log(s)) : Known(Log(s)[i])
  BY LogType DEF Ready, Foreign
<1>1. CASE Log(s)' = Log(s)
  BY <1>0, <1>1
<1>2. ASSUME NEW c \in Calls, PushSnapshot(c), ScopeOf[c] = s,
             Log(s)' = Append(Log(s), Taken(c)), Taken(c) \in Snapshots
      PROVE  \A i \in 1..Len(Log(s)') : Known((Log(s)')[i])
  <2>1. Known(Taken(c))
    <3>1. pc[c] \in Steps
      BY <1>2 DEF PushSnapshot, Steps
    <3>2. File(c) \in Range(FilesOf[c])
      BY <3>1, FileIs DEF Ready
    <3> QED
      BY <1>2, <3>2 DEF Taken
  <2> HIDE DEF Known
  <2> QED
    BY <1>0, <1>2, <2>1, AppendProperties
<1>3. ASSUME NEW e \in Snapshots, Log(s)' \in Seq(Snapshots), Log(s) = Append(Log(s)', e)
      PROVE  \A i \in 1..Len(Log(s)') : Known((Log(s)')[i])
  <2> DEFINE l == Log(s)'
  <2> HIDE DEF l, Known
  <2>1. /\ l \in Seq(Snapshots) /\ Log(s) = Append(l, e) /\ Len(l) \in Nat
        /\ Len(Log(s)) = Len(l) + 1 /\ \A i \in 1..Len(l) : Log(s)[i] = l[i]
    BY <1>3, AppendProperties DEF l
  <2>2. \A i \in 1..Len(l) : Known(l[i])
    BY <1>0, <2>1
  <2> QED
    BY <2>2 DEF l
<1> QED
  BY <1>1, <1>2, <1>3, LogStep DEF Ready

\* Snapshots of a call that is under way stay in the log.
LEMMA BareStep ==
  ASSUME Ready, NEW c \in Calls, pc[c] \in Steps, NEW p, NEW m \in Nat,
         ~Bare(Log(ScopeOf[c]), p, m)
  PROVE  ~Bare(Log(ScopeOf[c])', p, m)
<1> DEFINE s == ScopeOf[c]
<1>1. s \in Scopes /\ c \in Actors /\ Scope(c) = s
  BY SnapshotAssumption DEF Actors, Scope
<1>2. ASSUME NEW a \in Actors, RestoreNext(a), Scope(a) = s PROVE FALSE
  <2>1. pc[a] = "restore" /\ a # c
    BY <1>2 DEF RestoreNext, Steps
  <2> QED
    BY <1>2, <2>1 DEF Ready, Sole, Resting, Steps
<1>3. CASE Log(s)' = Log(s)
  BY <1>3
<1>4. ASSUME NEW e \in Snapshots, Log(s)' = Append(Log(s), e)
      PROVE  ~Bare(Log(s)', p, m)
  <2>1. Log(s) \in Seq(Snapshots)
    BY <1>1, LogType DEF Ready
  <2> QED
    BY <1>4, <2>1, BareAppend
<1> QED
  BY <1>1, <1>2, <1>3, <1>4, LogStep DEF Ready

LEMMA CoveredStep ==
  ASSUME Ready, NEW c \in Calls, NEW m \in Nat, Covered(c, m),
         pc[c] \in Steps => m <= Len(histories[ScopeOf[c]])
  PROVE  Covered(c, m)'
<1> DEFINE Got(i) == ~Bare(Log(ScopeOf[c]), FilesOf[c][i], m)
           s == ScopeOf[c]
<1>0. /\ c \in Actors /\ c # User /\ s \in Scopes /\ Scope(c) = s /\ pc \in [Actors -> Places]
      /\ at \in [Calls -> Nat \ {0}]
  BY SnapshotAssumption DEF Actors, Scope, Ready, TypeOK, Places
<1> SUFFICES ASSUME NEW i \in DOMAIN FilesOf[c],
                    \/ pc'[c] = "write"
                    \/ pc'[c] \in {"read", "push"} /\ i < at'[c]
                    \/ pc'[c] = "snapshot" /\ i <= at'[c]
             PROVE  ~Bare(Log(s)', FilesOf[c][i], m)
  BY DEF Covered
<1>1. i \in Nat \ {0} /\ i <= Len(FilesOf[c]) /\ Len(FilesOf[c]) \in Nat
  BY SnapshotAssumption
<1>2. pc'[c] \in Steps
  BY DEF Steps
<1>3. CASE Start(c)
  <2>1. pc'[c] = "read" /\ at'[c] = 1
    BY <1>0, <1>3 DEF Start, MayStart, Goto, Ready, AtFile
  <2> QED
    BY <1>1, <2>1
<1>4. CASE PushSnapshot(c)
  <2>1. pc[c] = "push" /\ pc'[c] = "snapshot" /\ at' = at
    BY <1>0, <1>4 DEF PushSnapshot, Goto
  <2>2. CASE i < at[c]
    <3>1. ~Bare(Log(s), FilesOf[c][i], m)
      BY <2>1, <2>2 DEF Covered
    <3> QED
      BY <2>1, <3>1, BareStep DEF Steps
  <2>3. CASE i = at[c]
    <3>1. /\ Taken(c) \in Snapshots /\ Log(s)' = Append(Log(s), Taken(c))
          /\ Log(s) = histories[s] /\ Log(s) \in Seq(Snapshots)
      BY <1>0, <1>4, LogPushed, LogType DEF Ready
    <3>2. Taken(c).path = FilesOf[c][i] /\ m <= Len(Log(s))
      BY <2>1, <2>3, <3>1 DEF Taken, File, Steps
    <3> QED
      BY <3>1, <3>2, BareAppend
  <2> QED
    BY <1>0, <1>1, <2>1, <2>2, <2>3
<1>5. ASSUME ~Start(c), ~PushSnapshot(c)
      PROVE  /\ pc[c] \in Steps
             /\ \/ pc[c] = "write"
                \/ pc[c] \in {"read", "push"} /\ i < at[c]
                \/ pc[c] = "snapshot" /\ i <= at[c]
  <2>1. pc[c] \in Steps
    BY <1>2, <1>5, PcKinds DEF Ready
  <2>2. CASE pc'[c] = pc[c] /\ at'[c] = at[c]
    BY <2>1, <2>2
  <2>3. CASE ReadPreImage(c)
    BY <1>0, <2>1, <2>3 DEF ReadPreImage, Goto
  <2>4. CASE WriteFile(c)
    BY <2>1, <2>4 DEF WriteFile
  <2>5. CASE FailWrite(c) \/ FailPatch(c)
    BY <2>1, <2>5 DEF FailWrite, FailPatch
  <2>6. ASSUME NEW off \in BOOLEAN, PersistEnd(off), ~(pc'[c] = pc[c] /\ at'[c] = at[c])
        PROVE  pc[c] = "snapshot" /\ i <= at[c]
    <3> DEFINE a == Head(queue)
    <3>1. a \in Actors /\ pc[a] \in Waiting /\ Resume(a)
      BY <2>6, QueueShrinks DEF PersistEnd, Ready
    <3> HIDE DEF a
    <3>2. a = c
      BY <1>0, <2>6, <3>1 DEF Resume, Advance, Goto
    <3>3. pc[c] = "snapshot" /\ Advance(c, "read", "write")
      BY <2>1, <3>1, <3>2 DEF Resume, Steps, Waiting
    <3>4. CASE at[c] < Len(FilesOf[c])
      BY <1>0, <1>1, <3>3, <3>4 DEF Advance, Goto
    <3>5. CASE ~(at[c] < Len(FilesOf[c]))
      BY <1>0, <1>1, <3>3, <3>5 DEF Advance
    <3> QED
      BY <3>3, <3>4, <3>5
  <2>7. \/ pc'[c] = pc[c] /\ at'[c] = at[c]
        \/ ReadPreImage(c) \/ WriteFile(c) \/ FailWrite(c) \/ FailPatch(c)
        \/ \E off \in BOOLEAN : PersistEnd(off)
    <3>1. ASSUME NEW d \in Calls \ {c},
                 \/ Start(d) \/ Undo(d) \/ ReadPreImage(d) \/ PushSnapshot(d)
                 \/ WriteFile(d) \/ FailWrite(d) \/ FailPatch(d)
          PROVE  pc'[c] = pc[c] /\ at'[c] = at[c]
      BY <1>0, <3>1 DEF Start, Undo, ReadPreImage, PushSnapshot, WriteFile, FailWrite, FailPatch,
                        TakeBack, Advance, Goto
    <3>2. ~Undo(c)
      BY <2>1 DEF Undo, MayStart, Steps
    <3>3. ASSUME NEW a \in Actors, RestoreNext(a) \/ RestoreDone(a)
          PROVE  pc'[c] = pc[c] /\ at'[c] = at[c]
      BY <1>0, <2>1, <3>3 DEF RestoreNext, RestoreDone, Goto, Steps
    <3>4. ASSUME Rewind \/ TakeCheckpoint \/ PersistStart \/ UNCHANGED vars
          PROVE  pc'[c] = pc[c] /\ at'[c] = at[c]
      BY <1>0, <3>4 DEF Rewind, TakeBack, Goto, TakeCheckpoint, PersistStart, vars
    <3> QED
      BY <1>5, <3>1, <3>2, <3>3, <3>4, CalmSteps
         DEF Ready, Calm, Next, Continue, ToolStep, RestoreStep, PersistStep
  <2> QED
    BY <2>1, <2>2, <2>3, <2>4, <2>5, <2>6, <2>7
<1>6. CASE ~Start(c) /\ ~PushSnapshot(c)
  <2>1. ~Bare(Log(s), FilesOf[c][i], m)
    BY <1>5, <1>6 DEF Covered
  <2> QED
    BY <1>5, <1>6, <2>1, BareStep
<1> QED
  BY <1>3, <1>4, <1>6

\* What a step does to the length of a history.
LEMMA LengthStep ==
  ASSUME Ready, NEW s \in Scopes
  PROVE  \/ histories'[s] = histories[s]
         \/ /\ \E c \in Calls : PushSnapshot(c) /\ ScopeOf[c] = s
            /\ Len(histories'[s]) = Len(histories[s]) + 1
         \/ \E b \in Actors : \E m : Cuts(b, m) /\ Scope(b) = s
<1>1. CASE Quiet
  BY <1>1, QuietLogs DEF Ready
<1>2. ASSUME NEW c \in Calls, PushSnapshot(c)
      PROVE  \/ histories'[s] = histories[s]
             \/ ScopeOf[c] = s /\ Len(histories'[s]) = Len(histories[s]) + 1
  BY <1>2, LogPushed DEF Ready
<1>3. ASSUME NEW b \in Actors, NEW m, Cuts(b, m)
      PROVE  histories'[s] = histories[s] \/ Scope(b) = s
  BY <1>3, CutIs DEF Ready
<1>4. ASSUME NEW a \in Actors, RestoreNext(a) \/ RestoreDone(a)
      PROVE  histories'[s] = histories[s]
  BY <1>4 DEF RestoreNext, RestoreDone
<1> QED
  BY <1>1, <1>2, <1>3, <1>4, CalmKinds DEF Ready

LEMMA MarkedStep == Ready => Marked'
<1> SUFFICES ASSUME Ready, NEW c \in Calls, c \in Patches
             PROVE  /\ pc'[c] \in Steps => mark'[c] <= Len(histories'[ScopeOf[c]])
                    /\ pc'[c] = "restore" => mark'[c] = Len(histories'[ScopeOf[c]])
  BY DEF Marked
<1> DEFINE s == ScopeOf[c]
<1>0. /\ s \in Scopes /\ c \in Actors /\ c # User /\ Scope(c) = s /\ c \notin Undos
      /\ mark[c] \in Nat /\ Len(histories[s]) \in Nat /\ Len(histories'[s]) \in Nat
  <2>1. s \in Scopes /\ c \in Actors /\ c # User /\ Scope(c) = s /\ c \notin Undos
    BY SnapshotAssumption DEF Actors, Scope
  <2>2. histories[s] \in Seq(Snapshots) /\ histories'[s] \in Seq(Snapshots) /\ mark[c] \in Nat
    BY <2>1 DEF Ready, TypeOK
  <2> QED
    BY <2>1, <2>2
<1>1. \A d \in Calls : d \in Actors /\ Scope(d) = ScopeOf[d]
  BY SnapshotAssumption DEF Actors, Scope
<1>2. ASSUME NEW b \in Actors, NEW m, Cuts(b, m), Scope(b) = s, b # c PROVE pc[c] \in Resting
  BY <1>2, CutIs DEF Ready, Peers, InFlight
<1>3. ASSUME pc'[c] \in Steps PROVE mark'[c] <= Len(histories'[s])
  <2>1. CASE Start(c)
    BY <1>0, <2>1 DEF Start, Ready, TypeOK
  <2>2. CASE ~Start(c)
    <3>1. pc[c] \in Steps /\ mark'[c] = mark[c] /\ mark[c] <= Len(histories[s])
      BY <1>3, <2>2, PcKinds DEF Ready, Marked
    <3>2. ASSUME NEW m, Cuts(c, m) PROVE FALSE
      <4>1. pc' = [pc EXCEPT ![c] = "restore"]
        BY <1>0, <3>2, CutIs DEF Ready
      <4> QED
        BY <1>0, <1>3, <4>1 DEF Ready, TypeOK, Steps
    <3>3. ASSUME NEW b \in Actors, NEW m, Cuts(b, m), Scope(b) = s PROVE FALSE
      BY <1>2, <3>1, <3>2, <3>3 DEF Steps, Resting
    <3> QED
      BY <1>0, <3>1, <3>3, LengthStep
  <2> QED
    BY <2>1, <2>2
<1>4. ASSUME pc'[c] = "restore" PROVE mark'[c] = Len(histories'[s])
  <2>0. mark'[c] = mark[c]
    BY <1>4, PcKinds DEF Ready
  <2>1. ASSUME NEW m, Cuts(c, m) PROVE mark'[c] = Len(histories'[s])
    <3>1. m = mark[c]
      BY <1>0, <2>1 DEF Cuts, Undo
    <3> QED
      BY <1>0, <2>0, <2>1, <3>1, CutIs DEF Ready
  <2>2. CASE ~\E m : Cuts(c, m)
    <3>1. pc[c] = "restore" /\ mark[c] = Len(histories[s])
      BY <1>4, <2>2, PcKinds DEF Ready, Marked
    <3>2. ASSUME NEW b \in Actors, NEW m, Cuts(b, m), Scope(b) = s PROVE FALSE
      BY <1>2, <2>2, <3>1, <3>2 DEF Resting
    <3>3. ASSUME NEW d \in Calls, PushSnapshot(d), ScopeOf[d] = s PROVE FALSE
      BY <1>0, <1>1, <3>1, <3>3 DEF PushSnapshot, Ready, Sole, Resting
    <3> QED
      BY <1>0, <2>0, <3>1, <3>2, <3>3, LengthStep
  <2> QED
    BY <2>1, <2>2
<1> QED
  BY <1>3, <1>4

\* A file that leads back to G goes on to do so, if nobody writes to it anything
\* else before there is a snapshot of it.
LEMMA LeadsBackStep ==
  ASSUME Ready, NEW s \in Scopes, NEW p \in Own(s), NEW m \in Nat, NEW G,
         m <= Len(histories[s]), LeadsBack(s, p, m, G),
         \A c \in Calls : Writes(c) /\ File(c) = p /\ Bare(Log(s), p, m) => c \in G
  PROVE  /\ Oldest(Log(s)', p, m, G)
         /\ Bare(Log(s)', p, m) => Holds(p, G)'
<1>0. /\ p \in Paths /\ Log(s) \in Seq(Snapshots)
      /\ Oldest(Log(s), p, m, G)
      /\ Bare(Log(s), p, m) => Holds(p, G)
  BY LogType DEF Own, Ready, LeadsBack
<1>1. ASSUME Bare(Log(s), p, m),
             \A a \in Actors : RestoreNext(a) => Head(todo[a]).path # p
      PROVE  Holds(p, G)'
  BY <1>0, <1>1, HoldsKept DEF Ready
<1>2. ASSUME NEW a \in Actors, RestoreNext(a), Head(todo[a]).path = p
      PROVE  /\ Scope(a) = s /\ Log(s) = Append(Log(s)', Head(todo[a]))
             /\ Log(s)' \in Seq(Snapshots)
  BY <1>2, RestoredOwn, LogRestored DEF Ready
<1>3. CASE Log(s)' = Log(s)
  <2>1. ASSUME NEW a \in Actors, RestoreNext(a), Head(todo[a]).path = p PROVE FALSE
    BY <1>0, <1>2, <1>3, <2>1, AppendProperties
  <2> QED
    BY <1>0, <1>1, <1>3, <2>1
<1>4. ASSUME NEW c \in Calls, PushSnapshot(c), ScopeOf[c] = s,
             Log(s)' = Append(Log(s), Taken(c)), Taken(c) \in Snapshots
      PROVE  /\ Oldest(Log(s)', p, m, G)
             /\ Bare(Log(s)', p, m) => Holds(p, G)'
  <2>1. ASSUME NEW a \in Actors, RestoreNext(a), Head(todo[a]).path = p PROVE FALSE
    <3>1. histories' = histories
      BY <2>1 DEF RestoreNext
    <3>2. Len(histories'[s]) = Len(histories[s]) + 1 /\ Len(histories[s]) \in Nat
      BY <1>4, LogPushed, LogType DEF Ready
    <3> QED
      BY <3>1, <3>2
  <2>2. Bare(Log(s), p, m) /\ Taken(c).path = p => Taken(c).content \in G
    BY <1>0, <1>4 DEF Taken, Holds, PushSnapshot
  <2>3. /\ Oldest(Append(Log(s), Taken(c)), p, m, G)
        /\ Bare(Append(Log(s), Taken(c)), p, m) => Bare(Log(s), p, m)
    BY <1>0, <1>4, <2>2, OldestAppend
  <2> QED
    BY <1>1, <1>4, <2>1, <2>3
<1>5. ASSUME NEW a \in Actors, RestoreNext(a), Scope(a) = s,
             Log(s) = Append(Log(s)', Head(todo[a])), Head(todo[a]) \in Snapshots,
             Log(s)' \in Seq(Snapshots), Len(histories[s]) < Len(Log(s))
      PROVE  /\ Oldest(Log(s)', p, m, G)
             /\ Bare(Log(s)', p, m) => Holds(p, G)'
  <2> DEFINE l == Log(s)'
             e == Head(todo[a])
  <2>1. /\ l \in Seq(Snapshots) /\ e \in Snapshots /\ Log(s) = Append(l, e)
        /\ pc[a] = "restore" /\ pc' = pc /\ at' = at /\ got' = got
        /\ disk' = [disk EXCEPT ![e.path] = e.content]
    BY <1>5 DEF RestoreNext
  <2>2. e.path # p => \A b \in Actors : RestoreNext(b) => Head(todo[b]).path # p
    <3>1. ASSUME NEW b \in Actors, RestoreNext(b), Head(todo[b]).path = p PROVE b = a
      <4>1. Scope(b) = s /\ pc[b] = "restore"
        BY <1>2, <3>1 DEF RestoreNext
      <4> QED
        BY <1>5, <2>1, <4>1, RestIs DEF Ready
    <3> QED
      BY <3>1
  <2> HIDE DEF l
  <2>3. m <= Len(l)
    <3>1. Len(Log(s)) = Len(l) + 1 /\ Len(l) \in Nat /\ Len(histories[s]) \in Nat
      BY <2>1, LogType DEF Ready
    <3> QED
      BY <1>5, <3>1
  <2> HIDE DEF e
  <2>4. /\ Oldest(l, p, m, G)
        /\ Bare(l, p, m) /\ e.path # p => Bare(Log(s), p, m)
        /\ Bare(l, p, m) /\ e.path = p => e.content \in G
    BY <1>0, <2>1, <2>3, OldestDrop
  <2>5. CASE e.path # p
    BY <1>1, <2>2, <2>4, <2>5 DEF l
  <2>6. ASSUME e.path = p, e.content \in G PROVE Holds(p, G)'
    <3>1. disk'[p] \in G
      BY <1>0, <2>1, <2>6 DEF Ready, TypeOK
    <3>2. ASSUME NEW c \in Calls, pc'[c] = "push", File(c)' = p PROVE FALSE
      <4>1. pc[c] = "push" /\ File(c) = p
        BY <2>1, <3>2 DEF File
      <4>2. p \in Range(FilesOf[c])
        BY <4>1, FileIs DEF Ready, Steps
      <4>3. ScopeOf[c] = s
        BY <4>2 DEF Own
      <4> QED
        BY <1>5, <2>1, <4>1, <4>3 DEF Ready, Sole, Resting
    <3> QED
      BY <3>1, <3>2 DEF Holds
  <2> QED
    BY <2>4, <2>5, <2>6 DEF l
<1> QED
  BY <1>3, <1>4, <1>5, LogStep DEF Ready

\* A call writes a file of its own session, with a snapshot of it in the log.
LEMMA WriterCovered ==
  ASSUME TypeOK, AtFile, NEW c \in Calls, Writes(c)
  PROVE  /\ pc[c] \in Steps
         /\ \A s \in Scopes : File(c) \in Own(s) => ScopeOf[c] = s
         /\ \A m \in Nat : Covered(c, m) => ~Bare(Log(ScopeOf[c]), File(c), m)
<1>1. pc[c] = "write"
  BY DEF Writes, WriteFile, FailWrite, FailPatch
<1>2. at[c] \in DOMAIN FilesOf[c] /\ File(c) \in Range(FilesOf[c])
  BY <1>1, FileIs DEF AtFile, Steps
<1>3. \A m \in Nat : Covered(c, m) => ~Bare(Log(ScopeOf[c]), File(c), m)
  BY <1>1, <1>2 DEF Covered, File
<1> QED
  BY <1>1, <1>2, <1>3 DEF Own, Steps

LEMMA UserKinds ==
  ASSUME Ready, pc'[User] \in {"restore", "persist"}
  PROVE  pc[User] \in {"restore", "persist"} \/ Rewind
<1>0. User \in Actors /\ \A c \in Calls : c # User
  BY SnapshotAssumption DEF Actors
<1>1. ASSUME NEW c \in Calls,
             \/ Start(c) \/ Undo(c) \/ ReadPreImage(c) \/ PushSnapshot(c)
             \/ WriteFile(c) \/ FailWrite(c) \/ FailPatch(c)
      PROVE  pc'[User] = pc[User]
  BY <1>0, <1>1 DEF Start, Undo, ReadPreImage, PushSnapshot, WriteFile, FailWrite, FailPatch,
                    TakeBack, Advance, Goto, Ready, TypeOK
<1>2. ASSUME NEW a \in Actors, RestoreNext(a) \/ RestoreDone(a)
      PROVE  pc'[User] = pc[User] \/ pc[User] = "restore"
  BY <1>0, <1>2 DEF RestoreNext, RestoreDone, Goto, Ready, TypeOK
<1>3. ASSUME NEW off \in BOOLEAN, PersistEnd(off) PROVE pc'[User] = pc[User]
  <2>1. Head(queue) \in Actors /\ Resume(Head(queue))
    BY <1>3, QueueShrinks DEF PersistEnd, Ready
  <2> QED
    BY <1>0, <2>1 DEF Resume, Advance, Goto, Ready, TypeOK
<1>4. ASSUME TakeCheckpoint \/ PersistStart \/ UNCHANGED vars PROVE pc'[User] = pc[User]
  BY <1>4 DEF TakeCheckpoint, PersistStart, vars
<1> QED
  BY <1>1, <1>2, <1>3, <1>4, CalmSteps
     DEF Ready, Calm, Next, Continue, ToolStep, RestoreStep, PersistStep

\* A new checkpoint: no call of the session is under way, and the log is the
\* history, all of which is kept.
LEMMA CheckpointTaken ==
  ASSUME Ready, TakeCheckpoint
  PROVE  CheckpointInv'
<1> DEFINE h == histories[UserScope]
<1>1. /\ UserScope \in Scopes /\ User \in Actors /\ Scope(User) = UserScope
      /\ pc[User] = "idle" /\ Peers(User) = {}
      /\ histories' = histories /\ pc' = pc /\ disk' = disk /\ got' = got /\ at' = at
      /\ checkpoint' = [mark |-> Len(h), disk |-> disk]
  BY CalmSteps, SnapshotAssumption DEF Ready, TakeCheckpoint, Actors, Scope
<1>2. \A c \in Calls : c # User /\ Scope(c) = ScopeOf[c]
                       /\ (ScopeOf[c] = UserScope => pc[c] \in Resting)
  BY <1>1, SnapshotAssumption DEF Peers, InFlight, Scope
<1>3. Restorers(UserScope) = {}
  BY <1>1, <1>2 DEF Restorers, Actors, Resting
<1>4. /\ h \in Seq(Snapshots) /\ Len(h) \in Nat /\ Log(UserScope)' = h
  <2>1. Log(UserScope)' = Log(UserScope)
    BY <1>1, QuietLogs DEF Ready, Quiet
  <2> QED
    BY <1>1, <1>3, <2>1, LogRests, LogType DEF Ready
<1> HIDE DEF h
<1>5. ASSUME NEW p \in Own(UserScope)
      PROVE  /\ Oldest(h, p, Len(h), {disk[p]})
             /\ Holds(p, {disk[p]})'
  <2>1. Oldest(h, p, Len(h), {disk[p]})
    BY <1>4, BareAtEnd
  <2>2. ASSUME NEW c \in Calls, pc'[c] = "push", File(c)' = p PROVE FALSE
    <3>1. pc[c] = "push" /\ File(c) = p
      BY <1>1, <2>2 DEF File
    <3>2. p \in Range(FilesOf[c])
      BY <3>1, FileIs DEF Ready, Steps
    <3> QED
      BY <1>2, <3>1, <3>2 DEF Own, Resting
  <2>3. disk'[p] = disk[p]
    BY <1>1
  <2> QED
    BY <2>1, <2>2, <2>3 DEF Holds
<1>6. checkpoint'.mark = Len(h) /\ checkpoint'.disk = disk
  BY <1>1
<1>7. \A p \in Own(UserScope) : LeadsBack(UserScope, p, checkpoint.mark, {checkpoint.disk[p]})'
  BY <1>1, <1>4, <1>5, <1>6 DEF LeadsBack, Holds
<1>8. \A c \in Calls : ScopeOf[c] = UserScope => pc'[c] \in Resting
  BY <1>1, <1>2
<1>9. \A c \in Calls : ScopeOf[c] = UserScope =>
        /\ Covered(c, checkpoint.mark)'
        /\ ~(c \in Patches /\ pc'[c] \in Steps)
  BY <1>8 DEF Covered, Resting, Steps
<1>10. checkpoint'.mark <= Len(histories'[UserScope])
  BY <1>1, <1>4, <1>6 DEF h
<1>11. pc'[User] = "idle"
  BY <1>1
<1> QED
  BY <1>7, <1>9, <1>10, <1>11 DEF CheckpointInv

LEMMA CheckpointKept ==
  ASSUME Ready, ~TakeCheckpoint
  PROVE  CheckpointInv'
<1>0. /\ UserScope \in Scopes /\ User \in Actors /\ Scope(User) = UserScope
      /\ \A c \in Calls : c \in Actors /\ c # User /\ Scope(c) = ScopeOf[c]
  BY SnapshotAssumption DEF Actors, Scope
<1>1. checkpoint' = checkpoint
  BY CalmSteps
     DEF Ready, Calm, Next, Continue, vars, Start, Undo, ToolStep, ReadPreImage, PushSnapshot, WriteFile,
         FailWrite, FailPatch, RestoreStep, RestoreNext, RestoreDone, Rewind, PersistStep,
         PersistStart, PersistEnd
<1>2. CASE checkpoint = NoCheckpoint
  <2>1. pc'[User] \notin {"restore", "persist"}
    BY <1>2, UserKinds DEF Ready, CheckpointInv, Rewind
  <2> QED
    BY <1>1, <1>2, <2>1 DEF CheckpointInv
<1>3. CASE checkpoint # NoCheckpoint
  <2>1. PICK m : m = checkpoint.mark
    OBVIOUS
  <2>2. PICK d : d = checkpoint.disk
    OBVIOUS
  <2>3. checkpoint'.mark = m /\ checkpoint'.disk = d
    BY <1>1, <2>1, <2>2
  <2>4. /\ m \in Nat /\ m <= Len(histories[UserScope])
        /\ Len(histories[UserScope]) \in Nat /\ Len(histories'[UserScope]) \in Nat
    <3>1. m \in Nat /\ m <= Len(histories[UserScope])
      BY <1>3, <2>1 DEF Ready, TypeOK, CheckpointInv
    <3>2. histories[UserScope] \in Seq(Snapshots) /\ histories'[UserScope] \in Seq(Snapshots)
      BY <1>0 DEF Ready, TypeOK
    <3> QED
      BY <3>1, <3>2
  <2>5. ASSUME NEW c \in Calls, ScopeOf[c] = UserScope
        PROVE  Covered(c, m) /\ (c \in Patches /\ pc[c] \in Steps => mark[c] >= m)
    BY <1>3, <2>1, <2>5 DEF Ready, CheckpointInv
  <2>6. ASSUME NEW p \in Own(UserScope) PROVE LeadsBack(UserScope, p, m, {d[p]})
    BY <1>3, <2>1, <2>2 DEF Ready, CheckpointInv
  <2>7. ASSUME NEW b \in Actors, NEW n, Cuts(b, n), Scope(b) = UserScope
        PROVE  /\ m <= n /\ Len(histories'[UserScope]) = n
               /\ b \in Calls => pc[User] \notin {"restore", "persist"}
               /\ b = User => Rewind /\ n = m
    <3>1. b = User => Rewind /\ n = m
      BY <1>0, <2>1, <2>7 DEF Cuts
    <3> QED
      BY <1>0, <1>3, <2>1, <2>7, <3>1, CutIs DEF Ready
  <2>8. m <= Len(histories'[UserScope])
    BY <1>0, <2>4, <2>7, LengthStep
  <2>9. ASSUME pc'[User] \in {"restore", "persist"} PROVE m = Len(histories'[UserScope])
    <3>1. CASE Rewind
      <4>1. Cuts(User, m)
        BY <2>1, <3>1 DEF Cuts
      <4> QED
        BY <1>0, <2>7, <4>1
    <3>2. CASE ~Rewind
      <4>1. pc[User] \in {"restore", "persist"} /\ m = Len(histories[UserScope])
        BY <2>1, <2>9, <3>2, UserKinds DEF Ready, CheckpointInv
      <4>2. ASSUME NEW c \in Calls, PushSnapshot(c), ScopeOf[c] = UserScope PROVE FALSE
        BY <1>0, <4>1, <4>2 DEF PushSnapshot, Ready, Sole, Resting
      <4>3. ASSUME NEW b \in Actors, NEW n, Cuts(b, n), Scope(b) = UserScope PROVE FALSE
        BY <2>7, <3>2, <4>1, <4>3 DEF Actors
      <4> QED
        BY <1>0, <4>1, <4>2, <4>3, LengthStep
    <3> QED
      BY <3>1, <3>2
  <2>10. ASSUME NEW p \in Own(UserScope)
         PROVE  /\ Oldest(Log(UserScope)', p, m, {d[p]})
                /\ Bare(Log(UserScope)', p, m) => Holds(p, {d[p]})'
    <3>1. ASSUME NEW c \in Calls, Writes(c), File(c) = p, Bare(Log(UserScope), p, m)
          PROVE  FALSE
      <4>1. ScopeOf[c] = UserScope
        BY <1>0, <3>1, WriterCovered DEF Ready
      <4>2. Covered(c, m)
        BY <2>5, <4>1
      <4> QED
        BY <2>4, <3>1, <4>1, <4>2, WriterCovered DEF Ready
    <3> QED
      BY <1>0, <2>4, <2>6, <3>1, LeadsBackStep
  <2>11. ASSUME NEW p \in Own(UserScope)
         PROVE  LeadsBack(UserScope, p, checkpoint.mark, {checkpoint.disk[p]})'
    BY <2>3, <2>10 DEF LeadsBack, Holds
  <2>12. ASSUME NEW c \in Calls, ScopeOf[c] = UserScope PROVE Covered(c, checkpoint.mark)'
    <3>1. Covered(c, m)'
      BY <2>4, <2>5, <2>12, CoveredStep
    <3> QED
      BY <2>3, <3>1 DEF Covered
  <2>13. ASSUME NEW c \in Calls, ScopeOf[c] = UserScope, c \in Patches, pc'[c] \in Steps
         PROVE  mark'[c] >= m
    <3>1. CASE Start(c)
      <4>1. mark'[c] = Len(histories[UserScope])
        BY <2>13, <3>1 DEF Start, Ready, TypeOK
      <4> QED
        BY <2>4, <4>1
    <3>2. CASE ~Start(c)
      BY <2>5, <2>13, <3>2, PcKinds DEF Ready
    <3> QED
      BY <3>1, <3>2
  <2> QED
    BY <1>1, <1>3, <2>3, <2>8, <2>9, <2>11, <2>12, <2>13 DEF CheckpointInv
<1> QED
  BY <1>2, <1>3

LEMMA CheckpointStep == Ready => CheckpointInv'
BY CheckpointTaken, CheckpointKept

\* As long as x does not write, what was free of x stays free of it.
LEMMA PatchKept ==
  ASSUME Ready, NEW x \in Calls, NEW p \in Own(ScopeOf[x]), pc[x] \notin Steps,
         Free(Log(ScopeOf[x]), p, Len(Log(ScopeOf[x])), x), Holds(p, Contents \ {x})
  PROVE  /\ Free(Log(ScopeOf[x])', p, Len(Log(ScopeOf[x])'), x)
         /\ Holds(p, Contents \ {x})'
<1> DEFINE s == ScopeOf[x]
<1>0. /\ s \in Scopes /\ p \in Paths /\ Log(s) \in Seq(Snapshots)
      /\ \A e \in Snapshots : e.content \in Contents
      /\ \A c \in Calls : c \in Contents
  BY SnapshotAssumption, LogType DEF Own, Ready, Snapshots, Contents
<1>1. ASSUME NEW a \in Actors, RestoreNext(a), Head(todo[a]).path = p
      PROVE  Head(todo[a]).content \in Contents \ {x}
  <2>1. Scope(a) = s
    BY <1>0, <1>1, RestoredOwn DEF Ready
  <2> DEFINE l == Log(s)'
             e == Head(todo[a])
  <2>2. Log(s) = Append(l, e) /\ l \in Seq(Snapshots) /\ e \in Snapshots
    BY <1>1, <2>1, LogRestored DEF Ready
  <2>3. e.path = p
    BY <1>1
  <2> HIDE DEF l, e
  <2>4. Free(Append(l, e), p, Len(Append(l, e)), x) => (e.path = p => e.content # x)
    BY <2>2, FreeAppend
  <2>5. Free(Append(l, e), p, Len(Append(l, e)), x)
    BY <2>2
  <2> QED
    BY <1>0, <2>2, <2>3, <2>4, <2>5 DEF e
<1>2. \A c \in Calls : Writes(c) => c \in Contents \ {x}
  BY <1>0, WriterCovered DEF Ready
<1>3. Holds(p, Contents \ {x})'
  BY <1>0, <1>1, <1>2, HoldsKept DEF Ready
<1>4. CASE Log(s)' = Log(s)
  BY <1>3, <1>4
<1>5. ASSUME NEW c \in Calls, PushSnapshot(c), ScopeOf[c] = s,
             Log(s)' = Append(Log(s), Taken(c)), Taken(c) \in Snapshots
      PROVE  Free(Log(s)', p, Len(Log(s)'), x)
  <2>1. Taken(c).path = p => Taken(c).content # x
    BY <1>5 DEF Taken, Holds, PushSnapshot
  <2>2. Free(Append(Log(s), Taken(c)), p, Len(Append(Log(s), Taken(c))), x)
    BY <1>0, <1>5, <2>1, FreeAppend
  <2> QED
    BY <1>5, <2>2
<1>6. ASSUME NEW e \in Snapshots, Log(s) = Append(Log(s)', e), Log(s)' \in Seq(Snapshots)
      PROVE  Free(Log(s)', p, Len(Log(s)'), x)
  <2> DEFINE l == Log(s)'
  <2>1. l \in Seq(Snapshots) /\ Free(Append(l, e), p, Len(Append(l, e)), x)
    BY <1>6
  <2> HIDE DEF l
  <2>2. Free(l, p, Len(l), x)
    BY <2>1, FreeAppend
  <2> QED
    BY <2>2 DEF l
<1> QED
  BY <1>0, <1>3, <1>4, <1>5, <1>6, LogStep DEF Ready

\* While x snapshots, writes or rolls back: what stood before its mark is free of
\* it, and its files lead back there.
LEMMA PatchGoesOn ==
  ASSUME Ready, NEW x \in Patches, pc[x] \in Steps \cup {"restore"}, ~Start(x),
         PatchInv(x), Covered(x, mark[x]), NEW p \in Own(ScopeOf[x])
  PROVE  /\ mark'[x] = mark[x]
         /\ Free(Log(ScopeOf[x])', p, mark[x], x)
         /\ LeadsBack(ScopeOf[x], p, mark[x], Contents \ {x})'
<1> DEFINE s == ScopeOf[x]
<1>0. /\ x \in Calls /\ s \in Scopes /\ Log(s) \in Seq(Snapshots)
      /\ \A c \in Calls : c \in Contents
  BY SnapshotAssumption, LogType DEF Ready, Contents
<1>1. mark'[x] = mark[x]
  BY <1>0, PcKinds DEF Ready
<1>2. PICK n : n = mark[x]
  OBVIOUS
<1>3. /\ n \in Nat /\ n <= Len(histories[s]) /\ n <= Len(Log(s)) /\ Len(histories[s]) \in Nat
      /\ Covered(x, n)
      /\ Free(Log(s), p, n, x) /\ LeadsBack(s, p, n, Contents \ {x})
  <2>1. n \in Nat /\ Covered(x, n) /\ Free(Log(s), p, n, x)
        /\ LeadsBack(s, p, n, Contents \ {x})
    BY <1>0, <1>2 DEF Ready, TypeOK, PatchInv
  <2>2. /\ Len(histories[s]) \in Nat /\ Len(Log(s)) \in Nat
        /\ Len(histories[s]) <= Len(Log(s))
    BY <1>0, LogType DEF Ready
  <2>3. n <= Len(histories[s])
    BY <1>0, <1>2, <2>2 DEF Ready, Marked
  <2> QED
    BY <2>1, <2>2, <2>3
<1>4. ASSUME NEW c \in Calls, Writes(c), File(c) = p, Bare(Log(s), p, n)
      PROVE  c \in Contents \ {x}
  BY <1>0, <1>3, <1>4, WriterCovered DEF Ready
<1>5. /\ Oldest(Log(s)', p, n, Contents \ {x})
      /\ Bare(Log(s)', p, n) => Holds(p, Contents \ {x})'
  BY <1>0, <1>3, <1>4, LeadsBackStep
<1>6. LeadsBack(s, p, mark[x], Contents \ {x})'
  BY <1>1, <1>2, <1>5 DEF LeadsBack
<1>7. Free(Log(s)', p, n, x)
  <2>1. CASE Log(s)' = Log(s)
    BY <1>3, <2>1
  <2>2. ASSUME NEW e \in Snapshots, Log(s)' = Append(Log(s), e)
        PROVE  Free(Log(s)', p, n, x)
    BY <1>0, <1>3, <2>2, FreeAppend
  <2>3. ASSUME NEW e \in Snapshots, Log(s) = Append(Log(s)', e), Log(s)' \in Seq(Snapshots)
        PROVE  Free(Log(s)', p, n, x)
    <3> DEFINE l == Log(s)'
    <3>1. l \in Seq(Snapshots) /\ Free(Append(l, e), p, n, x)
      BY <1>3, <2>3
    <3> HIDE DEF l
    <3>2. Free(l, p, n, x)
      BY <1>3, <3>1, FreeAppend
    <3> QED
      BY <3>2 DEF l
  <2> QED
    BY <1>0, <2>1, <2>2, <2>3, LogStep DEF Ready
<1> QED
  BY <1>1, <1>2, <1>6, <1>7

\* A patch begins: its mark is the end of the log, which is free of it.
LEMMA PatchBegins ==
  ASSUME Ready, NEW x \in Patches, Start(x), PatchInv(x), NEW p \in Own(ScopeOf[x])
  PROVE  /\ Free(Log(ScopeOf[x])', p, mark'[x], x)
         /\ LeadsBack(ScopeOf[x], p, mark[x], Contents \ {x})'
<1> DEFINE s == ScopeOf[x]
<1>0. /\ x \in Calls /\ x \in Actors /\ s \in Scopes
      /\ pc[x] = "idle" /\ pc'[x] = "read" /\ histories' = histories
      /\ mark'[x] = Len(histories[s])
  BY SnapshotAssumption DEF Start, MayStart, Goto, Actors, Ready, TypeOK
<1>1. Restorers(s) = {}
  <2>1. ASSUME NEW a \in Restorers(s) PROVE FALSE
    <3>1. a \in Actors \ {x} /\ Scope(a) = s /\ pc[a] = "restore"
      BY <1>0 DEF Restorers
    <3>2. pc'[a] = "restore" /\ Scope(a)' = s
      BY <1>0, <3>1 DEF Start, Goto, Ready, TypeOK, Scope
    <3> QED
      BY <1>0, <3>1, <3>2 DEF Ready, Sole, Resting
  <2> QED
    BY <2>1
<1>2. Log(s) = histories[s] /\ Log(s)' = Log(s) /\ Log(s) \in Seq(Snapshots)
  BY <1>0, <1>1, LogRests, LogType, QuietLogs DEF Ready, Quiet
<1>3. /\ Free(Log(s)', p, Len(Log(s)'), x)
      /\ Holds(p, Contents \ {x})'
  BY <1>0, PatchKept DEF PatchInv, Steps
<1> DEFINE l == Log(s)'
<1>4. l \in Seq(Snapshots) /\ mark'[x] = Len(l)
  BY <1>0, <1>2
<1>5. Oldest(l, p, Len(l), Contents \ {x})
  <2> HIDE DEF l
  <2> QED
    BY <1>4, BareAtEnd
<1>6. LeadsBack(s, p, mark[x], Contents \ {x})'
  BY <1>3, <1>4, <1>5 DEF LeadsBack
<1> QED
  BY <1>3, <1>4, <1>6

\* A patch has rolled back: the log ends at its mark, and nothing of it is left.
LEMMA PatchRolledBack ==
  ASSUME Ready, NEW x \in Patches, RestoreDone(x), PatchInv(x), NEW p \in Own(ScopeOf[x])
  PROVE  /\ Free(Log(ScopeOf[x])', p, Len(Log(ScopeOf[x])'), x)
         /\ Holds(p, Contents \ {x})'
<1> DEFINE s == ScopeOf[x]
           l == Log(s)
<1>0. /\ x \in Calls /\ x \in Actors /\ s \in Scopes /\ Scope(x) = s /\ pc[x] = "restore"
  BY SnapshotAssumption DEF RestoreDone, Actors, Scope
<1>1. l = histories[s] /\ mark[x] = Len(l) /\ l \in Seq(Snapshots)
  BY <1>0, LogDone, LogType DEF Ready, Marked
<1>2. Free(l, p, Len(l), x) /\ LeadsBack(s, p, Len(l), Contents \ {x})
  BY <1>0, <1>1 DEF PatchInv
<1> HIDE DEF l
<1>3. Bare(l, p, Len(l))
  BY <1>1, BareAtEnd
<1>4. Holds(p, Contents \ {x})
  BY <1>2, <1>3 DEF LeadsBack, l
<1> QED
  BY <1>0, <1>2, <1>4, PatchKept DEF l, Steps

LEMMA PatchStep ==
  ASSUME Ready, NEW x \in Patches, PatchInv(x), Covered(x, mark[x])
  PROVE  PatchInv(x)' /\ Covered(x, mark[x])'
<1>0. x \in Calls /\ x \in Actors
  BY SnapshotAssumption DEF Actors
<1>1. Covered(x, mark[x])'
  <2>1. CASE Start(x)
    <3>1. pc'[x] = "read" /\ at'[x] = 1
      BY <1>0, <2>1 DEF Start, MayStart, Goto, Ready, TypeOK, AtFile
    <3>2. DOMAIN FilesOf[x] = 1..Len(FilesOf[x]) /\ Len(FilesOf[x]) \in Nat
      BY <1>0, SnapshotAssumption
    <3> QED
      BY <3>1, <3>2 DEF Covered
  <2>2. CASE ~Start(x)
    <3>1. PICK n : n = mark[x]
      OBVIOUS
    <3>2. mark'[x] = n
      BY <1>0, <2>2, <3>1, PcKinds DEF Ready
    <3>3. n \in Nat /\ Covered(x, n) /\ (pc[x] \in Steps => n <= Len(histories[ScopeOf[x]]))
      BY <1>0, <3>1 DEF Ready, TypeOK, Marked
    <3>4. Covered(x, n)'
      BY <1>0, <3>3, CoveredStep
    <3> QED
      BY <3>2, <3>4 DEF Covered
  <2> QED
    BY <2>1, <2>2
<1>2. ASSUME NEW p \in Own(ScopeOf[x]), pc'[x] \in Steps \cup {"restore"}
      PROVE  /\ Free(Log(ScopeOf[x])', p, mark'[x], x)
             /\ LeadsBack(ScopeOf[x], p, mark[x], Contents \ {x})'
  <2>1. CASE Start(x)
    BY <2>1, PatchBegins
  <2>2. CASE ~Start(x)
    <3>1. pc'[x] = "restore" => pc[x] \in Steps \cup {"restore"}
      <4>1. ASSUME NEW m, Cuts(x, m) PROVE pc[x] \in Steps
        BY <1>0, <4>1, SnapshotAssumption DEF Cuts, Undo, FailPatch, Steps
      <4> QED
        BY <1>0, <4>1, PcKinds DEF Ready
    <3>2. pc[x] \in Steps \cup {"restore"}
      BY <1>0, <1>2, <2>2, <3>1, PcKinds DEF Ready
    <3>3. mark'[x] = mark[x] /\ Free(Log(ScopeOf[x])', p, mark[x], x)
          /\ LeadsBack(ScopeOf[x], p, mark[x], Contents \ {x})'
      BY <2>2, <3>2, PatchGoesOn
    <3> QED
      BY <3>3
  <2> QED
    BY <2>1, <2>2
<1>3. ASSUME NEW p \in Own(ScopeOf[x]), pc'[x] \in {"idle", "persist", "failed"}
      PROVE  /\ Free(Log(ScopeOf[x])', p, Len(Log(ScopeOf[x])'), x)
             /\ Holds(p, Contents \ {x})'
  <2>1. CASE RestoreDone(x)
    BY <2>1, PatchRolledBack
  <2>2. CASE ~RestoreDone(x)
    <3>1. pc[x] \in {"idle", "persist", "failed"}
      BY <1>0, <1>3, <2>2, PcKinds DEF Ready
    <3> QED
      BY <1>0, <3>1, PatchKept DEF PatchInv, Steps
  <2> QED
    BY <2>1, <2>2
<1>4. PatchInv(x)'
  BY <1>2, <1>3 DEF PatchInv, Own
<1> QED
  BY <1>1, <1>4

LEMMA SInvInit == Init => SInv
<1> SUFFICES ASSUME Init PROVE SInv
  OBVIOUS
<1>0. TypeOK /\ Calls \subseteq Actors /\ \A a \in Actors : pc[a] = "idle"
  BY QueueInit DEF Init, Actors
<1>1. Sole /\ Marked
  BY <1>0 DEF Sole, Marked, Resting, Steps
<1>2. \A s \in Scopes : Log(s) = <<>>
  <2>1. \A s \in Scopes : Restorers(s) = {} /\ histories[s] = <<>>
    BY <1>0 DEF Restorers, Init
  <2> QED
    BY <1>0, <2>1, LogRests
<1>3. Foreign
  BY <1>2 DEF Foreign
<1>4. CheckpointInv
  BY <1>0 DEF CheckpointInv, Init, Actors
<1>5. ASSUME NEW x \in Patches PROVE PatchInv(x) /\ Covered(x, mark[x])
  <2>1. x \in Calls /\ pc[x] = "idle" /\ ScopeOf[x] \in Scopes
    BY <1>0, SnapshotAssumption
  <2>2. ASSUME NEW p \in Own(ScopeOf[x]) PROVE Holds(p, Contents \ {x})
    BY <1>0, <2>1, SnapshotAssumption DEF Holds, Init, Contents, Own
  <2>3. ASSUME NEW p PROVE Free(Log(ScopeOf[x]), p, Len(Log(ScopeOf[x])), x)
    BY <1>2, <2>1 DEF Free
  <2> QED
    BY <2>1, <2>2, <2>3 DEF PatchInv, Covered, Steps
<1> QED
  BY <1>1, <1>3, <1>4, <1>5 DEF SInv

LEMMA InvStep == IInv /\ [Next]_vars => IInv'
<1> SUFFICES ASSUME IInv, [Next]_vars PROVE IInv'
  OBVIOUS
<1>1. TypeOK' /\ Queued' /\ AtFile'
  BY TypeStep, QueueStep, AtFileStep DEF IInv
<1>2. ASSUME accidents' = {} PROVE SInv'
  <2>1. Calm
    BY <1>2 DEF Calm
  <2>2. SInv
    BY <2>1, CalmBefore DEF IInv
  <2>3. Sole'
    BY <2>1, <2>2, SoleStep DEF IInv, SInv
  <2>4. Ready
    BY <1>1, <2>1, <2>2, <2>3 DEF Ready, IInv, SInv
  <2>5. Marked' /\ Foreign' /\ CheckpointInv'
    BY <2>4, MarkedStep, ForeignStep, CheckpointStep
  <2>6. \A x \in Patches : PatchInv(x)' /\ Covered(x, mark[x])'
    BY <2>2, <2>4, PatchStep DEF SInv
  <2> QED
    BY <2>3, <2>5, <2>6 DEF SInv
<1> QED
  BY <1>1, <1>2 DEF IInv

LEMMA Invariance == Spec => []IInv
<1>1. Init => IInv
  BY QueueInit, SInvInit DEF IInv
<1> QED
  BY <1>1, InvStep, PTL DEF Spec

-----------------------------------------------------------------------------
(* Theorems                                                                *)

\* The variables of the snapshot manager and of its callers keep their types,
\* through every persist, rebuild, undo, rollback and rewind.
THEOREM TypeCorrect == Spec => []TypeOK
<1>1. IInv => TypeOK
  BY DEF IInv
<1> QED
  BY <1>1, Invariance, PTL

\* A persist returns to the actor that queued it, once: persistQueue holds each
\* waiting call once and nobody else.
THEOREM PersistsReturn == Spec => []Queued
<1>1. IInv => Queued
  BY DEF IInv
<1> QED
  BY <1>1, Invariance, PTL

\* What turn-checkpoints.ts promises: after restoreCheckpointFiles every file of
\* the session is as it was at the checkpoint, unless there was an accident.
THEOREM RewindCorrect == Spec => []RewindRestoresUnlessAccident
<1>1. IInv => RewindRestoresUnlessAccident
  <2> SUFFICES ASSUME IInv, accidents = {}, pc[User] = "persist", NEW p \in Own(UserScope)
               PROVE  disk[p] = checkpoint.disk[p]
    BY DEF RewindRestoresUnlessAccident, RewindRestores, Rewound
  <2>1. /\ TypeOK /\ Sole /\ CheckpointInv /\ UserScope \in Scopes
        /\ User \in Actors /\ Scope(User) = UserScope
        /\ \A c \in Calls : c # User /\ Scope(c) = ScopeOf[c]
    BY SnapshotAssumption DEF IInv, SInv, Actors, Scope
  <2>2. Restorers(UserScope) = {}
    BY <2>1 DEF Restorers, Sole, Resting, Actors
  <2> DEFINE l == Log(UserScope)
  <2>3. l = histories[UserScope] /\ l \in Seq(Snapshots)
    BY <2>1, <2>2, LogRests, LogType
  <2>4. checkpoint.mark = Len(l) /\ LeadsBack(UserScope, p, Len(l), {checkpoint.disk[p]})
    BY <2>1, <2>3 DEF CheckpointInv
  <2> HIDE DEF l
  <2>5. Bare(l, p, Len(l))
    BY <2>3, BareAtEnd
  <2> QED
    BY <2>4, <2>5 DEF LeadsBack, Holds, l
<1> QED
  BY <1>1, Invariance, PTL

\* apply_patch: of a patch that has failed and rolled back, nothing is on disk, and
\* nothing comes back, unless there was an accident.
THEOREM RollbackComplete == Spec => []FailedPatchLeavesNoTrace
<1>1. IInv => FailedPatchLeavesNoTrace
  BY DEF IInv, SInv, PatchInv, Holds, FailedPatchLeavesNoTrace
<1> QED
  BY <1>1, Invariance, PTL

==============================================================================
