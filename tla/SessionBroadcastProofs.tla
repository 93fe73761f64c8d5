----------------------- MODULE SessionBroadcastProofs -----------------------
(***************************************************************************)
(* Lemmas the other proofs share: the first of a set of ids, the calls on  *)
(* a stack, what a broadcast and a request may do to a session, for any    *)
(* set of players (who is left, who leads), and, stated with sets, the     *)
(* inductions the folds over a sequence or a set are reasoned about with.  *)
(***************************************************************************)
EXTENDS SessionBroadcast, FiniteSetTheorems, SequenceTheorems,
        WellFoundedInduction, TLAPS

\* The least of a set of numbers is in it.
LEMMA LeastOfNat ==
  ASSUME NEW S, S \subseteq Nat, S # {}
  PROVE  Min(S) \in S /\ \A y \in S : Min(S) =< y
<1> DEFINE Below == { 0 .. x : x \in S }
<1>1. Below \subseteq FiniteSubsetsOf(Nat)
  <2>1. \A x \in S : 0 .. x \in SUBSET Nat /\ IsFiniteSet(0 .. x)
    BY FS_Interval
  <2> QED
    BY <2>1 DEF FiniteSubsetsOf
<1>2. PICK t \in Below :
        \A u \in Below : ~ (<<u, t>> \in StrictSubsetOrdering(Nat))
  <2>1. Below # {}
    OBVIOUS
  <2> QED
    BY <1>1, <2>1, FS_StrictSubsetOrderingWellFounded, WFMin
<1>3. PICK x \in S : t = 0 .. x
  BY <1>2
<1>4. ASSUME NEW y \in S, y < x
      PROVE  FALSE
  <2>1. 0 .. y \subseteq 0 .. x /\ x \in 0 .. x /\ x \notin 0 .. y
    BY <1>4
  <2>2. <<0 .. y, t>> \in StrictSubsetOrdering(Nat)
    BY <2>1, <1>3 DEF StrictSubsetOrdering
  <2> QED
    BY <2>2, <1>2
<1>5. \A y \in S : x =< y
  BY <1>4
<1> QED
  BY <1>5 DEF Min

\* players_.cbegin() of a non-empty map is one of its keys.
LEMMA FirstOfIsMember ==
  ASSUME NEW S, S \subseteq Nat, S # {}
  PROVE  FirstOf(S) \in S
  BY LeastOfNat DEF FirstOf

\* The first player left replaces a leader who is lost, so a session that had
\* a leader keeps one among the players left.
LEMMA LeaderAfterIsLeft ==
  ASSUME NEW P, P \subseteq Nat, NEW lost, P \ lost # {}, NEW l \in P
  PROVE  LeaderAfter(P, lost, l) \in P \ lost
  BY FirstOfIsMember DEF LeaderAfter

\* The calls on a stack.
Calls(s) == { s[i] : i \in DOMAIN s }

LEMMA CallsOfEmpty == Calls(<<>>) = {}
  BY DEF Calls

LEMMA PushCalls ==
  ASSUME NEW S, NEW f \in S, NEW s \in Seq(S)
  PROVE  /\ <<f>> \o s \in Seq(S) /\ <<f>> \o s # <<>>
         /\ Head(<<f>> \o s) = f /\ Tail(<<f>> \o s) = s
         /\ Calls(<<f>> \o s) = {f} \cup Calls(s)
<1> DEFINE t == <<f>> \o s
<1>1. t \in Seq(S) /\ Len(t) = Len(s) + 1 /\ Len(s) \in Nat
  OBVIOUS
<1>2. t[1] = f /\ \A i \in 1 .. Len(s) : t[i + 1] = s[i]
  OBVIOUS
<1>3. DOMAIN t = 1 .. Len(s) + 1 /\ DOMAIN s = 1 .. Len(s)
  BY <1>1
<1>4. Head(t) = f /\ t # <<>>
  BY <1>1, <1>2
<1>5. Tail(t) = s
  OBVIOUS
<1>6. Calls(t) \subseteq {f} \cup Calls(s)
  <2>1. ASSUME NEW i \in 1 .. Len(s) + 1
        PROVE  t[i] \in {f} \cup Calls(s)
    <3>1. CASE i = 1
      BY <3>1, <1>2
    <3>2. CASE i # 1
      <4>1. i - 1 \in 1 .. Len(s) /\ t[(i - 1) + 1] = s[i - 1]
        BY <3>2, <1>1, <1>2
      <4>2. t[i] = s[i - 1]
        BY <4>1
      <4> QED
        BY <4>1, <4>2, <1>3 DEF Calls
    <3> QED
      BY <3>1, <3>2
  <2> QED
    BY <2>1, <1>3 DEF Calls
<1>7. {f} \cup Calls(s) \subseteq Calls(t)
  <2>1. f \in Calls(t)
    BY <1>1, <1>2, <1>3 DEF Calls
  <2>2. ASSUME NEW i \in 1 .. Len(s)
        PROVE  s[i] \in Calls(t)
    <3>1. i + 1 \in 1 .. Len(s) + 1 /\ s[i] = t[i + 1]
      BY <1>1, <1>2
    <3> QED
      BY <3>1, <1>3 DEF Calls
  <2> QED
    BY <2>1, <2>2, <1>3 DEF Calls
<1> QED
  BY <1>1, <1>4, <1>5, <1>6, <1>7

LEMMA PopCalls ==
  ASSUME NEW S, NEW s \in Seq(S), s # <<>>
  PROVE  /\ Head(s) \in S /\ Tail(s) \in Seq(S)
         /\ Calls(s) = {Head(s)} \cup Calls(Tail(s))
<1>1. Head(s) \in S /\ Tail(s) \in Seq(S)
  BY HeadTailProperties
<1>2. s = <<Head(s)>> \o Tail(s)
  OBVIOUS
<1> QED
  BY <1>1, <1>2, PushCalls

\* What every outcome of a broadcast guarantees.
Regular(o, P) ==
  /\ o.players \subseteq P
  /\ o.result \in BroadcastResults
  /\ o.leader \in o.players \cup {NoLeader}

LEMMA OutcomeFacts ==
  ASSUME NEW P, P \subseteq Nat, NEW to, NEW l \in P \cup {NoLeader}, NEW D,
         NEW o \in BroadcastOutcomes(P, to, l, D)
  PROVE  Regular(o, P)
<1> USE DEF Regular
<1>0. NoLeader \notin Nat
  BY NoLeaderAssumption
<1>1. PICK lost \in SUBSET (D \cap P), r \in BroadcastResults :
        /\ r \in {"sent", "stale"} => lost # P
        /\ o = [ players |-> P \ lost,
                 leader  |-> IF r \in {"sent", "stale"}
                             THEN LeaderAfter(P, lost, l)
                             ELSE NoLeader,
                 result  |-> r ]
  <2>1. PICK e \in [lost : SUBSET (D \cap P), result : BroadcastResults] :
          /\ EndsWith(P, to, l, e.lost, e.result)
          /\ o = [ players |-> P \ e.lost,
                   leader  |-> IF e.result \in {"sent", "stale"}
                               THEN LeaderAfter(P, e.lost, l) ELSE NoLeader,
                   result  |-> e.result ]
    BY Zenon DEF BroadcastOutcomes
  <2>2. e.result \in {"sent", "stale"} => e.lost # P
    BY <2>1 DEF EndsWith
  <2> QED
    BY <2>1, <2>2
<1>2. CASE r \in {"sent", "stale"} /\ l # NoLeader
  <2>1. P \ lost # {}
    BY <1>1, <1>2
  <2>2. LeaderAfter(P, lost, l) \in P \ lost
    BY <2>1, <1>2, LeaderAfterIsLeft
  <2> QED
    BY <1>0, <1>1, <1>2, <2>2
<1>3. CASE r \in {"sent", "stale"} /\ l = NoLeader
  <2>1. LeaderAfter(P, lost, l) = NoLeader
    BY <1>0, <1>3 DEF LeaderAfter
  <2> QED
    BY <1>0, <1>1, <1>3, <2>1
<1>4. CASE r \notin {"sent", "stale"}
  BY <1>1, <1>4
<1> QED
  BY <1>2, <1>3, <1>4

\* A broadcast that returns to its caller, in a session that is led, leaves it
\* led.
LEMMA SentKeepsLeader ==
  ASSUME NEW P, P \subseteq Nat, NEW to, NEW l \in P, NEW D,
         NEW o \in BroadcastOutcomes(P, to, l, D), o.result = "sent"
  PROVE  o.leader \in o.players
<1>1. PICK lost \in SUBSET (D \cap P), r \in BroadcastResults :
        /\ EndsWith(P, to, l, lost, r)
        /\ o = [ players |-> P \ lost,
                 leader  |-> IF r \in {"sent", "stale"}
                             THEN LeaderAfter(P, lost, l) ELSE NoLeader,
                 result  |-> r ]
  BY Zenon DEF BroadcastOutcomes
<1>2. r = "sent" /\ P \ lost # {}
  BY <1>1 DEF EndsWith
<1>3. LeaderAfter(P, lost, l) \in P \ lost
  BY <1>2, LeaderAfterIsLeft
<1> QED
  BY <1>1, <1>2, <1>3

\* Only broken connections are lost.  A broadcast that returns to its caller
\* leaves players, all of them when nobody led; one that fails has lost some.
LEMMA OutcomeLosses ==
  ASSUME NEW P, P \subseteq Nat, NEW to, NEW l, NEW D,
         NEW o \in BroadcastOutcomes(P, to, l, D)
  PROVE  /\ P \ o.players \subseteq D
         /\ o.result = "sent" => o.players # {}
         /\ o.result = "sent" /\ l = NoLeader =>
              o.players = P /\ o.leader = NoLeader
         /\ o.result # "sent" /\ P # {} => P \ o.players # {}
<1>1. PICK lost \in SUBSET (D \cap P), r \in BroadcastResults :
        /\ EndsWith(P, to, l, lost, r)
        /\ o = [ players |-> P \ lost,
                 leader  |-> IF r \in {"sent", "stale"}
                             THEN LeaderAfter(P, lost, l) ELSE NoLeader,
                 result  |-> r ]
  BY Zenon DEF BroadcastOutcomes
<1>2. o.result = r /\ o.players = P \ lost
  BY <1>1
<1>3. P \ o.players = lost
  BY <1>2
<1>4. r = "sent" /\ l = NoLeader => lost = {} /\ o.leader = NoLeader
  <2> SUFFICES ASSUME r = "sent", l = NoLeader
               PROVE  lost = {} /\ o.leader = NoLeader
    OBVIOUS
  <2>1. lost = {}
    BY <1>1 DEF EndsWith
  <2> QED
    BY <1>1, <2>1 DEF LeaderAfter
<1>5. r # "sent" /\ P # {} => lost # {}
  <2>1. Cardinality({}) = 0
    BY FS_EmptySet
  <2> QED
    BY <1>1, <2>1 DEF EndsWith, BroadcastResults
<1>6. r = "sent" => lost # P
  BY <1>1 DEF EndsWith
<1> QED
  BY <1>2, <1>3, <1>4, <1>5, <1>6

\* The same of a request, which needs a leader to return or to be cancelled.
LEMMA RequestOutcomeFacts ==
  ASSUME NEW P, P \subseteq Nat, NEW l \in P \cup {NoLeader}, NEW running,
         NEW D, NEW o \in RequestOutcomes(P, l, running, D)
  PROVE  /\ o.players \subseteq P /\ P \ o.players \subseteq D
         /\ o.result \in RequestResults
         /\ o.leader \in o.players \cup {NoLeader}
         /\ o.result \in {"sent", "canceled"} =>
              l # NoLeader /\ o.leader \in o.players
<1>0. NoLeader \notin Nat
  BY NoLeaderAssumption
<1>1. PICK lost \in SUBSET (D \cap P), r \in RequestResults :
        /\ RequestEndsWith(P, l, running, lost, r)
        /\ o = [ players |-> P \ lost,
                 leader  |-> IF r \in {"sent", "canceled", "stale"}
                             THEN LeaderAfter(P, lost, l) ELSE NoLeader,
                 result  |-> r ]
  BY Zenon DEF RequestOutcomes
<1>2. r \in {"sent", "canceled", "stale"} => P \ lost # {} /\ l # NoLeader
  BY <1>1 DEF RequestEndsWith
<1>3. CASE r \in {"sent", "canceled", "stale"}
  <2>1. LeaderAfter(P, lost, l) \in P \ lost
    BY <1>2, <1>3, LeaderAfterIsLeft
  <2> QED
    BY <1>1, <1>2, <1>3, <2>1
<1>4. CASE r \notin {"sent", "canceled", "stale"}
  BY <1>1, <1>4
<1> QED
  BY <1>3, <1>4

\* What every outcome of a request guarantees: as a broadcast, and it returns
\* to its caller, or is cancelled, in a session that is still led.
LEMMA RequestFacts ==
  ASSUME NEW P, P \subseteq Nat, NEW l \in P, NEW running, NEW D,
         NEW o \in RequestOutcomes(P, l, running, D)
  PROVE  /\ o.players \subseteq P
         /\ o.result \in RequestResults
         /\ o.leader \in o.players \cup {NoLeader}
         /\ o.result \in {"sent", "canceled"} => o.leader \in o.players
  BY RequestOutcomeFacts, Zenon

-----------------------------------------------------------------------------
(* Induction, with sets: what holds of a set's elements one after another.  *)

LEMMA UpTo ==
  ASSUME NEW n \in Nat, NEW K, 0 \in K,
         \A k \in 0 .. n - 1 : k \in K => k + 1 \in K
  PROVE  \A k \in 0 .. n : k \in K
<1> DEFINE Missed == { k \in 0 .. n : k \notin K }
<1> SUFFICES ASSUME Missed # {}
             PROVE  FALSE
  OBVIOUS
<1>1. Missed \subseteq Nat
  OBVIOUS
<1>2. PICK m \in Missed : \A k \in Missed : m <= k
  BY <1>1, LeastOfNat, Zenon
<1>3. m - 1 \in 0 .. n - 1 /\ m - 1 \notin Missed
  BY <1>2
<1>4. m - 1 \in K
  BY <1>3
<1>5. (m - 1) + 1 \in K
  BY <1>3, <1>4
<1> QED
  BY <1>2, <1>5

LEMMA OfSubsets ==
  ASSUME NEW D, IsFiniteSet(D), NEW K,
         \A s \in SUBSET D : (\A x \in s : s \ {x} \in K) => s \in K
  PROVE  \A s \in SUBSET D : s \in K
<1> DEFINE Missed == { s \in SUBSET D : s \notin K }
<1> SUFFICES ASSUME Missed # {}
             PROVE  FALSE
  OBVIOUS
<1>1. Missed \subseteq FiniteSubsetsOf(D)
  BY FS_Subset DEF FiniteSubsetsOf
<1>2. PICK s \in Missed :
        \A u \in Missed : ~ (<<u, s>> \in StrictSubsetOrdering(D))
  BY <1>1, FS_StrictSubsetOrderingWellFounded, WFMin
<1>3. ASSUME NEW x \in s
      PROVE  s \ {x} \in K
  <2>1. <<s \ {x}, s>> \in StrictSubsetOrdering(D)
    BY <1>2 DEF StrictSubsetOrdering
  <2> QED
    BY <1>2, <2>1
<1> QED
  BY <1>2, <1>3

-----------------------------------------------------------------------------
(* The folds of the community modules: that they are defined, for a finite  *)
(* set whose elements are taken in the order of a choice function.          *)

LEMMA Counting ==
  ASSUME NEW c \in Nat, NEW m \in Nat
  PROVE  /\ m + 1 \in Nat
         /\ c <= 0 => c = 0
         /\ c <= m + 1 => c - 1 <= m
         /\ c \in 0 .. c
         /\ \A k \in 0 .. c - 1 : k \in Nat
  OBVIOUS

StepsWithin(G, V, D) == \A v \in V, x \in D : G[v][x] \in V
Chooses(ch, D) == \A s \in SUBSET D : s # {} => ch[s] \in s
FoldOf(g, D, base, G, ch) ==
  \A s \in SUBSET D :
    g[s] = IF s = {} THEN base ELSE G[g[s \ {ch[s]}]][ch[s]]

LEMMA FoldExists ==
  ASSUME NEW D, IsFiniteSet(D), NEW V, NEW base \in V, NEW G, NEW ch,
         StepsWithin(G, V, D), Chooses(ch, D)
  PROVE  \E g \in [SUBSET D -> V] : FoldOf(g, D, base, G, ch)
<1> USE DEF StepsWithin, Chooses
<1> DEFINE Right(g, s) ==
             g[s] = IF s = {} THEN base ELSE G[g[s \ {ch[s]}]][ch[s]]
           Small(m) == { s \in SUBSET D : Cardinality(s) <= m }
           K == { m \in Nat : \E g \in [SUBSET D -> V] :
                                \A s \in Small(m) : Right(g, s) }
<1>1. \A s \in SUBSET D :
        /\ IsFiniteSet(s) /\ Cardinality(s) \in Nat
        /\ Cardinality(s) <= Cardinality(D)
  BY FS_Subset, FS_CardinalityType
<1>2. 0 \in K
  <2> DEFINE g == [s \in SUBSET D |-> base]
  <2>1. ASSUME NEW s \in Small(0)
        PROVE  s = {}
    <3>1. /\ s \in SUBSET D /\ IsFiniteSet(s) /\ Cardinality(s) \in Nat
          /\ Cardinality(s) <= 0
      BY <1>1
    <3>2. Cardinality(s) = 0
      <4>1. 0 \in Nat
        OBVIOUS
      <4> QED
        BY <3>1, <4>1, Counting, Zenon
    <3>3. \A S : IsFiniteSet(S) => (Cardinality(S) = 0 <=> S = {})
      BY FS_EmptySet
    <3> HIDE DEF Small
    <3> QED
      BY <3>1, <3>2, <3>3, Zenon
  <2>2. g \in [SUBSET D -> V] /\ \A s \in Small(0) : Right(g, s)
    BY <2>1
  <2> HIDE DEF g, Right, Small
  <2> QED
    BY <2>2
<1>3. ASSUME NEW m \in Nat, m \in K
      PROVE  m + 1 \in K
  <2>1. PICK g \in [SUBSET D -> V] : \A s \in Small(m) : Right(g, s)
    BY <1>3
  <2> DEFINE h == [ s \in SUBSET D |->
                      IF s = {} THEN base ELSE G[g[s \ {ch[s]}]][ch[s]] ]
  <2>2. h \in [SUBSET D -> V]
    <3>1. ASSUME NEW s \in SUBSET D, s # {}
          PROVE  G[g[s \ {ch[s]}]][ch[s]] \in V
      <4>1. ch[s] \in D /\ s \ {ch[s]} \in SUBSET D
        BY <3>1
      <4> QED
        BY <4>1, <2>1
    <3> QED
      BY <3>1
  <2>3. \A s \in SUBSET D :
          h[s] = IF s = {} THEN base ELSE G[g[s \ {ch[s]}]][ch[s]]
    OBVIOUS
  <2> HIDE DEF h
  <2>4. \A s \in Small(m) : h[s] = g[s]
    BY <2>1, <2>3
  <2>5. ASSUME NEW s \in Small(m + 1)
        PROVE  Right(h, s)
    <3>0. s \in SUBSET D
      OBVIOUS
    <3>1. CASE s = {}
      BY <2>3, <3>0, <3>1
    <3>2. CASE s # {}
      <4>1. ch[s] \in s /\ s \ {ch[s]} \in SUBSET D
        BY <3>0, <3>2
      <4>2. /\ IsFiniteSet(s) /\ Cardinality(s) \in Nat
            /\ Cardinality(s) <= m + 1
        BY <1>1
      <4>3. Cardinality(s \ {ch[s]}) = Cardinality(s) - 1
        BY <4>1, <4>2, FS_RemoveElement, Zenon
      <4>4. Cardinality(s \ {ch[s]}) <= m
        BY <4>2, <4>3, Counting, Zenon
      <4>5. s \ {ch[s]} \in Small(m)
        BY <4>1, <4>4
      <4>6. h[s \ {ch[s]}] = g[s \ {ch[s]}]
        BY <2>4, <4>5
      <4>7. h[s] = G[g[s \ {ch[s]}]][ch[s]]
        BY <2>3, <3>0, <3>2, Zenon
      <4> HIDE DEF Small
      <4> QED
        BY <3>2, <4>6, <4>7
    <3> QED
      BY <3>1, <3>2
  <2> HIDE DEF Right, Small
  <2>6. m + 1 \in Nat
    BY Counting, Zenon
  <2>7. \A s \in Small(m + 1) : Right(h, s)
    BY <2>5
  <2> QED
    BY <2>2, <2>6, <2>7, Zenon
<1>4. Cardinality(D) \in Nat
  BY FS_CardinalityType
<1>5. Cardinality(D) \in K
  <2> HIDE DEF K
  <2>1. \A k \in 0 .. Cardinality(D) - 1 : k \in K => k + 1 \in K
    <3>1. \A k \in 0 .. Cardinality(D) - 1 : k \in Nat
      BY <1>4, Counting, Zenon
    <3> QED
      BY <1>3, <3>1, Zenon
  <2>2. \A k \in 0 .. Cardinality(D) : k \in K
    BY <1>2, <1>4, <2>1, UpTo, Zenon
  <2>3. Cardinality(D) \in 0 .. Cardinality(D)
    BY <1>4, Counting, Zenon
  <2> QED
    BY <1>4, <2>2, <2>3, Zenon
<1>6. \A s \in SUBSET D : s \in Small(Cardinality(D))
  BY <1>1
<1> HIDE DEF Small
<1>7. PICK g \in [SUBSET D -> V] :
        \A s \in Small(Cardinality(D)) : Right(g, s)
  BY <1>5
<1>8. \A s \in SUBSET D : Right(g, s)
  BY <1>6, <1>7
<1> QED
  BY <1>8 DEF FoldOf

LEMMA LatestIsLast ==
  ASSUME NEW n \in Nat, NEW s \in SUBSET (1 .. n), s # {}
  PROVE  Max(s) \in s /\ \A k \in s : k <= Max(s)
<1> DEFINE Left == { n - k : k \in s }
<1>1. Left \subseteq Nat /\ Left # {}
  <2>1. \A k \in s : n - k \in Nat
    OBVIOUS
  <2> QED
    BY <2>1, Zenon
<1>2. PICK m \in Left : \A l \in Left : m <= l
  BY <1>1, LeastOfNat, Zenon
<1>3. PICK k \in s : m = n - k
  BY <1>2
<1>4. ASSUME NEW j \in s
      PROVE  k >= j
  <2>1. n - k <= n - j
    BY <1>2, <1>3
  <2>2. j \in Nat /\ k \in Nat
    OBVIOUS
  <2> QED
    BY <2>1, <2>2
<1> HIDE DEF Left
<1>5. Max(s) \in s /\ \A j \in s : Max(s) >= j
  BY <1>4, Zenon DEF Max
<1>6. s \subseteq Nat
  OBVIOUS
<1>7. \A i, j \in Nat : i >= j => j <= i
  OBVIOUS
<1> QED
  BY <1>5, <1>6, <1>7, Zenon

LEMMA LatestOfFirst ==
  ASSUME NEW n \in Nat, NEW k \in 1 .. n
  PROVE  /\ Max(1 .. k) = k /\ (1 .. k) \ {k} = 1 .. k - 1
         /\ 1 .. k \in SUBSET (1 .. n) /\ 1 .. k # {}
<1>1. /\ 1 .. k \in SUBSET (1 .. n) /\ k \in 1 .. k
      /\ (1 .. k) \ {k} = 1 .. k - 1
  OBVIOUS
<1>2. Max(1 .. k) \in 1 .. k /\ k <= Max(1 .. k)
  BY <1>1, LatestIsLast, Zenon
<1> QED
  BY <1>1, <1>2

\* What the fold over a sequence has made after each of its elements.
Traced(t, n, base, G) ==
  t[0] = base /\ \A k \in 1 .. n : t[k] = G[t[k - 1]][k]
FoldedInOrder(g, n, base, G) ==
  \A s \in SUBSET (1 .. n) :
    g[s] = IF s = {} THEN base ELSE G[g[s \ {Max(s)}]][Max(s)]

TraceOf(t, g, n, V, base, G) ==
  t \in [0 .. n -> V] /\ Traced(t, n, base, G) /\ t[n] = g[1 .. n]

LEMMA FoldInOrder ==
  ASSUME NEW n \in Nat, NEW V, NEW base \in V, NEW G,
         StepsWithin(G, V, 1 .. n)
  PROVE  \E g \in [SUBSET (1 .. n) -> V] : FoldedInOrder(g, n, base, G)
<1> DEFINE ch == [s \in SUBSET (1 .. n) |-> Max(s)]
<1>1. \A s \in SUBSET (1 .. n) : s # {} => Max(s) \in s
  BY LatestIsLast
<1>2. \A s \in SUBSET (1 .. n) : ch[s] = Max(s)
  BY Zenon
<1> HIDE DEF ch
<1>3. Chooses(ch, 1 .. n)
  BY <1>1, <1>2, Zenon DEF Chooses
<1>4. IsFiniteSet(1 .. n)
  BY FS_Interval
<1>5. PICK g \in [SUBSET (1 .. n) -> V] : FoldOf(g, 1 .. n, base, G, ch)
  BY <1>3, <1>4, FoldExists, Zenon
<1>6. FoldedInOrder(g, n, base, G)
  BY <1>2, <1>5, Zenon DEF FoldOf, FoldedInOrder
<1> QED
  BY <1>6, Zenon

LEMMA TraceOfFold ==
  ASSUME NEW n \in Nat, NEW V, NEW base \in V, NEW G,
         NEW g \in [SUBSET (1 .. n) -> V], FoldedInOrder(g, n, base, G)
  PROVE  \E t : TraceOf(t, g, n, V, base, G)
<1> DEFINE t == [k \in 0 .. n |-> g[1 .. k]]
<1>1. \A k \in 0 .. n : 1 .. k \in SUBSET (1 .. n)
  OBVIOUS
<1>2. t \in [0 .. n -> V] /\ \A k \in 0 .. n : t[k] = g[1 .. k]
  BY <1>1
<1> HIDE DEF t
<1>3. t[0] = base
  <2>1. 0 \in 0 .. n /\ 1 .. 0 = {}
    OBVIOUS
  <2>2. t[0] = g[{}]
    BY <1>2, <2>1, Zenon
  <2> QED
    BY <2>2, Zenon DEF FoldedInOrder
<1>4. ASSUME NEW k \in 1 .. n
      PROVE  t[k] = G[t[k - 1]][k]
  <2>1. /\ Max(1 .. k) = k /\ (1 .. k) \ {k} = 1 .. k - 1
        /\ 1 .. k \in SUBSET (1 .. n) /\ 1 .. k # {}
    BY LatestOfFirst, Zenon
  <2>2. k \in 0 .. n /\ k - 1 \in 0 .. n
    OBVIOUS
  <2>3. t[k] = g[1 .. k] /\ t[k - 1] = g[1 .. k - 1]
    BY <1>2, <2>2, Zenon
  <2>4. g[1 .. k] = G[g[(1 .. k) \ {Max(1 .. k)}]][Max(1 .. k)]
    BY <2>1, Zenon DEF FoldedInOrder
  <2> QED
    BY <2>1, <2>3, <2>4, Zenon
<1>5. t[n] = g[1 .. n]
  BY <1>2
<1>6. Traced(t, n, base, G)
  BY <1>3, <1>4, Zenon DEF Traced
<1>7. TraceOf(t, g, n, V, base, G)
  BY <1>2, <1>5, <1>6, Zenon DEF TraceOf
<1> QED
  BY <1>7, Zenon

=============================================================================
