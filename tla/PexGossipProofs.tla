-------------------------- MODULE PexGossipProofs --------------------------
(***************************************************************************)
(* Proofs about gossip rounds, from lemmas about the operators on views.   *)
(***************************************************************************)
EXTENDS PexGossip, FiniteSetTheorems, TLAPS

\* No two records of v are the same, or of the same peer.
Differ(v) == \A i, j \in DOMAIN v : v[i] = v[j] => i = j
OnePerPeer(v) == \A i, j \in DOMAIN v : v[i].peer = v[j].peer => i = j

\* w has the records of v at the positions in I, each once, in some order.
Picks(w, v, I) ==
    /\ Len(w) = Cardinality(I)
    /\ \E f \in Bijection(1..Len(w), I) : \A k \in 1..Len(w) : w[k] = v[f[k]]
-----------------------------------------------------------------------------
(***************************************************************************)
(* Views.                                                                  *)
(***************************************************************************)

\* The positions of a view.
LEMMA Lengths ==
    ASSUME NEW R, NEW v \in Seq(R)
    PROVE  DOMAIN v = 1..Len(v) /\ Len(v) \in Nat /\ Elems(v) \subseteq R
  BY DEF Elems

\* How many positions there are.
LEMMA Count ==
    ASSUME NEW k \in Nat
    PROVE  IsFiniteSet(1..k) /\ Cardinality(1..k) = k
  BY FS_Interval

\* The arithmetic of how many are taken from a view and how many are left.
LEMMA Rest ==
    ASSUME NEW l \in Nat, NEW r \in Nat
    PROVE  /\ Lesser(r, l) \in 0..l /\ l - Lesser(r, l) \in 0..l
           /\ Lesser(l - Lesser(r, l), l) = l - Lesser(r, l)
           /\ l - (l - Lesser(r, l)) = Lesser(r, l)
           /\ Greater(l - r, 0) = l - Lesser(r, l)
  <1>1. CASE r <= l
    BY <1>1 DEF Lesser, Greater
  <1>2. CASE ~(r <= l)
    BY <1>2 DEF Lesser, Greater
  <1>. QED
    BY <1>1, <1>2, Zenon

\* head keeps the first records,
LEMMA headKeeps ==
    ASSUME NEW R, NEW v \in Seq(R), NEW n \in Nat
    PROVE  /\ head(v, n) \in Seq(R)
           /\ Len(head(v, n)) = Lesser(n, Len(v))
           /\ \A i \in 1..Len(head(v, n)) : head(v, n)[i] = v[i]
  BY DEF head, Lesser

\* tail the last ones.
LEMMA tailKeeps ==
    ASSUME NEW R, NEW v \in Seq(R), NEW n \in Nat
    PROVE  /\ tail(v, n) \in Seq(R)
           /\ Len(tail(v, n)) = Lesser(n, Len(v))
           /\ \A i \in 1..Len(tail(v, n)) :
                 tail(v, n)[i] = v[i + (Len(v) - Lesser(n, Len(v)))]
  <1>. DEFINE m == Greater(Len(v) - n, 0) + 1
  <1>1. m \in 1..(Len(v) + 1) /\ Len(v) - m + 1 = Lesser(n, Len(v))
    <2>1. Len(v) \in Nat
      OBVIOUS
    <2>. HIDE DEF m
    <2>2. m = IF Len(v) - n <= 0 THEN 1 ELSE Len(v) - n + 1
      BY DEF Greater, m
    <2>3. CASE n <= Len(v)
      BY <2>1, <2>2, <2>3 DEF Lesser
    <2>4. CASE ~(n <= Len(v))
      BY <2>1, <2>2, <2>4 DEF Lesser
    <2>. QED
      BY <2>3, <2>4, Zenon
  <1>. HIDE DEF m
  <1>2. SubSeq(v, m, Len(v)) \in Seq(R)
    BY <1>1
  <1>3. Len(SubSeq(v, m, Len(v))) = Len(v) - m + 1
    BY <1>1
  <1>4. \A i \in 1..(Len(v) - m + 1) : SubSeq(v, m, Len(v))[i] = v[i + m - 1]
    BY <1>1
  <1>5. tail(v, n) = SubSeq(v, m, Len(v))
    BY Zenon DEF tail, m
  <1>6. Lesser(n, Len(v)) \in Int
    BY DEF Lesser
  <1>7. \A i \in 1..(Len(v) - m + 1) : i + m - 1 = i + (Len(v) - Lesser(n, Len(v)))
    BY <1>1, <1>6
  <1>. QED
    BY <1>1, <1>2, <1>3, <1>4, <1>5, <1>7, Zenon

\* What is picked from a view has the properties of the view.
LEMMA Picked ==
    ASSUME NEW R, NEW v \in Seq(R), NEW w \in Seq(R), NEW I \in SUBSET (1..Len(v)),
           Picks(w, v, I)
    PROVE  /\ Elems(w) = {v[i] : i \in I}
           /\ Differ(v) => Differ(w)
           /\ OnePerPeer(v) => OnePerPeer(w)
  <1>1. PICK f \in Bijection(1..Len(w), I) : \A k \in 1..Len(w) : w[k] = v[f[k]]
    BY Zenon DEF Picks
  <1>2. /\ f \in [1..Len(w) -> I]
        /\ \A k, l \in 1..Len(w) : f[k] = f[l] => k = l
        /\ \A i \in I : \E k \in 1..Len(w) : f[k] = i
    BY Zenon DEF Bijection, Injection, Surjection, IsInjective
  <1>3. DOMAIN v = 1..Len(v) /\ DOMAIN w = 1..Len(w)
    BY Lengths, Zenon
  <1>4. Elems(w) = {v[i] : i \in I}
    <2>1. \A k \in DOMAIN w : \E i \in I : w[k] = v[i]
      BY <1>1, <1>2, <1>3, Zenon
    <2>2. ASSUME NEW i \in I PROVE \E k \in DOMAIN w : w[k] = v[i]
      <3>1. PICK k \in 1..Len(w) : f[k] = i
        BY <1>2, Zenon
      <3>2. w[k] = v[i]
        BY <1>1, <3>1, Zenon
      <3>. QED
        BY <1>3, <3>2, Zenon
    <2>3. ASSUME NEW k \in DOMAIN w PROVE w[k] \in {v[i] : i \in I}
      BY <2>1, Zenon
    <2>4. ASSUME NEW i \in I PROVE v[i] \in Elems(w)
      BY <2>2, Zenon DEF Elems
    <2>. QED
      BY <2>3, <2>4, Zenon DEF Elems
  <1>5. \A k \in 1..Len(w) : f[k] \in 1..Len(v)
    BY <1>2, Zenon
  <1>6. ASSUME Differ(v), NEW k \in 1..Len(w), NEW l \in 1..Len(w), w[k] = w[l] PROVE k = l
    <2>1. v[f[k]] = v[f[l]] /\ f[k] \in 1..Len(v) /\ f[l] \in 1..Len(v)
      BY <1>1, <1>5, <1>6, Zenon
    <2>2. f[k] = f[l]
      BY <1>3, <1>6, <2>1, Zenon DEF Differ
    <2>. QED
      BY <1>2, <2>2, Zenon
  <1>7. ASSUME OnePerPeer(v), NEW k \in 1..Len(w), NEW l \in 1..Len(w), w[k].peer = w[l].peer
        PROVE  k = l
    <2>1. v[f[k]].peer = v[f[l]].peer /\ f[k] \in 1..Len(v) /\ f[l] \in 1..Len(v)
      BY <1>1, <1>5, <1>7, Zenon
    <2>2. f[k] = f[l]
      BY <1>3, <1>7, <2>1, Zenon DEF OnePerPeer
    <2>. QED
      BY <1>2, <2>2, Zenon
  <1>. QED
    BY <1>3, <1>4, <1>6, <1>7, Zenon DEF Differ, OnePerPeer

\* A shuffled view has the same records.
LEMMA shuffledPicks ==
    ASSUME NEW R, NEW v \in Seq(R), NEW w \in shuffled(v)
    PROVE  w \in Seq(R) /\ Len(w) = Len(v) /\ Picks(w, v, 1..Len(v))
  <1>1. PICK order \in Injection(1..Len(v), 1..Len(v)) : w = [i \in 1..Len(v) |-> v[order[i]]]
    BY Lengths DEF shuffled
  <1>2. IsFiniteSet(1..Len(v)) /\ Cardinality(1..Len(v)) = Len(v)
    BY Count, Lengths, Zenon
  <1>3. order \in Surjection(1..Len(v), 1..Len(v))
    BY <1>2, FS_Injection, Zenon
  <1>4. order \in [1..Len(v) -> 1..Len(v)]
    BY Zenon DEF Injection
  <1>5. w \in Seq(R) /\ Len(w) = Len(v)
    BY <1>1, <1>4
  <1>. QED
    BY <1>1, <1>2, <1>3, <1>5, Zenon DEF Bijection, Picks

\* So have the records of a set in any order.
LEMMA ordersHave ==
    ASSUME NEW S, IsFiniteSet(S), NEW y \in orders(S)
    PROVE  y \in Seq(S) /\ Len(y) = Cardinality(S) /\ Elems(y) = S /\ Differ(y)
  <1>. DEFINE c == Cardinality(S)
  <1>1. c \in Nat
    BY FS_CardinalityType, Zenon
  <1>2. IsFiniteSet(1..c) /\ Cardinality(1..c) = c
    BY <1>1, Count, Zenon
  <1>3. y \in Surjection(1..c, S)
    BY <1>2, FS_Injection, Zenon DEF orders
  <1>4. y \in [1..c -> S] /\ \A i, j \in 1..c : y[i] = y[j] => i = j
    BY Zenon DEF orders, Injection, IsInjective
  <1>. HIDE DEF c
  <1>5. y \in Seq(S) /\ Len(y) = c /\ DOMAIN y = 1..c
    BY <1>1, <1>4
  <1>6. Elems(y) = S
    BY <1>3, <1>4, <1>5 DEF Elems, Surjection
  <1>7. Differ(y)
    BY <1>4, <1>5, Zenon DEF Differ
  <1>. QED
    BY <1>5, <1>6, <1>7, Zenon DEF c

\* at picks the positions it is given: the rank of a position is one to one.
LEMMA atPicks ==
    ASSUME NEW R, NEW v \in Seq(R), NEW I \in SUBSET (1..Len(v))
    PROVE  at(v, I) \in Seq(R) /\ Picks(at(v, I), v, I)
  <1>. DEFINE c == Cardinality(I)
              upTo(i) == {j \in I : j <= i}
              rank == [i \in I |-> Cardinality(upTo(i))]
              nth == [k \in 1..c |-> CHOOSE i \in I : Cardinality(upTo(i)) = k]
  <1>1. IsFiniteSet(I) /\ c \in Nat
    <2>1. IsFiniteSet(1..Len(v))
      BY Count, Lengths, Zenon
    <2>. QED
      BY <2>1, FS_Subset, FS_CardinalityType, Zenon
  <1>2. ASSUME NEW i \in I
        PROVE  IsFiniteSet(upTo(i)) /\ Cardinality(upTo(i)) \in 1..c
    <2>1. upTo(i) \in SUBSET I
      BY Zenon
    <2>2. IsFiniteSet(upTo(i)) /\ Cardinality(upTo(i)) <= c
      BY <1>1, <2>1, FS_Subset, Zenon
    <2>3. Cardinality(upTo(i)) \in Nat
      BY <2>2, FS_CardinalityType, Zenon
    <2>4. i \in upTo(i)
      OBVIOUS
    <2>5. Cardinality(upTo(i)) # 0
      BY <2>2, <2>4, FS_EmptySet, Zenon
    <2>. QED
      BY <1>1, <2>2, <2>3, <2>5
  <1>3. ASSUME NEW i \in I, NEW j \in I, i < j
        PROVE  Cardinality(upTo(i)) # Cardinality(upTo(j))
    <2>1. upTo(i) \in SUBSET upTo(j)
      <3>1. \A k \in I : k <= i => k <= j
        <4>1. \A k \in I : k \in Int
          BY Lengths
        <4>. QED
          BY <1>3, <4>1
      <3>. QED
        BY <3>1, Zenon
    <2>2. j <= j /\ ~(j <= i)
      BY <1>3
    <2>3. j \in upTo(j) /\ j \notin upTo(i)
      BY <2>2, Zenon
    <2>. QED
      BY <1>2, <2>1, <2>3, FS_Subset, Zenon
  <1>4. rank \in Injection(I, 1..c)
    <2>1. \A i, j \in I : rank[i] = rank[j] => i = j
      <3>. SUFFICES ASSUME NEW i \in I, NEW j \in I, i # j PROVE rank[i] # rank[j]
        BY Zenon
      <3>1. i < j \/ j < i
        OBVIOUS
      <3>. QED
        BY <1>3, <3>1, Zenon
    <2>2. rank \in [I -> 1..c]
      BY <1>2, Zenon
    <2>. QED
      BY <2>1, <2>2, Zenon DEF Injection, IsInjective
  <1>5. rank \in Surjection(I, 1..c)
    <2>1. IsFiniteSet(1..c) /\ Cardinality(1..c) = c
      BY <1>1, Count, Zenon
    <2>. QED
      BY <1>4, <2>1, FS_Injection, Zenon
  <1>. HIDE DEF upTo, c
  <1>6. ASSUME NEW k \in 1..c PROVE nth[k] \in I /\ rank[nth[k]] = k
    <2>1. \E i \in I : Cardinality(upTo(i)) = k
      BY <1>5, Zenon DEF Surjection
    <2>. QED
      BY <2>1, Zenon
  <1>7. nth \in [1..c -> I]
    BY <1>6, Zenon
  <1>8. \A i \in I : rank[i] \in 1..c /\ \A j \in I : rank[i] = rank[j] => i = j
    BY <1>4, Zenon DEF Injection, IsInjective
  <1>. HIDE DEF nth, rank
  <1>9. nth \in Bijection(1..c, I)
    <2>1. \A k, l \in 1..c : nth[k] = nth[l] => k = l
      BY <1>6, Zenon
    <2>2. \A i \in I : \E k \in 1..c : nth[k] = i
      BY <1>6, <1>8, Zenon
    <2>3. nth \in Injection(1..c, I)
      BY <1>7, <2>1, Zenon DEF Injection, IsInjective
    <2>4. nth \in Surjection(1..c, I)
      BY <1>7, <2>2, Zenon DEF Surjection
    <2>. QED
      BY <2>3, <2>4, Zenon DEF Bijection
  <1>10. at(v, I) = [k \in 1..c |-> v[nth[k]]]
    BY DEF at, nth, c, upTo
  <1>11. \A k \in 1..c : v[nth[k]] \in R
    <2>1. \A k \in 1..c : nth[k] \in 1..Len(v)
      BY <1>7, Zenon
    <2>. QED
      BY <2>1
  <1>12. at(v, I) \in Seq(R) /\ Len(at(v, I)) = c
    BY <1>1, <1>10, <1>11
  <1>. QED
    BY <1>9, <1>10, <1>12, Zenon DEF Picks, c

\* What head and tail keep, and how they split a view.
LEMMA headElems ==
    ASSUME NEW R, NEW v \in Seq(R), NEW n \in Nat
    PROVE  /\ Elems(head(v, n)) \subseteq Elems(v)
           /\ Differ(v) => Differ(head(v, n))
           /\ OnePerPeer(v) => OnePerPeer(head(v, n))
  <1>1. \A i \in DOMAIN head(v, n) : i \in DOMAIN v /\ head(v, n)[i] = v[i]
    <2>1. DOMAIN head(v, n) = 1..Lesser(n, Len(v)) /\ DOMAIN v = 1..Len(v)
      BY headKeeps, Lengths, Zenon
    <2>2. 1..Lesser(n, Len(v)) \subseteq 1..Len(v)
      BY DEF Lesser
    <2>. QED
      BY <2>1, <2>2, headKeeps, Zenon
  <1>. QED
    BY <1>1, Zenon DEF Elems, Differ, OnePerPeer

\* The records of a tail are the view's, and differ as they did there.
LEMMA tailElems ==
    ASSUME NEW R, NEW v \in Seq(R), NEW n \in Nat
    PROVE  /\ Elems(tail(v, n)) \subseteq Elems(v)
           /\ Differ(v) => Differ(tail(v, n))
           /\ OnePerPeer(v) => OnePerPeer(tail(v, n))
  <1>. DEFINE d == Len(v) - Lesser(n, Len(v))
  <1>1. \A i \in DOMAIN tail(v, n) : i \in Int /\ i + d \in DOMAIN v /\ tail(v, n)[i] = v[i + d]
    <2>1. DOMAIN tail(v, n) = 1..Lesser(n, Len(v)) /\ DOMAIN v = 1..Len(v)
      BY tailKeeps, Lengths, Zenon
    <2>2. \A i \in 1..Lesser(n, Len(v)) : i \in Int /\ i + d \in 1..Len(v)
      BY DEF Lesser
    <2>. QED
      BY <2>1, <2>2, tailKeeps, Zenon
  <1>2. d \in Int
    BY DEF Lesser
  <1>. HIDE DEF d
  <1>3. \A i, j \in Int : i + d = j + d => i = j
    BY <1>2
  <1>4. Elems(tail(v, n)) \subseteq Elems(v)
    BY <1>1, Zenon DEF Elems
  <1>5. Differ(v) => Differ(tail(v, n))
    BY <1>1, <1>3, Zenon DEF Differ
  <1>6. ASSUME OnePerPeer(v), NEW i \in DOMAIN tail(v, n), NEW j \in DOMAIN tail(v, n),
               tail(v, n)[i].peer = tail(v, n)[j].peer
        PROVE  i = j
    <2>1. v[i + d].peer = v[j + d].peer
      BY <1>1, <1>6, Zenon
    <2>. QED
      BY <1>1, <1>3, <1>6, <2>1, Zenon DEF OnePerPeer
  <1>. QED
    BY <1>4, <1>5, <1>6, Zenon DEF OnePerPeer

\* head and tail divide a view.
LEMMA Split ==
    ASSUME NEW R, NEW v \in Seq(R), NEW r \in Nat, NEW m, m = Len(v) - Lesser(r, Len(v))
    PROVE  /\ Elems(v) = Elems(head(v, m)) \cup Elems(tail(v, r))
           /\ Differ(v) => Elems(head(v, m)) \cap Elems(tail(v, r)) = {}
           /\ OnePerPeer(v) => PeersOf(head(v, m)) \cap PeersOf(tail(v, r)) = {}
  <1>0. /\ Len(v) \in Nat /\ m \in Nat /\ m <= Len(v)
        /\ Lesser(m, Len(v)) = m /\ Lesser(r, Len(v)) = Len(v) - m
    BY Lengths, Rest
  <1>1. DOMAIN v = 1..Len(v) /\ DOMAIN head(v, m) = 1..m /\ DOMAIN tail(v, r) = 1..(Len(v) - m)
    <2>1. head(v, m) \in Seq(R) /\ Len(head(v, m)) = m
      BY <1>0, headKeeps, Zenon
    <2>2. tail(v, r) \in Seq(R) /\ Len(tail(v, r)) = Len(v) - m
      BY <1>0, tailKeeps, Zenon
    <2>. QED
      BY <2>1, <2>2, Lengths, Zenon
  <1>2. \A i \in 1..m : head(v, m)[i] = v[i]
    <2>1. /\ Len(head(v, m)) = Lesser(m, Len(v))
          /\ \A i \in 1..Len(head(v, m)) : head(v, m)[i] = v[i]
      BY <1>0, headKeeps, Zenon
    <2>2. Len(head(v, m)) = m
      BY <1>0, <2>1, Zenon
    <2>. QED
      BY <2>1, <2>2, Zenon
  <1>3. \A i \in 1..(Len(v) - m) : tail(v, r)[i] = v[i + m]
    <2>1. Len(tail(v, r)) = Len(v) - m
      BY <1>0, tailKeeps, Zenon
    <2>2. \A i \in 1..Len(tail(v, r)) : tail(v, r)[i] = v[i + (Len(v) - Lesser(r, Len(v)))]
      BY tailKeeps, Zenon
    <2>. QED
      BY <2>1, <2>2, Zenon
  <1>5. \A i \in 1..Len(v) : i \in 1..m \/ (i - m \in 1..(Len(v) - m) /\ (i - m) + m = i)
    BY <1>0
  <1>6. \A i \in 1..(Len(v) - m) : i + m \in 1..Len(v)
    BY <1>0
  <1>7. \A i \in 1..m : i \in 1..Len(v)
    BY <1>0
  <1>8. \A i \in 1..m, j \in 1..(Len(v) - m) : i # j + m
    BY <1>0
  <1>9. Elems(v) = Elems(head(v, m)) \cup Elems(tail(v, r))
    <2>1. ASSUME NEW g \in Elems(v) PROVE g \in Elems(head(v, m)) \cup Elems(tail(v, r))
      <3>1. PICK i \in 1..Len(v) : g = v[i]
        BY <1>1, Zenon DEF Elems
      <3>2. CASE i \in 1..m
        BY <1>1, <1>2, <3>1, <3>2, Zenon DEF Elems
      <3>3. CASE i - m \in 1..(Len(v) - m) /\ (i - m) + m = i
        BY <1>1, <1>3, <3>1, <3>3, Zenon DEF Elems
      <3>. QED
        BY <1>5, <3>2, <3>3, Zenon
    <2>2. Elems(head(v, m)) \subseteq Elems(v) /\ Elems(tail(v, r)) \subseteq Elems(v)
      BY <1>0, headElems, tailElems, Zenon
    <2>. QED
      BY <2>1, <2>2, Zenon
  <1>10. Differ(v) => Elems(head(v, m)) \cap Elems(tail(v, r)) = {}
    <2>. SUFFICES ASSUME Differ(v), NEW i \in 1..m, NEW j \in 1..(Len(v) - m),
                         head(v, m)[i] = tail(v, r)[j]
                  PROVE  FALSE
      BY <1>1, Zenon DEF Elems
    <2>1. v[i] = v[j + m]
      BY <1>2, <1>3, Zenon
    <2>. QED
      BY <1>1, <1>6, <1>7, <1>8, <2>1, Zenon DEF Differ
  <1>11. OnePerPeer(v) => PeersOf(head(v, m)) \cap PeersOf(tail(v, r)) = {}
    <2>. SUFFICES ASSUME OnePerPeer(v), NEW i \in 1..m, NEW j \in 1..(Len(v) - m),
                         head(v, m)[i].peer = tail(v, r)[j].peer
                  PROVE  FALSE
      BY <1>1 DEF PeersOf, Elems
    <2>1. v[i].peer = v[j + m].peer
      BY <1>2, <1>3, Zenon
    <2>. QED
      BY <1>1, <1>6, <1>7, <1>8, <2>1, Zenon DEF OnePerPeer
  <1>. QED
    BY <1>9, <1>10, <1>11, Zenon

\* One view after another.
LEMMA Joined ==
    ASSUME NEW R, NEW v \in Seq(R), NEW w \in Seq(R)
    PROVE  /\ v \o w \in Seq(R) /\ Len(v \o w) = Len(v) + Len(w)
           /\ Elems(v \o w) = Elems(v) \cup Elems(w)
           /\ Differ(v) /\ Differ(w) /\ Elems(v) \cap Elems(w) = {} => Differ(v \o w)
           /\ OnePerPeer(v) /\ OnePerPeer(w) /\ PeersOf(v) \cap PeersOf(w) = {}
              => OnePerPeer(v \o w)
  <1>. DEFINE m == Len(v)
              k == Len(w)
  <1>1. /\ v \o w \in Seq(R) /\ Len(v \o w) = m + k /\ m \in Nat /\ k \in Nat
        /\ DOMAIN v = 1..m /\ DOMAIN w = 1..k /\ DOMAIN (v \o w) = 1..(m + k)
    OBVIOUS
  <1>2. /\ \A i \in 1..m : (v \o w)[i] = v[i]
        /\ \A i \in 1..k : (v \o w)[i + m] = w[i]
    OBVIOUS
  <1>. HIDE DEF m, k
  <1>3. /\ \A i \in 1..m : i \in 1..(m + k)
        /\ \A i \in 1..k : i + m \in 1..(m + k)
        /\ \A i \in 1..(m + k) : i \in 1..m \/ \E j \in 1..k : i = j + m
    <2>1. \A i \in 1..(m + k) : i \in 1..m \/ (i - m \in 1..k /\ i = (i - m) + m)
      BY <1>1
    <2>. QED
      BY <1>1, <2>1
  <1>4. Elems(v \o w) = Elems(v) \cup Elems(w)
    <2>1. ASSUME NEW i \in 1..(m + k) PROVE (v \o w)[i] \in Elems(v) \cup Elems(w)
      BY <1>1, <1>2, <1>3, Zenon DEF Elems
    <2>2. ASSUME NEW i \in 1..m PROVE v[i] \in Elems(v \o w)
      BY <1>1, <1>2, <1>3, Zenon DEF Elems
    <2>3. ASSUME NEW i \in 1..k PROVE w[i] \in Elems(v \o w)
      BY <1>1, <1>2, <1>3, Zenon DEF Elems
    <2>. QED
      BY <1>1, <2>1, <2>2, <2>3, Zenon DEF Elems
  <1>5. ASSUME Differ(v), Differ(w), Elems(v) \cap Elems(w) = {} PROVE Differ(v \o w)
    <2>. SUFFICES ASSUME NEW i \in 1..(m + k), NEW j \in 1..(m + k), (v \o w)[i] = (v \o w)[j]
                  PROVE  i = j
      BY <1>1, Zenon DEF Differ
    <2>1. \A a \in 1..m, b \in 1..k : v[a] # w[b]
      BY <1>1, <1>5, Zenon DEF Elems
    <2>2. CASE i \in 1..m /\ j \in 1..m
      <3>1. v[i] = v[j]
        BY <1>2, <2>2, Zenon
      <3>. QED
        BY <1>1, <1>5, <2>2, <3>1, Zenon DEF Differ
    <2>3. ASSUME NEW a \in 1..k, NEW b \in 1..k, i = a + m, j = b + m PROVE i = j
      <3>1. w[a] = w[b]
        BY <1>2, <2>3, Zenon
      <3>. QED
        BY <1>1, <1>5, <2>3, <3>1, Zenon DEF Differ
    <2>4. ASSUME NEW a \in 1..m, NEW b \in 1..k PROVE (v \o w)[a] # (v \o w)[b + m]
      BY <1>2, <2>1, Zenon
    <2>. QED
      BY <1>3, <2>2, <2>3, <2>4, Zenon
  <1>6. ASSUME OnePerPeer(v), OnePerPeer(w), PeersOf(v) \cap PeersOf(w) = {}
        PROVE  OnePerPeer(v \o w)
    <2>. SUFFICES ASSUME NEW i \in 1..(m + k), NEW j \in 1..(m + k),
                         (v \o w)[i].peer = (v \o w)[j].peer
                  PROVE  i = j
      BY <1>1, Zenon DEF OnePerPeer
    <2>1. \A a \in 1..m, b \in 1..k : v[a].peer # w[b].peer
      BY <1>1, <1>6, Zenon DEF PeersOf, Elems
    <2>2. CASE i \in 1..m /\ j \in 1..m
      <3>1. v[i].peer = v[j].peer
        BY <1>2, <2>2, Zenon
      <3>. QED
        BY <1>1, <1>6, <2>2, <3>1, Zenon DEF OnePerPeer
    <2>3. ASSUME NEW a \in 1..k, NEW b \in 1..k, i = a + m, j = b + m PROVE i = j
      <3>1. w[a].peer = w[b].peer
        BY <1>2, <2>3, Zenon
      <3>. QED
        BY <1>1, <1>6, <2>3, <3>1, Zenon DEF OnePerPeer
    <2>4. ASSUME NEW a \in 1..m, NEW b \in 1..k PROVE (v \o w)[a].peer # (v \o w)[b + m].peer
      BY <1>2, <2>1, Zenon
    <2>. QED
      BY <1>3, <2>2, <2>3, <2>4, Zenon
  <1>. QED
    BY <1>1, <1>4, <1>5, <1>6, Zenon DEF m, k

\* A shuffled view has the same records.
LEMMA shuffledElems ==
    ASSUME NEW R, NEW v \in Seq(R), NEW w \in shuffled(v)
    PROVE  /\ Elems(w) = Elems(v)
           /\ Differ(v) => Differ(w)
           /\ OnePerPeer(v) => OnePerPeer(w)
  <1>1. Elems(v) = {v[i] : i \in 1..Len(v)}
    BY Lengths, Zenon DEF Elems
  <1>2. w \in Seq(R) /\ Picks(w, v, 1..Len(v))
    BY shuffledPicks, Zenon
  <1>3. 1..Len(v) \in SUBSET (1..Len(v))
    BY Zenon
  <1>4. /\ Elems(w) = {v[i] : i \in 1..Len(v)}
        /\ Differ(v) => Differ(w)
        /\ OnePerPeer(v) => OnePerPeer(w)
    BY <1>2, <1>3, Picked, Zenon
  <1>. QED
    BY <1>1, <1>4, Zenon

\* The push view is of the stored records, one for each peer.
LEMMA pushViewKeeps ==
    ASSUME NEW R, NEW recs \in Seq(R), NEW w \in pushView(recs)
    PROVE  /\ w \in Seq(R)
           /\ Elems(w) \subseteq Elems(recs)
           /\ OnePerPeer(recs) => OnePerPeer(w)
  <1>1. PICK v \in shuffled(recs) :
           \E y \in shuffled(head(v, Greater(Len(v) - Protect, 0))) : w = y \o tail(v, Protect)
    BY Zenon DEF pushView, sorted
  <1>. DEFINE m == Greater(Len(v) - Protect, 0)
              h == head(v, m)
              t == tail(v, Protect)
  <1>2. PICK y \in shuffled(h) : w = y \o t
    BY <1>1, Zenon
  <1>3. /\ v \in Seq(R) /\ Elems(v) = Elems(recs)
        /\ OnePerPeer(recs) => OnePerPeer(v)
    BY shuffledPicks, shuffledElems, Zenon
  <1>4. m = Len(v) - Lesser(Protect, Len(v)) /\ m \in Nat /\ Protect \in Nat
    <2>1. Len(v) \in Nat /\ Protect \in Nat
      BY <1>3, ConfigOK
    <2>2. /\ Greater(Len(v) - Protect, 0) = Len(v) - Lesser(Protect, Len(v))
          /\ Len(v) - Lesser(Protect, Len(v)) \in 0..Len(v)
      BY <2>1, Rest, Zenon
    <2>3. Len(v) - Lesser(Protect, Len(v)) \in Nat
      BY <2>1, <2>2
    <2>. QED
      BY <2>1, <2>2, <2>3, Zenon
  <1>. HIDE DEF m, h, t
  <1>5. h \in Seq(R) /\ t \in Seq(R)
    BY <1>3, <1>4, headKeeps, tailKeeps, Zenon DEF h, t
  <1>6. /\ y \in Seq(R) /\ Elems(y) = Elems(h)
        /\ OnePerPeer(h) => OnePerPeer(y)
    BY <1>5, shuffledPicks, shuffledElems, Zenon
  <1>7. Elems(h) \subseteq Elems(v) /\ Elems(t) \subseteq Elems(v)
    BY <1>3, <1>4, headElems, tailElems, Zenon DEF h, t
  <1>8. w \in Seq(R) /\ Elems(w) = Elems(y) \cup Elems(t)
    BY <1>2, <1>5, <1>6, Joined
  <1>9. ASSUME OnePerPeer(recs) PROVE OnePerPeer(w)
    <2>1. OnePerPeer(h) /\ OnePerPeer(t)
      BY <1>3, <1>4, <1>9, headElems, tailElems, Zenon DEF h, t
    <2>2. PeersOf(h) \cap PeersOf(t) = {}
      BY <1>3, <1>4, <1>9, Split, Zenon DEF h, t
    <2>3. PeersOf(y) = PeersOf(h)
      BY <1>6, Zenon DEF PeersOf
    <2>. QED
      BY <1>2, <1>5, <1>6, <2>1, <2>2, <2>3, Joined, Zenon
  <1>. QED
    BY <1>3, <1>6, <1>7, <1>8, <1>9, Zenon

\* Every nonempty set of numbers has a least one.
LEMMA Least ==
    ASSUME NEW T \in SUBSET Nat, T # {}
    PROVE  \E n \in T : \A m \in T : ~(m < n)
  <1>. DEFINE less == OpToRel(<, Nat)
  <1>1. IsWellFoundedOn(less, Nat)
    BY NatLessThanWellFounded, Zenon
  <1>. HIDE DEF less
  <1>2. PICK n \in T : \A m \in T : ~(<<m, n>> \in less)
    BY <1>1, WFMin, Zenon
  <1>3. \A m \in T : ~(m < n)
    <2>1. \A m \in T : m < n => <<m, n>> \in less
      BY Zenon DEF less, OpToRel
    <2>. QED
      BY <1>2, <2>1, Zenon
  <1>. QED
    BY <1>3, Zenon

\* find returns the record of the peer, if there is one.
LEMMA findHas ==
    ASSUME NEW R, NEW v \in Seq(R), NEW id \in PeersOf(v)
    PROVE  find(v, id) \in Elems(v) /\ find(v, id).peer = id
  <1>. DEFINE T == {i \in 1..Len(v) : v[i].peer = id}
  <1>1. DOMAIN v = 1..Len(v) /\ Len(v) \in Nat
    BY Lengths, Zenon
  <1>2. T # {} /\ T \in SUBSET Nat
    <2>1. \E i \in DOMAIN v : v[i].peer = id
      BY Zenon DEF PeersOf, Elems
    <2>. QED
      BY <1>1, <2>1
  <1>3. PICK n \in T : \A m \in T : ~(m < n)
    BY <1>2, Least, Zenon
  <1>4. \A j \in 1..(n - 1) : j \in 1..Len(v) /\ j < n
    <2>1. n \in 1..Len(v)
      BY Zenon
    <2>. QED
      BY <1>1, <2>1
  <1>5. \E i \in DOMAIN v : v[i].peer = id /\ \A j \in 1..(i - 1) : v[j].peer # id
    BY <1>1, <1>3, <1>4, Zenon
  <1>. QED
    BY <1>5, Zenon DEF find, Elems

\* If v has one record of each peer, find is the record.
LEMMA findIs ==
    ASSUME NEW R, NEW v \in Seq(R), OnePerPeer(v), NEW g \in Elems(v)
    PROVE  g.peer \in PeersOf(v) /\ find(v, g.peer) = g
  <1>1. g.peer \in PeersOf(v)
    BY Zenon DEF PeersOf
  <1>2. find(v, g.peer) \in Elems(v) /\ find(v, g.peer).peer = g.peer
    BY <1>1, findHas, Zenon
  <1>. QED
    BY <1>1, <1>2, Zenon DEF Elems, OnePerPeer

\* What dedupe keeps of v.
Kept(g, other, keepEqual) ==
    g.peer \in PeersOf(other) =>
        LET have == find(other, g.peer) IN
        \/ g.seq > have.seq
        \/ g.hop < have.hop
        \/ keepEqual /\ g.seq = have.seq /\ g.hop = have.hop

\* at, for the records of a view that are in a set.
Positions(v, G) == {i \in DOMAIN v : v[i] \in G}

\* Records picked by position are those asked for, and differ as before.
LEMMA atKeeps ==
    ASSUME NEW R, NEW v \in Seq(R), NEW G \in SUBSET Elems(v)
    PROVE  /\ at(v, Positions(v, G)) \in Seq(R)
           /\ Elems(at(v, Positions(v, G))) = G
           /\ Differ(v) => Differ(at(v, Positions(v, G)))
           /\ OnePerPeer(v) => OnePerPeer(at(v, Positions(v, G)))
           /\ G = Elems(v) => Len(at(v, Positions(v, G))) = Len(v)
  <1>. DEFINE I == Positions(v, G)
              w == at(v, I)
  <1>2. DOMAIN v = 1..Len(v) /\ Len(v) \in Nat
    BY Lengths, Zenon
  <1>3. I \in SUBSET (1..Len(v))
    BY <1>2, Zenon DEF Positions
  <1>4. {v[i] : i \in I} = G
    BY Zenon DEF Elems, Positions
  <1>5. G = Elems(v) => I = 1..Len(v)
    BY <1>2, Zenon DEF Elems, Positions
  <1>. HIDE DEF I
  <1>6. w \in Seq(R) /\ Picks(w, v, I)
    BY <1>3, atPicks, Zenon
  <1>. HIDE DEF w
  <1>7. /\ Elems(w) = {v[i] : i \in I}
        /\ Differ(v) => Differ(w)
        /\ OnePerPeer(v) => OnePerPeer(w)
    BY <1>3, <1>6, Picked, Zenon
  <1>8. Cardinality(1..Len(v)) = Len(v)
    BY <1>2, Count, Zenon
  <1>9. G = Elems(v) => Len(w) = Len(v)
    BY <1>5, <1>6, <1>8, Zenon DEF Picks
  <1>. QED
    BY <1>4, <1>6, <1>7, <1>9, Zenon DEF w, I

\* isNot keeps what is not of Self.
LEMMA isNotKeeps ==
    ASSUME NEW R, NEW v \in Seq(R)
    PROVE  /\ isNot(v) \in Seq(R)
           /\ Elems(isNot(v)) = {g \in Elems(v) : g.peer # Self}
           /\ Differ(v) => Differ(isNot(v))
  <1>. DEFINE G == {g \in Elems(v) : g.peer # Self}
  <1>1. {i \in DOMAIN v : v[i].peer # Self} = Positions(v, G)
    BY Zenon DEF Elems, Positions
  <1>2. isNot(v) = at(v, Positions(v, G))
    BY <1>1, Zenon DEF isNot
  <1>3. G \in SUBSET Elems(v)
    BY Zenon
  <1>. HIDE DEF G
  <1>4. /\ at(v, Positions(v, G)) \in Seq(R)
        /\ Elems(at(v, Positions(v, G))) = G
        /\ Differ(v) => Differ(at(v, Positions(v, G)))
    BY <1>3, atKeeps, Zenon
  <1>5. isNot(v) \in Seq(R) /\ Elems(isNot(v)) = G /\ (Differ(v) => Differ(isNot(v)))
    BY <1>2, <1>4, Zenon
  <1>. QED
    BY <1>5, Zenon DEF G

\* What the two calls of dedupe in merged keep.
KeptOf(v, w) == {g \in Elems(v) : Kept(g, w, TRUE)}
BetterOf(v, w) == {g \in Elems(v) : Kept(g, w, FALSE)}

\* dedupe returns exactly the records it is to keep, one per peer as before,
LEMMA dedupeKeeps ==
    ASSUME NEW R, NEW v \in Seq(R), NEW w
    PROVE  LET x == dedupe(v, w, TRUE) IN
           /\ x \in Seq(R)
           /\ Elems(x) = KeptOf(v, w)
           /\ OnePerPeer(v) => OnePerPeer(x)
           /\ KeptOf(v, w) = Elems(v) => Len(x) = Len(v)
  <1>. DEFINE x == dedupe(v, w, TRUE)
  <1>1. {i \in DOMAIN v : Kept(v[i], w, TRUE)} = Positions(v, KeptOf(v, w))
    BY Zenon DEF Elems, Positions, KeptOf
  <1>2. x = at(v, Positions(v, KeptOf(v, w)))
    <2>1. x = at(v, {i \in DOMAIN v : Kept(v[i], w, TRUE)})
      BY Zenon DEF dedupe, Kept
    <2>. QED
      BY <1>1, <2>1, Zenon
  <1>3. KeptOf(v, w) \in SUBSET Elems(v)
    BY Zenon DEF KeptOf
  <1>. DEFINE y == at(v, Positions(v, KeptOf(v, w)))
  <1>4. /\ y \in Seq(R)
        /\ Elems(y) = KeptOf(v, w)
        /\ OnePerPeer(v) => OnePerPeer(y)
        /\ KeptOf(v, w) = Elems(v) => Len(y) = Len(v)
    BY <1>3, atKeeps, Zenon
  <1>5. x = y
    BY <1>2, Zenon
  <1>. HIDE DEF x, y
  <1>. QED
    BY <1>4, <1>5, Zenon DEF x

\* also when it drops ties.
LEMMA dedupeStrictKeeps ==
    ASSUME NEW R, NEW v \in Seq(R), NEW w
    PROVE  LET x == dedupe(v, w, FALSE) IN
           /\ x \in Seq(R)
           /\ Elems(x) = BetterOf(v, w)
           /\ OnePerPeer(v) => OnePerPeer(x)
           /\ BetterOf(v, w) = Elems(v) => Len(x) = Len(v)
  <1>. DEFINE x == dedupe(v, w, FALSE)
  <1>1. {i \in DOMAIN v : Kept(v[i], w, FALSE)} = Positions(v, BetterOf(v, w))
    BY Zenon DEF Elems, Positions, BetterOf
  <1>2. x = at(v, Positions(v, BetterOf(v, w)))
    <2>1. x = at(v, {i \in DOMAIN v : Kept(v[i], w, FALSE)})
      BY Zenon DEF dedupe, Kept
    <2>. QED
      BY <1>1, <2>1, Zenon
  <1>3. BetterOf(v, w) \in SUBSET Elems(v)
    BY Zenon DEF BetterOf
  <1>. DEFINE y == at(v, Positions(v, BetterOf(v, w)))
  <1>4. /\ y \in Seq(R)
        /\ Elems(y) = BetterOf(v, w)
        /\ OnePerPeer(v) => OnePerPeer(y)
        /\ BetterOf(v, w) = Elems(v) => Len(y) = Len(v)
    BY <1>3, atKeeps, Zenon
  <1>5. x = y
    BY <1>2, Zenon
  <1>. HIDE DEF x, y
  <1>. QED
    BY <1>4, <1>5, Zenon DEF x

\* Each of two records has newer addresses, or fewer hops, than the other.
Beats(a, b) == a.seq > b.seq \/ a.hop < b.hop

\* Two records of one peer are kept when each beats the other.
Rivals(S) == \A a, b \in S : a.peer = b.peer => a = b \/ (Beats(a, b) /\ Beats(b, a))

Rec == [peer : Peers \cup {Self}, seq : Int, hop : Int]

\* Of the records of a peer in two views, the better or the rivals are kept.
LEMMA KeptRivals ==
    ASSUME NEW a \in Rec, NEW b \in Rec, Beats(b, a),
           a.seq > b.seq \/ a.hop < b.hop \/ (a.seq = b.seq /\ a.hop = b.hop)
    PROVE  Beats(a, b) /\ a # b
  BY DEF Beats, Rec

\* A record that the comparison with another does not keep is beaten by it.
LEMMA OneKept ==
    ASSUME NEW a \in Rec, NEW b \in Rec,
           ~(a.seq > b.seq \/ a.hop < b.hop \/ (a.seq = b.seq /\ a.hop = b.hop))
    PROVE  Beats(b, a)
  BY DEF Beats, Rec

\* What merged keeps of two views.
LEMMA mergedKeeps ==
    ASSUME NEW v \in Seq(Rec), NEW w \in Seq(Rec), OnePerPeer(v), OnePerPeer(w)
    PROVE  /\ merged(v, w) \in Seq(Rec)
           /\ Elems(merged(v, w)) \subseteq Elems(v) \cup Elems(w)
           /\ Differ(merged(v, w))
           /\ Rivals(Elems(merged(v, w)))
           /\ PeersOf(v) \subseteq PeersOf(merged(v, w))
  <1>. DEFINE A == dedupe(v, w, TRUE)
              B == dedupe(w, v, FALSE)
  <1>1. /\ A \in Seq(Rec) /\ OnePerPeer(A)
        /\ Elems(A) = KeptOf(v, w)
    BY dedupeKeeps, Zenon
  <1>2. /\ B \in Seq(Rec) /\ OnePerPeer(B)
        /\ Elems(B) = BetterOf(w, v)
    BY dedupeStrictKeeps, Zenon
  <1>3. merged(v, w) = A \o B
    BY Zenon DEF merged
  <1>4. Elems(v) \subseteq Rec /\ Elems(w) \subseteq Rec
    BY Lengths, Zenon
  <1>. HIDE DEF A, B
  <1>5. ASSUME NEW a \in Elems(A), NEW b \in Elems(B), a.peer = b.peer
        PROVE  Beats(a, b) /\ Beats(b, a) /\ a # b
    <2>1. b.peer \in PeersOf(w) /\ find(w, a.peer) = b
      BY <1>2, <1>5, findIs, Zenon DEF BetterOf
    <2>2. a.peer \in PeersOf(v) /\ find(v, b.peer) = a
      BY <1>1, <1>5, findIs, Zenon DEF KeptOf
    <2>3. Beats(b, a)
      BY <1>2, <1>5, <2>2, Zenon DEF BetterOf, Kept, Beats
    <2>4. a.seq > b.seq \/ a.hop < b.hop \/ (a.seq = b.seq /\ a.hop = b.hop)
      BY <1>1, <1>5, <2>1, Zenon DEF KeptOf, Kept
    <2>5. a \in Rec /\ b \in Rec
      BY <1>1, <1>2, <1>4, Zenon DEF KeptOf, BetterOf
    <2>. QED
      BY <2>3, <2>4, <2>5, KeptRivals, Zenon
  <1>6. ASSUME NEW S, NEW x \in Seq(S), OnePerPeer(x)
        PROVE  Differ(x) /\ \A a, b \in Elems(x) : a.peer = b.peer => a = b
    BY <1>6, Zenon DEF Differ, OnePerPeer, Elems
  <1>7. Differ(A \o B)
    <2>1. Elems(A) \cap Elems(B) = {}
      BY <1>5, Zenon
    <2>2. Differ(A) /\ Differ(B)
      BY <1>1, <1>2, <1>6, Zenon
    <2>. QED
      BY <1>1, <1>2, <2>1, <2>2, Joined
  <1>8. Elems(A \o B) = Elems(A) \cup Elems(B) /\ A \o B \in Seq(Rec)
    BY <1>1, <1>2, Joined
  <1>9. Rivals(Elems(A) \cup Elems(B))
    <2>. SUFFICES ASSUME NEW a \in Elems(A) \cup Elems(B), NEW b \in Elems(A) \cup Elems(B),
                         a.peer = b.peer, a # b
                  PROVE  Beats(a, b) /\ Beats(b, a)
      BY Zenon DEF Rivals
    <2>1. ~(a \in Elems(A) /\ b \in Elems(A))
      BY <1>1, <1>6, Zenon
    <2>2. ~(a \in Elems(B) /\ b \in Elems(B))
      BY <1>2, <1>6, Zenon
    <2>. QED
      BY <1>5, <2>1, <2>2, Zenon
  <1>10. ASSUME NEW g \in Elems(v) PROVE g.peer \in PeersOf(A \o B)
    <2>1. CASE Kept(g, w, TRUE)
      BY <1>1, <1>8, <2>1, Zenon DEF KeptOf, PeersOf
    <2>2. CASE ~Kept(g, w, TRUE)
      <3>. DEFINE h == find(w, g.peer)
      <3>1. /\ g.peer \in PeersOf(w)
            /\ ~(g.seq > h.seq \/ g.hop < h.hop \/ (g.seq = h.seq /\ g.hop = h.hop))
        BY <2>2, Zenon DEF Kept
      <3>2. h \in Elems(w) /\ h.peer = g.peer
        BY <3>1, findHas, Zenon
      <3>3. g \in Rec /\ h \in Rec
        BY <1>4, <3>2, Zenon
      <3>4. find(v, h.peer) = g
        BY <3>2, findIs, Zenon
      <3>. HIDE DEF h
      <3>5. Beats(h, g)
        BY <3>1, <3>3, OneKept, Zenon
      <3>6. Kept(h, v, FALSE)
        BY <3>4, <3>5, Zenon DEF Kept, Beats
      <3>7. h \in Elems(A \o B)
        BY <1>2, <1>8, <3>2, <3>6, Zenon DEF BetterOf
      <3>. QED
        BY <3>2, <3>7, Zenon DEF PeersOf
    <2>. QED
      BY <2>1, <2>2, Zenon
  <1>. QED
    BY <1>1, <1>2, <1>3, <1>7, <1>8, <1>9, <1>10, Zenon DEF PeersOf, KeptOf, BetterOf

\* Nothing is dropped of two views without a record in common, all of whose
\* records of one peer are rivals.
LEMMA mergedAll ==
    ASSUME NEW v \in Seq(Rec), NEW w \in Seq(Rec),
           Rivals(Elems(v) \cup Elems(w)), Elems(v) \cap Elems(w) = {}
    PROVE  /\ merged(v, w) \in Seq(Rec)
           /\ Len(merged(v, w)) = Len(v) + Len(w)
           /\ Elems(merged(v, w)) = Elems(v) \cup Elems(w)
  <1>. DEFINE A == dedupe(v, w, TRUE)
              B == dedupe(w, v, FALSE)
  <1>1. ASSUME NEW g \in Elems(v) PROVE Kept(g, w, TRUE)
    <2>1. g.peer \in PeersOf(w) =>
             find(w, g.peer) \in Elems(w) /\ find(w, g.peer).peer = g.peer
      BY findHas, Zenon
    <2>2. g.peer \in PeersOf(w) => Beats(g, find(w, g.peer))
      BY <2>1, Zenon DEF Rivals
    <2>. QED
      BY <2>2, Zenon DEF Kept, Beats
  <1>2. ASSUME NEW g \in Elems(w) PROVE Kept(g, v, FALSE)
    <2>1. g.peer \in PeersOf(v) =>
             find(v, g.peer) \in Elems(v) /\ find(v, g.peer).peer = g.peer
      BY findHas, Zenon
    <2>2. g.peer \in PeersOf(v) => Beats(g, find(v, g.peer))
      BY <2>1, Zenon DEF Rivals
    <2>. QED
      BY <2>2, Zenon DEF Kept, Beats
  <1>3. A \in Seq(Rec) /\ Len(A) = Len(v) /\ Elems(A) = Elems(v)
    <2>1. KeptOf(v, w) = Elems(v)
      BY <1>1, Zenon DEF KeptOf
    <2>. QED
      BY <2>1, dedupeKeeps, Zenon
  <1>4. B \in Seq(Rec) /\ Len(B) = Len(w) /\ Elems(B) = Elems(w)
    <2>1. BetterOf(w, v) = Elems(w)
      BY <1>2, Zenon DEF BetterOf
    <2>. QED
      BY <2>1, dedupeStrictKeeps, Zenon
  <1>5. merged(v, w) = A \o B
    BY Zenon DEF merged
  <1>. HIDE DEF A, B
  <1>6. A \in Seq(Rec) /\ B \in Seq(Rec)
    BY <1>3, <1>4, Zenon
  <1>7. /\ A \o B \in Seq(Rec) /\ Len(A \o B) = Len(A) + Len(B)
        /\ Elems(A \o B) = Elems(A) \cup Elems(B)
    BY <1>6, Joined
  <1>. QED
    BY <1>3, <1>4, <1>5, <1>7, Zenon

\* The candidates of a round: the records that merged keeps, but for Self.
LEMMA candidatesAre ==
    ASSUME NEW v \in Seq(Rec), NEW w \in Seq(Rec), OnePerPeer(v), OnePerPeer(w)
    PROVE  /\ candidates(v, w) \in Seq(Rec)
           /\ Differ(candidates(v, w))
           /\ Rivals(Elems(candidates(v, w)))
           /\ Elems(candidates(v, w)) \subseteq
                 {g \in Elems(v) \cup Elems(w) : g.peer # Self}
           /\ PeersOf(v) \ {Self} \subseteq PeersOf(candidates(v, w))
  <1>. DEFINE m == merged(v, w)
              all == isNot(m)
  <1>1. /\ m \in Seq(Rec) /\ Differ(m) /\ Rivals(Elems(m))
        /\ Elems(m) \subseteq Elems(v) \cup Elems(w)
        /\ PeersOf(v) \subseteq PeersOf(m)
    BY mergedKeeps, Zenon
  <1>2. candidates(v, w) = all
    BY Zenon DEF candidates
  <1>. HIDE DEF m
  <1>3. all \in Seq(Rec) /\ Differ(all) /\ Elems(all) = {g \in Elems(m) : g.peer # Self}
    BY <1>1, isNotKeeps, Zenon
  <1>. HIDE DEF all
  <1>4. Rivals(Elems(all))
    BY <1>1, <1>3, Zenon DEF Rivals
  <1>5. PeersOf(v) \ {Self} \subseteq PeersOf(all)
    BY <1>1, <1>3, Zenon DEF PeersOf
  <1>. QED
    BY <1>1, <1>2, <1>3, <1>4, <1>5, Zenon

\* Of l candidates, how many stay, are protected, and may decay.
stay(l) == l - Lesser(Swap, Greater(l - MaxView, 0))
protected(l) == Lesser(Lesser(Protect, MaxView), stay(l))
mayDecay(l) == Lesser(protected(l), Greater(stay(l) - MaxView, 0))

\* No more may decay than is protected.
LEMMA DecayRange ==
    ASSUME NEW l \in Nat
    PROVE  0 \in 0..mayDecay(l) /\ mayDecay(l) \in 0..protected(l)
  <1>1. Lesser(Swap, Greater(l - MaxView, 0)) \in 0..l
    BY ConfigOK DEF Lesser, Greater
  <1>2. stay(l) \in Nat
    BY <1>1 DEF stay
  <1>3. Lesser(Protect, MaxView) \in Nat
    BY ConfigOK, Zenon DEF Lesser
  <1>4. protected(l) \in Nat
    BY <1>2, <1>3, Zenon DEF protected, Lesser
  <1>5. Greater(stay(l) - MaxView, 0) \in Nat
    BY <1>2, ConfigOK DEF Greater
  <1>. QED
    BY <1>4, <1>5 DEF mayDecay, Lesser

\* A merged view is filled from the candidates that stay, after the protected
\* ones that do not decay.
LEMMA Fill ==
    ASSUME NEW l \in Nat, NEW d \in 0..mayDecay(l)
    PROVE  LET n == stay(l)
               r == protected(l)
           IN
           /\ n \in 0..l /\ r \in 0..n /\ d \in 0..r
           /\ MaxView - (r - d) \in Nat
           /\ Lesser(MaxView - (r - d), n - r) + (r - d) = Lesser(l, MaxView)
           /\ l <= MaxView => /\ n = l /\ d = 0
                              /\ n - r <= MaxView - (r - d)
  <1>. USE ConfigOK
  <1>. DEFINE s == Lesser(Swap, Greater(l - MaxView, 0))
              n == stay(l)
              r == protected(l)
  <1>0. /\ n = l - s /\ r = Lesser(Lesser(Protect, MaxView), n)
        /\ d \in 0..Lesser(r, Greater(n - MaxView, 0))
    BY Zenon DEF stay, protected, mayDecay
  <1>. HIDE DEF n, r
  <1>1. CASE l <= MaxView
    <2>1. s = 0 /\ n = l
      BY <1>0, <1>1 DEF Lesser, Greater
    <2>2. r \in 0..n /\ r <= MaxView
      BY <1>0, <2>1 DEF Lesser
    <2>3. d = 0
      BY <1>0, <1>1, <2>1, <2>2 DEF Lesser, Greater
    <2>. QED
      BY <1>1, <2>1, <2>2, <2>3 DEF Lesser, n, r
  <1>2. CASE ~(l <= MaxView)
    <2>1. s \in 0..(l - MaxView)
      BY <1>2 DEF Lesser, Greater
    <2>2. n \in MaxView..l
      BY <1>0, <1>2, <2>1
    <2>3. r \in 0..n /\ r <= MaxView
      BY <1>0, <2>2 DEF Lesser
    <2>4. d \in 0..r /\ d <= n - MaxView
      BY <1>0, <2>2, <2>3 DEF Lesser, Greater
    <2>5. MaxView - (r - d) <= n - r
      BY <2>2, <2>3, <2>4
    <2>. QED
      BY <1>2, <2>2, <2>3, <2>4, <2>5 DEF Lesser, n, r
  <1>. QED
    BY <1>1, <1>2, Zenon

\* A view whose records differ has as many as it is long.
LEMMA ElemsCount ==
    ASSUME NEW R, NEW v \in Seq(R), Differ(v)
    PROVE  IsFiniteSet(Elems(v)) /\ Cardinality(Elems(v)) = Len(v)
  <1>1. DOMAIN v = 1..Len(v) /\ Len(v) \in Nat
    BY Lengths, Zenon
  <1>2. IsFiniteSet(1..Len(v)) /\ Cardinality(1..Len(v)) = Len(v)
    BY <1>1, Count, Zenon
  <1>3. v \in [1..Len(v) -> Elems(v)]
    BY <1>1 DEF Elems
  <1>4. v \in Bijection(1..Len(v), Elems(v))
    BY <1>1, <1>3, Zenon DEF Bijection, Injection, Surjection, IsInjective, Differ, Elems
  <1>. QED
    BY <1>2, <1>4, FS_Bijection, Zenon DEF ExistsBijection

\* head takes the whole of a view that is no longer than n,
LEMMA headAll ==
    ASSUME NEW R, NEW v \in Seq(R), NEW n \in Nat, Len(v) <= n
    PROVE  Len(head(v, n)) = Len(v) /\ Elems(head(v, n)) = Elems(v)
  <1>1. Lesser(n, Len(v)) = Len(v)
    BY DEF Lesser
  <1>2. head(v, n) \in Seq(R) /\ Len(head(v, n)) = Len(v)
    BY <1>1, headKeeps, Zenon
  <1>3. DOMAIN head(v, n) = 1..Len(v) /\ DOMAIN v = 1..Len(v)
    BY <1>2
  <1>4. \A i \in 1..Len(v) : head(v, n)[i] = v[i]
    BY <1>2, headKeeps, Zenon
  <1>. QED
    BY <1>2, <1>3, <1>4, Zenon DEF Elems

\* and tail the whole of it when asked for its length.
LEMMA tailAll ==
    ASSUME NEW R, NEW v \in Seq(R)
    PROVE  Elems(tail(v, Len(v))) = Elems(v)
  <1>1. Len(v) \in Nat /\ Lesser(Len(v), Len(v)) = Len(v)
    BY DEF Lesser
  <1>2. 0 = Len(v) - Lesser(Len(v), Len(v))
    BY <1>1
  <1>3. Elems(v) = Elems(head(v, 0)) \cup Elems(tail(v, Len(v)))
    BY <1>1, <1>2, Split
  <1>4. Lesser(0, Len(v)) = 0
    BY <1>1 DEF Lesser
  <1>5. head(v, 0) \in Seq(R) /\ Len(head(v, 0)) = 0
    BY <1>4, headKeeps, Zenon
  <1>6. Elems(head(v, 0)) = {}
    BY <1>5 DEF Elems
  <1>. QED
    BY <1>3, <1>6, Zenon

\* incrHops touches only the hops.
LEMMA incrHopsKeeps ==
    ASSUME NEW v \in Seq(Rec)
    PROVE  /\ incrHops(v) \in Seq(Rec)
           /\ Len(incrHops(v)) = Len(v)
           /\ Elems(incrHops(v)) = {[g EXCEPT !.hop = @ + 1] : g \in Elems(v)}
           /\ PeersOf(incrHops(v)) = PeersOf(v)
  <1>1. DOMAIN v = 1..Len(v) /\ Len(v) \in Nat /\ \A i \in 1..Len(v) : v[i] \in Rec
    BY Lengths
  <1>2. \A g \in Rec : [g EXCEPT !.hop = @ + 1] \in Rec /\ [g EXCEPT !.hop = @ + 1].peer = g.peer
    BY DEF Rec
  <1>3. incrHops(v) = [i \in 1..Len(v) |-> [v[i] EXCEPT !.hop = @ + 1]]
    BY <1>1, Zenon DEF incrHops
  <1>4. incrHops(v) \in Seq(Rec) /\ Len(incrHops(v)) = Len(v)
    BY <1>1, <1>2, <1>3
  <1>5. Elems(incrHops(v)) = {[g EXCEPT !.hop = @ + 1] : g \in Elems(v)}
    <2>1. DOMAIN incrHops(v) = DOMAIN v
      BY <1>1, <1>3, Zenon
    <2>2. \A i \in DOMAIN v : incrHops(v)[i] = [v[i] EXCEPT !.hop = @ + 1]
      BY <1>1, <1>3, Zenon
    <2>3. ASSUME NEW i \in DOMAIN v
          PROVE  incrHops(v)[i] \in {[g EXCEPT !.hop = @ + 1] : g \in Elems(v)}
      <3>1. v[i] \in Elems(v)
        BY Zenon DEF Elems
      <3>. QED
        BY <2>2, <3>1, Zenon
    <2>4. ASSUME NEW g \in Elems(v) PROVE [g EXCEPT !.hop = @ + 1] \in Elems(incrHops(v))
      <3>1. PICK i \in DOMAIN v : g = v[i]
        BY Zenon DEF Elems
      <3>2. incrHops(v)[i] \in Elems(incrHops(v))
        BY <2>1, Zenon DEF Elems
      <3>. QED
        BY <2>2, <3>1, <3>2, Zenon
    <2>5. ASSUME NEW h \in Elems(incrHops(v)) PROVE \E i \in DOMAIN v : h = incrHops(v)[i]
      BY <2>1, Zenon DEF Elems
    <2>6. ASSUME NEW h \in Elems(incrHops(v))
          PROVE  h \in {[g EXCEPT !.hop = @ + 1] : g \in Elems(v)}
      <3>1. PICK i \in DOMAIN v : h = incrHops(v)[i]
        BY <2>5, Zenon
      <3>2. incrHops(v)[i] \in {[g EXCEPT !.hop = @ + 1] : g \in Elems(v)}
        BY <2>3, Zenon
      <3>. QED
        BY <3>1, <3>2, Zenon
    <2>7. ASSUME NEW h \in {[g EXCEPT !.hop = @ + 1] : g \in Elems(v)}
          PROVE  h \in Elems(incrHops(v))
      <3>1. PICK g \in Elems(v) : h = [g EXCEPT !.hop = @ + 1]
        BY Zenon
      <3>2. [g EXCEPT !.hop = @ + 1] \in Elems(incrHops(v))
        BY <2>4, Zenon
      <3>. QED
        BY <3>1, <3>2, Zenon
    <2>. QED
      BY <2>6, <2>7, Zenon
  <1>6. Elems(v) \subseteq Rec
    BY Lengths, Zenon
  <1>7. PeersOf(incrHops(v)) = PeersOf(v)
    <2>1. ASSUME NEW g \in Elems(v) PROVE g.peer \in PeersOf(incrHops(v))
      <3>1. [g EXCEPT !.hop = @ + 1] \in Elems(incrHops(v))
        BY <1>5, Zenon
      <3>. QED
        BY <1>2, <1>6, <3>1, Zenon DEF PeersOf
    <2>2. ASSUME NEW h \in Elems(incrHops(v)) PROVE h.peer \in PeersOf(v)
      <3>1. PICK g \in Elems(v) : h = [g EXCEPT !.hop = @ + 1]
        BY <1>5, Zenon
      <3>. QED
        BY <1>2, <1>6, <3>1, Zenon DEF PeersOf
    <2>. QED
      BY <2>1, <2>2, Zenon DEF PeersOf
  <1>. QED
    BY <1>4, <1>5, <1>7, Zenon

\* How a merged view comes about.
LEMMA mergeSteps ==
    ASSUME NEW v, NEW w, NEW x \in merge(v, w)
    PROVE  LET all == candidates(v, w)
               n == stay(Len(all))
               r == protected(Len(all))
           IN \E t \in shuffled(tail(all, n)) :
              \E oldest \in decay(tail(t, r), mayDecay(Len(all))) :
              \E y \in orders(Elems(head(t, n - r))) :
                 x = incrHops(merged(head(y, MaxView - Len(oldest)), oldest))
  <1>. DEFINE all == candidates(v, w)
              n == stay(Len(all))
              r == protected(Len(all))
              e == mayDecay(Len(all))
              splits == {<<Elems(head(t, n - r)), tail(t, r)>> : t \in sorted(tail(all, n))}
  <1>1. x \in UNION {UNION {{incrHops(merged(head(y, MaxView - Len(oldest)), oldest)) :
                                y \in orders(split[1])} :
                            oldest \in decay(split[2], e)} :
                     split \in splits}
    BY Zenon DEF merge, stay, protected, mayDecay
  <1>. HIDE DEF all, n, r, e
  <1>2. PICK split \in splits : \E oldest \in decay(split[2], e) :
           \E y \in orders(split[1]) :
              x = incrHops(merged(head(y, MaxView - Len(oldest)), oldest))
    <2>. HIDE DEF splits
    <2>1. PICK split \in splits :
             x \in UNION {{incrHops(merged(head(y, MaxView - Len(oldest)), oldest)) :
                              y \in orders(split[1])} :
                          oldest \in decay(split[2], e)}
      BY <1>1, Zenon
    <2>2. PICK oldest \in decay(split[2], e) :
             x \in {incrHops(merged(head(y, MaxView - Len(oldest)), oldest)) :
                       y \in orders(split[1])}
      BY <2>1, Zenon
    <2>3. \E y \in orders(split[1]) :
             x = incrHops(merged(head(y, MaxView - Len(oldest)), oldest))
      BY <2>2, Zenon
    <2>. QED
      BY <2>3, Zenon
  <1>3. PICK t \in sorted(tail(all, n)) : split = <<Elems(head(t, n - r)), tail(t, r)>>
    BY Zenon
  <1>4. split[1] = Elems(head(t, n - r)) /\ split[2] = tail(t, r)
    BY <1>3, Zenon
  <1>5. t \in shuffled(tail(all, n))
    BY Zenon DEF sorted
  <1>6. \E oldest \in decay(tail(t, r), e) : \E y \in orders(Elems(head(t, n - r))) :
           x = incrHops(merged(head(y, MaxView - Len(oldest)), oldest))
    BY <1>2, <1>4
  <1>. QED
    BY <1>5, <1>6, Zenon DEF all, n, r, e

\* A merged view is as long as MaxView and the candidates allow, has only
\* candidates, a hop older, and all of them if there is room.
LEMMA mergeKeeps ==
    ASSUME NEW v \in Seq(Rec), NEW w \in Seq(Rec), OnePerPeer(v), OnePerPeer(w),
           NEW x \in merge(v, w)
    PROVE  LET all == candidates(v, w) IN
           /\ x \in Seq(Rec)
           /\ Len(x) = Lesser(Len(all), MaxView)
           /\ \A g \in Elems(x) : \E h \in Elems(all) : g = [h EXCEPT !.hop = @ + 1]
           /\ Len(all) <= MaxView => PeersOf(x) = PeersOf(all)
  <1>. DEFINE all == candidates(v, w)
              l == Len(all)
              n == stay(l)
              r == protected(l)
  <1>1. /\ all \in Seq(Rec) /\ Differ(all) /\ Rivals(Elems(all))
    BY candidatesAre, Zenon
  <1>2. PICK t \in shuffled(tail(all, n)) :
           \E oldest \in decay(tail(t, r), mayDecay(l)) : \E y \in orders(Elems(head(t, n - r))) :
              x = incrHops(merged(head(y, MaxView - Len(oldest)), oldest))
    BY mergeSteps, ZenonT(40)
  <1>. HIDE DEF all
  <1>. DEFINE H == head(t, n - r)
              T == tail(t, r)
  <1>3. PICK oldest \in decay(T, mayDecay(l)), y \in orders(Elems(H)) :
           x = incrHops(merged(head(y, MaxView - Len(oldest)), oldest))
    BY <1>2, Zenon
  <1>4. l \in Nat
    BY <1>1
  <1>5. 0 \in 0..mayDecay(l) /\ mayDecay(l) \in 0..protected(l)
    BY <1>4, DecayRange, Zenon
  <1>6. n \in 0..l /\ r \in 0..n
    BY <1>4, <1>5, Fill, Zenon
  <1>. HIDE DEF l
  <1>7. /\ tail(all, n) \in Seq(Rec) /\ Len(tail(all, n)) = n
        /\ Differ(tail(all, n)) /\ Elems(tail(all, n)) \subseteq Elems(all)
    <2>1. Lesser(n, l) = n /\ n \in Nat
      BY <1>4, <1>6 DEF Lesser
    <2>. QED
      BY <1>1, <2>1, tailKeeps, tailElems, Zenon DEF l
  <1>8. /\ t \in Seq(Rec) /\ Len(t) = n /\ Differ(t) /\ Elems(t) = Elems(tail(all, n))
    BY <1>7, shuffledPicks, shuffledElems
  <1>9. /\ H \in Seq(Rec) /\ Len(H) = n - r /\ Differ(H) /\ T \in Seq(Rec) /\ Len(T) = r
        /\ Elems(t) = Elems(H) \cup Elems(T) /\ Elems(H) \cap Elems(T) = {}
    <2>1. /\ Lesser(n - r, n) = n - r /\ n - r \in Nat /\ r \in Nat
          /\ Lesser(r, n) = r
      BY <1>4, <1>6 DEF Lesser
    <2>2. n - r = Len(t) - Lesser(r, Len(t))
      BY <1>8, <2>1
    <2>3. H \in Seq(Rec) /\ Len(H) = n - r
      BY <1>8, <2>1, headKeeps, Zenon
    <2>4. T \in Seq(Rec) /\ Len(T) = r
      BY <1>8, <2>1, tailKeeps, Zenon
    <2>5. Differ(H)
      BY <1>8, <2>1, headElems
    <2>6. /\ Elems(t) = Elems(H) \cup Elems(T)
          /\ Differ(t) => Elems(H) \cap Elems(T) = {}
      <3>. DEFINE m == n - r
      <3>1. m = Len(t) - Lesser(r, Len(t)) /\ H = head(t, m)
        BY <2>2, Zenon
      <3>2. t \in Seq(Rec) /\ r \in Nat
        BY <1>8, <2>1
      <3>. HIDE DEF m, H, n, r
      <3>. QED
        BY <3>1, <3>2, Split, Zenon
    <2>. QED
      BY <1>8, <2>3, <2>4, <2>5, <2>6, Zenon
  <1>. HIDE DEF H, T
  <1>10. y \in Seq(Rec) /\ Len(y) = n - r /\ Elems(y) = Elems(H)
    <2>1. IsFiniteSet(Elems(H)) /\ Cardinality(Elems(H)) = n - r /\ Elems(H) \subseteq Rec
      BY <1>9, ElemsCount, Lengths, Zenon
    <2>2. y \in Seq(Elems(H)) /\ Len(y) = Cardinality(Elems(H)) /\ Elems(y) = Elems(H)
      BY <2>1, ordersHave, Zenon
    <2>. QED
      BY <2>1, <2>2
  <1>11. PICK d \in 0..mayDecay(l) : oldest = head(T, r - d)
    <2>1. Lesser(mayDecay(l), Len(T)) = mayDecay(l)
      BY <1>5, <1>6, <1>9 DEF Lesser
    <2>2. PICK d \in 0..mayDecay(l) : oldest = head(T, Len(T) - d)
      BY <2>1, Zenon DEF decay
    <2>. QED
      BY <1>9, <2>2, Zenon
  <1>12. /\ d \in 0..r /\ MaxView - (r - d) \in Nat
         /\ Lesser(MaxView - (r - d), n - r) + (r - d) = Lesser(l, MaxView)
         /\ l <= MaxView => n = l /\ d = 0 /\ n - r <= MaxView - (r - d)
    BY <1>4, <1>11, Fill, Zenon
  <1>13. oldest \in Seq(Rec) /\ Len(oldest) = r - d /\ Elems(oldest) \subseteq Elems(T)
    <2>1. r - d \in Nat /\ Lesser(r - d, r) = r - d
      BY <1>4, <1>6, <1>12 DEF Lesser
    <2>. QED
      BY <1>9, <1>11, <2>1, headKeeps, headElems, Zenon
  <1>. DEFINE A == head(y, MaxView - (r - d))
  <1>14. /\ A \in Seq(Rec) /\ Len(A) = Lesser(MaxView - (r - d), n - r)
         /\ Elems(A) \subseteq Elems(H)
    BY <1>10, <1>12, headKeeps, headElems, Zenon
  <1>15. x = incrHops(merged(A, oldest))
    BY <1>3, <1>13, Zenon
  <1>16. Elems(A) \cup Elems(oldest) \subseteq Elems(all) /\ Elems(A) \cap Elems(oldest) = {}
    BY <1>7, <1>8, <1>9, <1>13, <1>14, Zenon
  <1>. DEFINE m == merged(A, oldest)
  <1>17. /\ m \in Seq(Rec) /\ Len(m) = Len(A) + Len(oldest)
         /\ Elems(m) = Elems(A) \cup Elems(oldest)
    <2>1. Rivals(Elems(A) \cup Elems(oldest))
      BY <1>1, <1>16, Zenon DEF Rivals
    <2>. HIDE DEF A
    <2>. QED
      BY <1>13, <1>14, <1>16, <2>1, mergedAll, Zenon
  <1>. HIDE DEF m
  <1>18. /\ x \in Seq(Rec) /\ Len(x) = Len(m) /\ PeersOf(x) = PeersOf(m)
         /\ Elems(x) = {[g EXCEPT !.hop = @ + 1] : g \in Elems(m)}
    BY <1>15, <1>17, incrHopsKeeps DEF m
  <1>19. ASSUME l <= MaxView PROVE PeersOf(m) = PeersOf(all)
    <2>1. Elems(A) = Elems(y)
      BY <1>10, <1>12, <1>19, headAll, Zenon
    <2>2. Elems(oldest) = Elems(T)
      <3>1. oldest = head(T, r) /\ r \in Nat /\ Len(T) <= r
        BY <1>6, <1>4, <1>9, <1>11, <1>12, <1>19
      <3>. QED
        BY <1>9, <3>1, headAll
    <2>3. Elems(tail(all, n)) = Elems(all)
      BY <1>1, <1>12, <1>19, tailAll, Zenon DEF l
    <2>. QED
      BY <1>8, <1>9, <1>10, <1>17, <2>1, <2>2, <2>3, Zenon DEF PeersOf
  <1>20. Len(x) = Lesser(l, MaxView)
    BY <1>12, <1>13, <1>14, <1>17, <1>18, Zenon
  <1>21. \A g \in Elems(x) : \E h \in Elems(all) : g = [h EXCEPT !.hop = @ + 1]
    BY <1>16, <1>17, <1>18, Zenon
  <1>. QED
    BY <1>18, <1>19, <1>20, <1>21, Zenon DEF l, all
-----------------------------------------------------------------------------
(***************************************************************************)
(* Rounds.                                                                 *)
(***************************************************************************)

\* Records that a round may merge: one more hop and they may be stored.
Sound == {g \in [peer : Peers, seq : 0..MaxSeq, hop : 0..(MaxHop - 1)] : g.seq <= seq[g.peer]}

\* What a round has loaded: stored records, with the peer's own in place of
\* one of them once it is pushed.
LocalOK ==
    \A r \in Rounds :
        /\ local[r] \in Seq(Rec) /\ OnePerPeer(local[r])
        /\ Elems(local[r]) \subseteq (Known \cap Sound) \cup {own}
        /\ rpc[r] = "pushpull" => Elems(local[r]) \subseteq Known \cap Sound

\* What it has pulled.
RemoteOK ==
    \A r \in Rounds :
        /\ remote[r] \in Seq(Rec) /\ OnePerPeer(remote[r])
        /\ \A g \in Elems(remote[r]) : g.peer # Self => g \in Sound

\* What is stored, and where the rounds are.
StoreOK ==
    /\ seq \in [Peers -> 0..MaxSeq]
    /\ DOMAIN store = Peers \cup {Self}
    /\ \A p \in Peers : store[p] # None => store[p] \in Known /\ store[p].peer = p
    /\ store[Self] = None
    /\ rpc \in [Rounds -> {"idle", "pushpull", "merge"}]
    /\ DOMAIN local = Rounds /\ DOMAIN remote = Rounds

\* The inductive invariant.
IInv == StoreOK /\ LocalOK /\ RemoteOK

\* The invariant has the types.
LEMMA Typed == IInv => TypeOK
  <1>. SUFFICES ASSUME IInv PROVE TypeOK
    BY Zenon
  <1>1. ASSUME NEW r \in Rounds
        PROVE  /\ Elems(local[r]) \subseteq Known \cup {own}
               /\ PeersOf(remote[r]) \subseteq Peers \cup {Self}
    <2>1. remote[r] \in Seq(Rec)
      BY Zenon DEF IInv, RemoteOK
    <2>2. Elems(remote[r]) \subseteq Rec
      BY <2>1, Lengths, Zenon
    <2>3. \A g \in Rec : g.peer \in Peers \cup {Self}
      BY Zenon DEF Rec
    <2>4. PeersOf(remote[r]) \subseteq Peers \cup {Self}
      BY <2>2, <2>3, Zenon DEF PeersOf
    <2>5. Elems(local[r]) \subseteq (Known \cap Sound) \cup {own}
      BY Zenon DEF IInv, LocalOK
    <2>. QED
      BY <2>4, <2>5, Zenon
  <1>. QED
    BY <1>1, Zenon DEF IInv, StoreOK, TypeOK

\* An empty view.
LEMMA Empty ==
    <<>> \in Seq(Rec) /\ OnePerPeer(<<>>) /\ Elems(<<>>) = {}
  BY DEF OnePerPeer, Elems

\* It holds at the start.
LEMMA InitInv == Init => IInv
  <1>. SUFFICES ASSUME Init PROVE IInv
    BY Zenon
  <1>. USE ConfigOK, GossipOK
  <1>1. /\ DOMAIN local = Rounds /\ DOMAIN remote = Rounds
        /\ \A r \in Rounds : local[r] = <<>> /\ remote[r] = <<>>
        /\ rpc \in [Rounds -> {"idle", "pushpull", "merge"}]
    BY Zenon DEF Init
  <1>2. LocalOK /\ RemoteOK
    BY <1>1, Empty, Zenon DEF LocalOK, RemoteOK
  <1>3. seq \in [Peers -> 0..MaxSeq] /\ \A p \in Peers : seq[p] = 0
    BY DEF Init
  <1>4. PICK P \in SUBSET Peers, h \in [Peers -> 1..(MaxHop - 1)] :
           store = [p \in Peers \cup {Self} |->
                       IF p \in P THEN [peer |-> p, seq |-> 0, hop |-> h[p]] ELSE None]
    BY Zenon DEF Init
  <1>5. DOMAIN store = Peers \cup {Self} /\ store[Self] = None
    BY <1>4, Zenon
  <1>6. ASSUME NEW p \in Peers, store[p] # None
        PROVE  store[p] \in Known /\ store[p].peer = p
    <2>1. store[p] = [peer |-> p, seq |-> 0, hop |-> h[p]]
      BY <1>4, <1>6, Zenon
    <2>2. h[p] \in 1..MaxHop
      BY <1>4
    <2>. QED
      BY <1>3, <2>1, <2>2 DEF Known
  <1>. QED
    BY <1>1, <1>2, <1>3, <1>5, <1>6, Zenon DEF IInv, StoreOK

\* New addresses make no record unsound.
LEMMA ReaddressKeeps ==
    ASSUME IInv, NEW p \in Peers, Readdress(p)
    PROVE  IInv'
  <1>1. seq \in [Peers -> 0..MaxSeq]
    BY Zenon DEF IInv, StoreOK
  <1>2. /\ seq' \in [Peers -> 0..MaxSeq]
        /\ \A q \in Peers : seq[q] <= seq'[q]
    BY <1>1, GossipOK DEF Readdress
  <1>3. Known \subseteq Known' /\ Sound \subseteq Sound'
    <2>1. \A s \in 0..MaxSeq, q \in Peers : s <= seq[q] => s <= seq'[q]
      BY <1>1, <1>2, GossipOK
    <2>2. \A g \in [peer : Peers, seq : 0..MaxSeq, hop : 1..MaxHop] :
             g.peer \in Peers /\ g.seq \in 0..MaxSeq
      BY Zenon
    <2>3. \A g \in [peer : Peers, seq : 0..MaxSeq, hop : 0..(MaxHop - 1)] :
             g.peer \in Peers /\ g.seq \in 0..MaxSeq
      BY Zenon
    <2>. QED
      BY <2>1, <2>2, <2>3, Zenon DEF Known, Sound
  <1>4. UNCHANGED <<store, rpc, local, remote>>
    BY Zenon DEF Readdress
  <1>5. StoreOK'
    BY <1>2, <1>3, <1>4, Zenon DEF IInv, StoreOK
  <1>6. LocalOK'
    BY <1>3, <1>4, Zenon DEF IInv, LocalOK, own
  <1>7. RemoteOK'
    BY <1>3, <1>4, Zenon DEF IInv, RemoteOK
  <1>. QED
    BY <1>5, <1>6, <1>7, Zenon DEF IInv

\* A round that ends leaves no views.
LEMMA EndKeeps ==
    ASSUME IInv, NEW r \in Rounds,
           rpc' = [rpc EXCEPT ![r] = "idle"],
           local' = [local EXCEPT ![r] = <<>>],
           remote' = [remote EXCEPT ![r] = <<>>],
           UNCHANGED seq
    PROVE  LocalOK' /\ RemoteOK'
  <1>1. Known' = Known /\ Sound' = Sound
    BY Zenon DEF Known, Sound
  <1>2. /\ \A q \in Rounds : local'[q] = (IF q = r THEN <<>> ELSE local[q])
        /\ \A q \in Rounds : remote'[q] = (IF q = r THEN <<>> ELSE remote[q])
        /\ \A q \in Rounds : rpc'[q] = "pushpull" => rpc[q] = "pushpull" /\ q # r
    BY Zenon DEF IInv, StoreOK
  <1>3. LocalOK'
    BY <1>1, <1>2, Empty, Zenon DEF IInv, LocalOK, own
  <1>4. RemoteOK'
    BY <1>1, <1>2, Empty, Zenon DEF IInv, RemoteOK
  <1>. QED
    BY <1>3, <1>4, Zenon

\* A round fails.
LEMMA FailKeeps ==
    ASSUME IInv, NEW r \in Rounds, Fail(r)
    PROVE  IInv'
  <1>1. LocalOK' /\ RemoteOK'
    BY EndKeeps, Zenon DEF Fail
  <1>2. Known' = Known
    BY Zenon DEF Known, Fail
  <1>3. /\ rpc' \in [Rounds -> {"idle", "pushpull", "merge"}]
        /\ DOMAIN local' = Rounds /\ DOMAIN remote' = Rounds
    BY Zenon DEF IInv, StoreOK, Fail
  <1>4. StoreOK'
    BY <1>2, <1>3, Zenon DEF IInv, StoreOK, Fail
  <1>. QED
    BY <1>1, <1>4, Zenon DEF IInv

\* The stored view has one record of each peer, and all may be merged.
LEMMA LoadViewHas ==
    ASSUME IInv, \A p \in Stored : store[p].hop < MaxHop
    PROVE  /\ LoadView \in Seq(Rec)
           /\ OnePerPeer(LoadView)
           /\ Elems(LoadView) \subseteq Known \cap Sound
  <1>. DEFINE S == {store[p] : p \in Stored}
              f == [p \in Stored |-> store[p]]
  <1>1. /\ Stored \subseteq Peers
        /\ \A p \in Stored : store[p] \in Known /\ store[p].peer = p
    BY Zenon DEF IInv, StoreOK, Stored
  <1>2. IsFiniteSet(Stored)
    BY <1>1, GossipOK, FS_Subset
  <1>3. f \in Surjection(Stored, S)
    BY Zenon DEF Surjection
  <1>4. IsFiniteSet(S)
    <2>. HIDE DEF f, S
    <2>. QED
      BY <1>2, <1>3, FS_Surjection, Zenon
  <1>5. LoadView = CHOOSE v \in orders(S) : TRUE
    BY Zenon DEF LoadView
  <1>6. \A g \in S : g \in Known /\ g.hop < MaxHop
    BY <1>1, Zenon
  <1>7. S \subseteq Known \cap Sound
    <2>1. ASSUME NEW g \in Known, g.hop < MaxHop PROVE g \in Sound
      BY <2>1, GossipOK DEF Known, Sound
    <2>. HIDE DEF S
    <2>. QED
      BY <1>6, <2>1, Zenon
  <1>8. S \subseteq Rec
    <2>1. Known \subseteq Rec
      BY GossipOK DEF Known, Rec
    <2>. HIDE DEF S
    <2>. QED
      BY <1>7, <2>1, Zenon
  <1>9. ASSUME NEW g \in S, NEW h \in S, g.peer = h.peer PROVE g = h
    <2>1. PICK p \in Stored : g = store[p]
      BY Zenon
    <2>2. PICK q \in Stored : h = store[q]
      BY Zenon
    <2>3. p = q
      BY <1>1, <1>9, <2>1, <2>2, Zenon
    <2>. QED
      BY <2>1, <2>2, <2>3, Zenon
  <1>. HIDE DEF S, f
  <1>10. LoadView \in orders(S)
    <2>1. orders(S) # {}
      BY <1>4, FS_CardinalityType, Zenon DEF orders, ExistsBijection, Bijection
    <2>. QED
      BY <1>5, <2>1, Zenon
  <1>11. /\ LoadView \in Seq(S) /\ Elems(LoadView) = S /\ Differ(LoadView)
    BY <1>4, <1>10, ordersHave, Zenon
  <1>12. LoadView \in Seq(Rec)
    <2>1. ASSUME NEW v \in Seq(S) PROVE v \in Seq(Rec)
      BY <1>8
    <2>. QED
      BY <1>11, <2>1, Zenon
  <1>13. OnePerPeer(LoadView)
    <2>1. \A i \in DOMAIN LoadView : LoadView[i] \in S
      BY <1>11, Zenon DEF Elems
    <2>. QED
      BY <1>9, <1>11, <2>1, Zenon DEF OnePerPeer, Differ
  <1>. QED
    BY <1>7, <1>11, <1>12, <1>13, Zenon

\* A round loads its view.
LEMMA prepareKeeps ==
    ASSUME IInv, NEW r \in Rounds, prepare(r)
    PROVE  IInv'
  <1>1. PICK v \in pushView(LoadView) : local' = [local EXCEPT ![r] = v]
    BY Zenon DEF prepare
  <1>2. /\ LoadView \in Seq(Rec) /\ OnePerPeer(LoadView)
        /\ Elems(LoadView) \subseteq Known \cap Sound
    BY LoadViewHas, Zenon DEF prepare
  <1>3. v \in Seq(Rec) /\ OnePerPeer(v) /\ Elems(v) \subseteq Known \cap Sound
    <2>1. /\ v \in Seq(Rec) /\ Elems(v) \subseteq Elems(LoadView)
          /\ OnePerPeer(LoadView) => OnePerPeer(v)
      BY <1>2, pushViewKeeps, Zenon
    <2>. QED
      BY <1>2, <2>1, Zenon
  <1>4. Known' = Known /\ Sound' = Sound
    BY Zenon DEF Known, Sound, prepare
  <1>5. /\ rpc' \in [Rounds -> {"idle", "pushpull", "merge"}]
        /\ DOMAIN local' = Rounds /\ DOMAIN remote' = Rounds
    BY <1>1 DEF IInv, StoreOK, prepare
  <1>6. StoreOK'
    BY <1>4, <1>5, Zenon DEF IInv, StoreOK, prepare
  <1>7. /\ local'[r] = v
        /\ \A q \in Rounds \ {r} : local'[q] = local[q] /\ rpc'[q] = rpc[q]
    BY <1>1, Zenon DEF IInv, StoreOK, prepare
  <1>8. LocalOK'
    BY <1>3, <1>4, <1>7, Zenon DEF IInv, LocalOK, own
  <1>9. RemoteOK'
    BY <1>4, Zenon DEF IInv, RemoteOK, prepare
  <1>. QED
    BY <1>6, <1>8, <1>9, Zenon DEF IInv

\* A view with one record per peer has as many peers as records.
LEMMA PeersCount ==
    ASSUME NEW k \in Nat, NEW w, DOMAIN w = 1..k
    PROVE  Cardinality(PeersOf(w)) = k <=> OnePerPeer(w)
  <1>. DEFINE f == [i \in 1..k |-> w[i].peer]
  <1>1. f \in Surjection(1..k, PeersOf(w))
    BY Zenon DEF Surjection, PeersOf, Elems
  <1>2. f \in Injection(1..k, PeersOf(w)) <=> OnePerPeer(w)
    BY <1>1, Zenon DEF Surjection, Injection, IsInjective, OnePerPeer
  <1>3. IsFiniteSet(1..k) /\ Cardinality(1..k) = k
    BY FS_Interval
  <1>. HIDE DEF f
  <1>4. Cardinality(PeersOf(w)) = Cardinality(1..k) <=> f \in Injection(1..k, PeersOf(w))
    BY <1>1, <1>3, FS_Surjection
  <1>. QED
    BY <1>2, <1>3, <1>4, Zenon

\* A record of one more peer.
LEMMA AppendKeeps ==
    ASSUME NEW w \in Seq(Rec), OnePerPeer(w), NEW g \in Rec,
           \A h \in Elems(w) : h.peer # g.peer
    PROVE  /\ Append(w, g) \in Seq(Rec) /\ OnePerPeer(Append(w, g))
           /\ Elems(Append(w, g)) = Elems(w) \cup {g}
  <1>. DEFINE v == Append(w, g)
  <1>1. /\ v \in Seq(Rec) /\ DOMAIN v = DOMAIN w \cup {Len(w) + 1}
        /\ Len(w) + 1 \notin DOMAIN w
        /\ v[Len(w) + 1] = g /\ \A i \in DOMAIN w : v[i] = w[i]
    <2>1. Len(w) \in Nat /\ DOMAIN w = 1..Len(w)
      BY Lengths, Zenon
    <2>2. v \in Seq(Rec) /\ Len(v) = Len(w) + 1
      OBVIOUS
    <2>3. v[Len(w) + 1] = g /\ \A i \in 1..Len(w) : v[i] = w[i]
      OBVIOUS
    <2>4. 1..(Len(w) + 1) = 1..Len(w) \cup {Len(w) + 1} /\ Len(w) + 1 \notin 1..Len(w)
      BY <2>1
    <2>5. DOMAIN v = 1..(Len(w) + 1)
      BY <2>2, Lengths, Zenon
    <2>. QED
      BY <2>1, <2>2, <2>3, <2>4, <2>5, Zenon
  <1>. HIDE DEF v
  <1>2. Elems(v) = Elems(w) \cup {g}
    <2>1. \A h : h \in Elems(v) <=> \E i \in DOMAIN v : v[i] = h
      BY Zenon DEF Elems
    <2>2. \A h : h \in Elems(w) <=> \E i \in DOMAIN w : w[i] = h
      BY Zenon DEF Elems
    <2>3. ASSUME NEW h \in Elems(v) PROVE h \in Elems(w) \cup {g}
      BY <1>1, <2>1, <2>2
    <2>4. ASSUME NEW h \in Elems(w) PROVE h \in Elems(v)
      BY <1>1, <2>1, <2>2
    <2>5. g \in Elems(v)
      BY <1>1, <2>1, Zenon
    <2>. QED
      BY <2>3, <2>4, <2>5, Zenon
  <1>3. OnePerPeer(v)
    BY <1>1, ZenonT(30) DEF OnePerPeer, Elems
  <1>. QED
    BY <1>1, <1>2, <1>3, Zenon DEF v

\* What a peer pushes, none of it twice, and of others than Self only what
\* may be merged.
LEMMA PushesAre ==
    ASSUME IInv, NEW p \in Peers, NEW v \in Pushes(p)
    PROVE  /\ v \in Seq(Rec) /\ OnePerPeer(v)
           /\ \A g \in Elems(v) : g.peer # Self => g \in Sound
  <1>. USE ConfigOK, GossipOK
  <1>. DEFINE Selves == [peer : {Self}, seq : {0}, hop : 1..(MaxHop - 1)]
              Theirs == {g \in Known : g.peer # p /\ g.hop < MaxHop}
              Others == Selves \cup Theirs
              last == [peer |-> p, seq |-> seq[p], hop |-> 0]
  <1>1. PICK k \in 0..MaxPush : \E w \in [1..k -> Others] :
            Cardinality(PeersOf(w)) = k /\ v = Append(w, last)
    BY Zenon DEF Pushes
  <1>2. PICK w \in [1..k -> Others] : Cardinality(PeersOf(w)) = k /\ v = Append(w, last)
    BY <1>1, Zenon
  <1>3. seq \in [Peers -> 0..MaxSeq]
    BY Zenon DEF IInv, StoreOK
  <1>4. last \in Rec /\ last \in Sound /\ last.peer = p
    BY <1>3 DEF Rec, Sound
  <1>5. /\ Theirs \subseteq Rec /\ Theirs \subseteq Sound
        /\ \A g \in Theirs : g.peer # p
    BY DEF Rec, Known, Sound
  <1>6. Selves \subseteq Rec /\ \A g \in Selves : g.peer = Self
    BY DEF Rec
  <1>. HIDE DEF Selves, Theirs, last
  <1>7. /\ Others \subseteq Rec
        /\ \A g \in Others : g.peer # p /\ (g.peer # Self => g \in Sound)
    BY <1>5, <1>6, Zenon
  <1>. HIDE DEF Others
  <1>8. k \in Nat /\ DOMAIN w = 1..k /\ w \in Seq(Rec) /\ Elems(w) \subseteq Others
    <2>1. k \in Nat /\ DOMAIN w = 1..k
      OBVIOUS
    <2>2. w \in Seq(Rec)
      BY <2>1, <1>7
    <2>. QED
      BY <2>1, <2>2, Zenon DEF Elems
  <1>9. OnePerPeer(w)
    BY <1>2, <1>8, PeersCount, Zenon
  <1>10. \A g \in Elems(w) : g.peer # last.peer
    BY <1>4, <1>7, <1>8, Zenon
  <1>11. /\ Append(w, last) \in Seq(Rec) /\ OnePerPeer(Append(w, last))
         /\ Elems(Append(w, last)) = Elems(w) \cup {last}
    BY <1>4, <1>8, <1>9, <1>10, AppendKeeps, Zenon
  <1>. QED
    BY <1>2, <1>4, <1>7, <1>8, <1>11, Zenon

\* push may write the local record over another one.
LEMMA afterPushKeeps ==
    ASSUME NEW K, NEW v \in Seq(Rec), OnePerPeer(v), Elems(v) \subseteq K,
           \A g \in K : g.peer # Self
    PROVE  /\ afterPush(v) \in Seq(Rec) /\ OnePerPeer(afterPush(v))
           /\ Elems(afterPush(v)) \subseteq K \cup {own}
  <1>1. CASE pushCount < Len(v)
    <2>. DEFINE x == [v EXCEPT ![pushCount + 1] = own]
                c == pushCount + 1
    <2>1. afterPush(v) = x
      BY <1>1, Zenon DEF afterPush
    <2>2. own \in Rec /\ own.peer = Self
      BY DEF own, Rec
    <2>3. DOMAIN x = DOMAIN v /\ \A i \in DOMAIN v : x[i] = IF i = c THEN own ELSE v[i]
      BY Zenon
    <2>. HIDE DEF x, c
    <2>4. x \in Seq(Rec)
      <3>1. Len(v) \in Nat /\ DOMAIN v = 1..Len(v)
        BY Lengths, Zenon
      <3>2. \A i \in 1..Len(v) : v[i] \in Rec
        OBVIOUS
      <3>3. x = [i \in 1..Len(v) |-> x[i]]
        BY <2>3, <3>1, Zenon DEF x
      <3>4. \A i \in 1..Len(v) : x[i] \in Rec
        BY <2>2, <2>3, <3>1, <3>2, Zenon
      <3>5. x \in [1..Len(v) -> Rec]
        BY <3>3, <3>4, Zenon
      <3>. QED
        BY <3>1, <3>5
    <2>5. \A i \in DOMAIN v : v[i] \in K /\ v[i].peer # Self
      BY Zenon DEF Elems
    <2>6. OnePerPeer(x)
      BY <2>2, <2>3, <2>5, Zenon DEF OnePerPeer
    <2>7. Elems(x) \subseteq K \cup {own}
      BY <2>3, <2>5, Zenon DEF Elems
    <2>. QED
      BY <2>1, <2>4, <2>6, <2>7, Zenon
  <1>2. CASE ~(pushCount < Len(v))
    BY <1>2, Zenon DEF afterPush
  <1>. QED
    BY <1>1, <1>2

\* It pushes its own, and pulls the other's.
LEMMA pushpullKeeps ==
    ASSUME IInv, NEW r \in Rounds, NEW p \in Peers, pushpull(r, p)
    PROVE  IInv'
  <1>1. PICK v \in Pushes(p) : remote' = [remote EXCEPT ![r] = v]
    BY Zenon DEF pushpull
  <1>2. /\ v \in Seq(Rec) /\ OnePerPeer(v)
        /\ \A g \in Elems(v) : g.peer # Self => g \in Sound
    BY PushesAre, Zenon
  <1>3. Known' = Known /\ Sound' = Sound
    BY Zenon DEF Known, Sound, pushpull
  <1>4. /\ rpc' \in [Rounds -> {"idle", "pushpull", "merge"}]
        /\ DOMAIN local' = Rounds /\ DOMAIN remote' = Rounds
    BY <1>1, Zenon DEF IInv, StoreOK, pushpull
  <1>5. StoreOK'
    BY <1>3, <1>4, Zenon DEF IInv, StoreOK, pushpull
  <1>6. /\ local'[r] = afterPush(local[r]) /\ rpc'[r] = "merge"
        /\ \A q \in Rounds \ {r} : local'[q] = local[q] /\ rpc'[q] = rpc[q]
    BY Zenon DEF IInv, StoreOK, pushpull
  <1>7. /\ local[r] \in Seq(Rec) /\ OnePerPeer(local[r])
        /\ Elems(local[r]) \subseteq Known \cap Sound
    BY Zenon DEF IInv, LocalOK, pushpull
  <1>8. \A g \in Known \cap Sound : g.peer # Self
    BY ConfigOK, Zenon DEF Known
  <1>9. /\ afterPush(local[r]) \in Seq(Rec) /\ OnePerPeer(afterPush(local[r]))
        /\ Elems(afterPush(local[r])) \subseteq (Known \cap Sound) \cup {own}
    BY <1>7, <1>8, afterPushKeeps, Zenon
  <1>10. LocalOK'
    BY <1>3, <1>6, <1>9, Zenon DEF IInv, LocalOK, own
  <1>11. remote'[r] = v /\ \A q \in Rounds \ {r} : remote'[q] = remote[q]
    BY <1>1, Zenon DEF IInv, StoreOK
  <1>12. RemoteOK'
    BY <1>2, <1>3, <1>11, Zenon DEF IInv, RemoteOK
  <1>. QED
    BY <1>5, <1>10, <1>12, Zenon DEF IInv

\* The last record of a peer.
LEMMA LastOf ==
    ASSUME NEW R, NEW v \in Seq(R), NEW id \in PeersOf(v)
    PROVE  \E i \in DOMAIN v :
              v[i].peer = id /\ \A j \in (i + 1)..Len(v) : v[j].peer # id
  <1>. DEFINE T == {n \in Nat : \E i \in DOMAIN v : v[i].peer = id /\ n = Len(v) - i}
  <1>1. DOMAIN v = 1..Len(v) /\ Len(v) \in Nat
    BY Lengths, Zenon
  <1>2. PICK k \in DOMAIN v : v[k].peer = id
    BY Zenon DEF PeersOf, Elems
  <1>3. Len(v) - k \in T
    BY <1>1, <1>2
  <1>4. T \in SUBSET Nat /\ T # {}
    BY <1>3, Zenon
  <1>. HIDE DEF T
  <1>5. PICK n \in T : \A m \in T : ~(m < n)
    BY <1>4, Least, Zenon
  <1>6. PICK i \in DOMAIN v : v[i].peer = id /\ n = Len(v) - i
    BY <1>5, Zenon DEF T
  <1>7. ASSUME NEW j \in (i + 1)..Len(v), v[j].peer = id PROVE FALSE
    <2>1. i \in 1..Len(v) /\ j \in 1..Len(v) /\ Len(v) - j \in Nat /\ Len(v) - j < n
      BY <1>1, <1>6
    <2>2. Len(v) - j \in T
      BY <1>1, <1>7, <2>1, Zenon DEF T
    <2>. QED
      BY <1>5, <2>1, <2>2, Zenon
  <1>. QED
    BY <1>6, <1>7, Zenon

\* What is stored of a peer in the new view is one of its records there.
LEMMA StoreRecordsHas ==
    ASSUME NEW R, NEW x \in Seq(R), NEW old, NEW p \in DOMAIN store, p \in PeersOf(x)
    PROVE  /\ StoreRecords(old, x)[p] \in Elems(x)
           /\ StoreRecords(old, x)[p].peer = p
  <1>. DEFINE last(i) == x[i].peer = p /\ \A j \in (i + 1)..Len(x) : x[j].peer # p
              c == CHOOSE i \in DOMAIN x : last(i)
  <1>1. StoreRecords(old, x)[p] = x[c]
    BY Zenon DEF StoreRecords
  <1>2. \E i \in DOMAIN x : last(i)
    BY LastOf
  <1>. HIDE DEF last
  <1>3. c \in DOMAIN x /\ last(c)
    BY <1>2, Zenon
  <1>4. x[c].peer = p
    BY <1>3, Zenon DEF last
  <1>. HIDE DEF c
  <1>. QED
    BY <1>1, <1>3, <1>4, Zenon DEF Elems

\* What a round merges may be stored.
LEMMA mergeSound ==
    ASSUME IInv, NEW r \in Rounds, NEW x \in merge(local[r], remote[r])
    PROVE  x \in Seq(Rec) /\ Elems(x) \subseteq Known
  <1>. DEFINE all == candidates(local[r], remote[r])
  <1>1. /\ local[r] \in Seq(Rec) /\ OnePerPeer(local[r])
        /\ remote[r] \in Seq(Rec) /\ OnePerPeer(remote[r])
    BY Zenon DEF IInv, LocalOK, RemoteOK
  <1>2. /\ x \in Seq(Rec)
        /\ \A g \in Elems(x) : \E h \in Elems(all) : g = [h EXCEPT !.hop = @ + 1]
    BY <1>1, mergeKeeps
  <1>3. Elems(all) \subseteq {g \in Elems(local[r]) \cup Elems(remote[r]) : g.peer # Self}
    BY <1>1, candidatesAre, Zenon
  <1>4. Elems(all) \subseteq Sound
    <2>1. own.peer = Self
      BY Zenon DEF own
    <2>2. /\ Elems(local[r]) \subseteq (Known \cap Sound) \cup {own}
          /\ \A g \in Elems(remote[r]) : g.peer # Self => g \in Sound
      BY Zenon DEF IInv, LocalOK, RemoteOK
    <2>. QED
      BY <1>3, <2>1, <2>2, Zenon
  <1>5. ASSUME NEW h \in Sound PROVE [h EXCEPT !.hop = @ + 1] \in Known
    <2>1. /\ h \in [peer : Peers, seq : 0..MaxSeq, hop : 0..(MaxHop - 1)]
          /\ h.seq <= seq[h.peer]
      BY DEF Sound
    <2>2. h.hop + 1 \in 1..MaxHop
      BY <2>1, GossipOK
    <2>. QED
      BY <2>1, <2>2, Zenon DEF Known
  <1>. QED
    BY <1>2, <1>4, <1>5, Zenon

\* It stores what the merge leaves.
LEMMA mergeAndStoreKeeps ==
    ASSUME IInv, NEW r \in Rounds, mergeAndStore(r)
    PROVE  IInv'
  <1>1. PICK x \in merge(local[r], remote[r]) : store' = StoreRecords(local[r], x)
    BY Zenon DEF mergeAndStore
  <1>2. x \in Seq(Rec) /\ Elems(x) \subseteq Known
    BY mergeSound, Zenon
  <1>3. LocalOK' /\ RemoteOK'
    BY EndKeeps, Zenon DEF mergeAndStore
  <1>4. Known' = Known
    BY Zenon DEF Known, mergeAndStore
  <1>5. /\ rpc' \in [Rounds -> {"idle", "pushpull", "merge"}]
        /\ DOMAIN local' = Rounds /\ DOMAIN remote' = Rounds
    BY Zenon DEF IInv, StoreOK, mergeAndStore
  <1>6. DOMAIN store = Peers \cup {Self} /\ DOMAIN store' = Peers \cup {Self}
    BY <1>1, Zenon DEF IInv, StoreOK, StoreRecords
  <1>7. \A p \in DOMAIN store : p \notin PeersOf(x) =>
            store'[p] = None \/ store'[p] = store[p]
    BY <1>1, Zenon DEF StoreRecords
  <1>8. \A p \in DOMAIN store : p \in PeersOf(x) =>
            store'[p] \in Elems(x) /\ store'[p].peer = p
    BY <1>1, <1>2, StoreRecordsHas, Zenon
  <1>9. \A p \in Peers : store'[p] # None => store'[p] \in Known /\ store'[p].peer = p
    BY <1>2, <1>6, <1>7, <1>8, Zenon DEF IInv, StoreOK
  <1>10. store'[Self] = None
    <2>1. \A g \in Known : g.peer # Self
      BY ConfigOK, Zenon DEF Known
    <2>2. Self \notin PeersOf(x)
      BY <1>2, <2>1, Zenon DEF PeersOf
    <2>. QED
      BY <1>6, <1>7, <2>2, Zenon DEF IInv, StoreOK
  <1>11. StoreOK'
    BY <1>4, <1>5, <1>6, <1>9, <1>10, Zenon DEF IInv, StoreOK, mergeAndStore
  <1>. QED
    BY <1>3, <1>11, Zenon DEF IInv

\* Nothing happens.
LEMMA StutterKeeps ==
    ASSUME IInv, UNCHANGED vars
    PROVE  IInv'
  <1>1. Known' = Known /\ Sound' = Sound
    BY Zenon DEF Known, Sound, vars
  <1>2. StoreOK'
    BY <1>1, Zenon DEF IInv, StoreOK, vars
  <1>3. LocalOK'
    BY <1>1, Zenon DEF IInv, LocalOK, own, vars
  <1>4. RemoteOK'
    BY <1>1, Zenon DEF IInv, RemoteOK, vars
  <1>. QED
    BY <1>2, <1>3, <1>4, Zenon DEF IInv

(***************************************************************************)
(* Whatever rounds run side by side in runGossipRound, what each has       *)
(* loaded and pulled has one record per peer, none newer than the peer's   *)
(* addresses or too old to be merged, and what is stored is under the key  *)
(* of its peer.                                                            *)
(***************************************************************************)
THEOREM InvHolds == Spec => []IInv
  <1>1. IInv /\ [Next]_vars => IInv'
    <2>. SUFFICES ASSUME IInv, [Next]_vars PROVE IInv'
      OBVIOUS
    <2>1. ASSUME NEW p \in Peers, Readdress(p) PROVE IInv'
      BY <2>1, ReaddressKeeps, Zenon
    <2>2. ASSUME NEW r \in Rounds, prepare(r) PROVE IInv'
      BY <2>2, prepareKeeps, Zenon
    <2>3. ASSUME NEW r \in Rounds, NEW p \in Peers, pushpull(r, p) PROVE IInv'
      BY <2>3, pushpullKeeps
    <2>4. ASSUME NEW r \in Rounds, Fail(r) PROVE IInv'
      BY <2>4, FailKeeps, Zenon
    <2>5. ASSUME NEW r \in Rounds, mergeAndStore(r) PROVE IInv'
      BY <2>5, mergeAndStoreKeeps, Zenon
    <2>6. CASE UNCHANGED vars
      BY <2>6, StutterKeeps
    <2>. QED
      BY <2>1, <2>2, <2>3, <2>4, <2>5, <2>6, Zenon DEF Next
  <1>. QED
    BY InitInv, <1>1, PTL DEF Spec

(***************************************************************************)
(* The store never holds the local peer's record, and prepare never pushes *)
(* a second one.                                                           *)
(***************************************************************************)
THEOREM GossipInvHolds == Spec => []GossipInv
  <1>1. IInv => GossipInv
    <2>. SUFFICES ASSUME IInv PROVE GossipInv
      OBVIOUS
    <2>1. ASSUME NEW r \in Rounds, rpc[r] = "pushpull" PROVE Self \notin PeersOf(local[r])
      <3>1. Elems(local[r]) \subseteq Known
        BY <2>1, Zenon DEF IInv, LocalOK
      <3>2. \A g \in Known : g.peer # Self
        BY ConfigOK DEF Known
      <3>. QED
        BY <3>1, <3>2, Zenon DEF PeersOf
    <2>. QED
      BY <2>1, Typed, Zenon DEF GossipInv
  <1>. QED
    BY <1>1, InvHolds, PTL

(***************************************************************************)
(* What push sends, of however many records, passes View.Validate and      *)
(* holds no peer twice.                                                    *)
(***************************************************************************)
THEOREM PushesValid == Spec => []PushValid
  <1>1. IInv => PushValid
    <2>. SUFFICES ASSUME IInv, NEW r \in Rounds, rpc[r] = "pushpull",
                         NEW n \in pushCount..Len(local[r])
                  PROVE  /\ Validate(pushed(local[r], n))
                         /\ Cardinality(PeersOf(pushed(local[r], n))) = Len(pushed(local[r], n))
      BY Zenon DEF PushValid
    <2>. DEFINE h == head(local[r], n)
                v == Append(h, own)
    <2>1. /\ local[r] \in Seq(Rec) /\ OnePerPeer(local[r])
          /\ Elems(local[r]) \subseteq Known
      BY Zenon DEF IInv, LocalOK
    <2>2. n \in Nat
      <3>1. pushCount \in Nat
        BY ConfigOK DEF pushCount
      <3>2. Len(local[r]) \in Nat
        BY <2>1, Lengths, Zenon
      <3>. QED
        BY <3>1, <3>2
    <2>3. h \in Seq(Rec) /\ OnePerPeer(h) /\ Elems(h) \subseteq Known
      <3>1. h \in Seq(Rec)
        BY <2>1, <2>2, headKeeps, Zenon
      <3>2. /\ Elems(h) \subseteq Elems(local[r])
            /\ OnePerPeer(local[r]) => OnePerPeer(h)
        BY <2>1, <2>2, headElems
      <3>. QED
        BY <2>1, <3>1, <3>2, Zenon
    <2>4. \A g \in Known : g.peer # Self /\ g.hop > 0
      BY ConfigOK, GossipOK DEF Known
    <2>5. own \in Rec /\ own.peer = Self /\ own.hop = 0
      BY DEF own, Rec
    <2>. HIDE DEF h
    <2>6. v \in Seq(Rec) /\ OnePerPeer(v)
      <3>1. \A g \in Elems(h) : g.peer # own.peer
        BY <2>3, <2>4, <2>5, Zenon
      <3>. QED
        BY <2>3, <2>5, <3>1, AppendKeeps, Zenon
    <2>7. Len(v) \in Nat /\ DOMAIN v = 1..Len(v)
      BY <2>6, Lengths, Zenon
    <2>8. Cardinality(PeersOf(v)) = Len(v)
      <3>. HIDE DEF v
      <3>. QED
        BY <2>6, <2>7, PeersCount, Zenon
    <2>9. Validate(v)
      <3>1. Len(h) \in Nat /\ DOMAIN h = 1..Len(h)
        BY <2>3, Lengths, Zenon
      <3>2. Len(v) = Len(h) + 1 /\ v[Len(h) + 1] = own /\ \A i \in 1..Len(h) : v[i] = h[i]
        BY <2>3
      <3>3. \A i \in 1..Len(h) : h[i].hop > 0
        BY <2>3, <2>4, <3>1, Zenon DEF Elems
      <3>. HIDE DEF v
      <3>4. v # <<>> /\ Len(v) - 1 = Len(h) /\ v[Len(v)] = own
        BY <3>1, <3>2
      <3>. QED
        BY <2>5, <3>2, <3>3, <3>4, Zenon DEF Validate
    <2>10. pushed(local[r], n) = v
      BY Zenon DEF pushed, h
    <2>. QED
      BY <2>8, <2>9, <2>10, Zenon
  <1>. QED
    BY <1>1, InvHolds, PTL

(***************************************************************************)
(* merge fills the view: whatever Swap, Protect and MaxView are, it keeps  *)
(* as many records as there are, up to MaxView.                            *)
(***************************************************************************)
THEOREM MergesFill == Spec => []MergeFills
  <1>1. IInv => MergeFills
    <2>. SUFFICES ASSUME IInv, NEW r \in Rounds, NEW v \in merge(local[r], remote[r])
                  PROVE  Len(v) = Lesser(Len(candidates(local[r], remote[r])), MaxView)
      BY Zenon DEF MergeFills
    <2>1. /\ local[r] \in Seq(Rec) /\ OnePerPeer(local[r])
          /\ remote[r] \in Seq(Rec) /\ OnePerPeer(remote[r])
      BY Zenon DEF IInv, LocalOK, RemoteOK
    <2>. QED
      BY <2>1, mergeKeeps, Zenon
  <1>. QED
    BY <1>1, InvHolds, PTL

\* A round deletes a peer only when it has too many.
LEMMA mergeAndStoreEvicts ==
    ASSUME IInv, NEW r \in Rounds, mergeAndStore(r),
           NEW p \in Peers, store[p] # None, store'[p] = None
    PROVE  Len(candidates(local[r], remote[r])) > MaxView
  <1>. DEFINE all == candidates(local[r], remote[r])
  <1>1. PICK x \in merge(local[r], remote[r]) : store' = StoreRecords(local[r], x)
    BY Zenon DEF mergeAndStore
  <1>2. x \in Seq(Rec) /\ Elems(x) \subseteq Known
    BY mergeSound, Zenon
  <1>3. p \in DOMAIN store
    BY Zenon DEF IInv, StoreOK
  <1>4. None \notin Known
    BY GossipOK DEF Known
  <1>5. p \notin PeersOf(x)
    BY <1>1, <1>2, <1>3, <1>4, StoreRecordsHas, Zenon
  <1>6. p \in PeersOf(local[r])
    BY <1>1, <1>3, <1>5, Zenon DEF StoreRecords, diff
  <1>7. /\ local[r] \in Seq(Rec) /\ OnePerPeer(local[r])
        /\ remote[r] \in Seq(Rec) /\ OnePerPeer(remote[r])
    BY Zenon DEF IInv, LocalOK, RemoteOK
  <1>8. p \in PeersOf(all)
    BY <1>6, <1>7, candidatesAre, ConfigOK, Zenon
  <1>9. Len(all) <= MaxView => PeersOf(x) = PeersOf(all)
    BY <1>7, mergeKeeps, Zenon
  <1>10. Len(all) \in Nat
    <2>1. all \in Seq(Rec)
      BY <1>7, candidatesAre, Zenon
    <2>. QED
      BY <2>1, Lengths, Zenon
  <1>. HIDE DEF all
  <1>11. ~(Len(all) <= MaxView)
    BY <1>5, <1>8, <1>9, Zenon
  <1>12. Len(all) > MaxView
    BY <1>10, <1>11, ConfigOK
  <1>. QED
    BY <1>12, Zenon DEF all

(***************************************************************************)
(* A peer leaves the store (StoreRecords deletes its key) only in a round  *)
(* that has more than MaxView records to choose from, however rounds       *)
(* overlap.                                                                *)
(***************************************************************************)
THEOREM EvictsWhenFull == Spec => EvictedWhenFull
  <1>. DEFINE Evicts(p) == store[p] # None /\ store'[p] = None
              Full(r) == rpc[r] = "merge" /\ Len(candidates(local[r], remote[r])) > MaxView
  <1>1. ASSUME IInv, [Next]_vars, NEW p \in Peers, Evicts(p) PROVE \E r \in Rounds : Full(r)
    <2>1. ASSUME UNCHANGED store PROVE FALSE
      BY <1>1, <2>1, Zenon
    <2>2. PICK r \in Rounds : mergeAndStore(r)
      BY <1>1, <2>1, Zenon DEF Next, vars, Readdress, prepare, pushpull, Fail
    <2>3. Len(candidates(local[r], remote[r])) > MaxView
      BY <1>1, <2>2, mergeAndStoreEvicts, Zenon
    <2>. QED
      BY <2>2, <2>3, Zenon DEF mergeAndStore
  <1>2. IInv /\ [Next]_vars => \A p \in Peers : Evicts(p) => \E r \in Rounds : Full(r)
    BY <1>1, Zenon
  <1>. QED
    BY <1>2, InvHolds, PTL DEF Spec, EvictedWhenFull
=============================================================================
