------------------------------ MODULE PexView ------------------------------
(***************************************************************************)
(* pkg/pex: views of a namespace and how two of them are merged (gossip.go,*)
(* store.go, record.go).  A view is a sequence of gossip records; where    *)
(* the code draws lots (shuffling, the order in which sort.Sort leaves     *)
(* records of one age, decay) the operator is the set of possible results. *)
(*                                                                         *)
(* Of a record only the peer, the sequence number of its addresses and its *)
(* age in hops matter.                                                     *)
(***************************************************************************)
EXTENDS Integers, Sequences, FiniteSets, Functions

CONSTANTS
    Peers,      \* other peers
    Self,       \* the local peer
    MaxView,    \* GossipConfig.MaxView
    Swap,       \* GossipConfig.Swap
    Protect     \* GossipConfig.Protect

ASSUME ConfigOK ==
    /\ Self \notin Peers
    /\ MaxView \in Nat \ {0, 1}
    /\ Swap \in Nat
    /\ Protect \in Nat

Lesser(a, b) == IF a <= b THEN a ELSE b
Greater(a, b) == IF a <= b THEN b ELSE a

Elems(v) == {v[i] : i \in DOMAIN v}
PeersOf(v) == {g.peer : g \in Elems(v)}

\* NewGossipRecord of the local peer's envelope.
own == [peer |-> Self, seq |-> 0, hop |-> 0]
-----------------------------------------------------------------------------
head(v, n) == SubSeq(v, 1, Lesser(n, Len(v)))
tail(v, n) == SubSeq(v, Greater(Len(v) - n, 0) + 1, Len(v))

shuffled(v) ==
    {[i \in DOMAIN v |-> v[order[i]]] : order \in Injection(DOMAIN v, DOMAIN v)}

\* The sequences of all records in S.
orders(S) == Injection(1..Cardinality(S), S)

sorted(v) ==
    {w \in shuffled(v) : \A i, j \in DOMAIN w : i < j => w[i].hop <= w[j].hop}

\* The oldest records go first.
decay(v, maxDecay) == {head(v, Len(v) - d) : d \in 0..Lesser(maxDecay, Len(v))}

\* The records of v at the positions in I, in order.
at(v, I) ==
    LET nth(k) == CHOOSE i \in I : Cardinality({j \in I : j <= i}) = k
    IN [k \in 1..Cardinality(I) |-> v[nth(k)]]

\* The first record of a peer.
find(v, id) ==
    v[CHOOSE i \in DOMAIN v :
         v[i].peer = id /\ \A j \in 1..(i - 1) : v[j].peer # id]

\* The records of v that other lacks, or that have newer addresses or fewer
\* hops than the one in other.
dedupe(v, other, keepEqual) ==
    LET keep(g) ==
            g.peer \in PeersOf(other) =>
                LET have == find(other, g.peer) IN
                \/ g.seq > have.seq
                \/ g.hop < have.hop
                \/ keepEqual /\ g.seq = have.seq /\ g.hop = have.hop
    IN at(v, {i \in DOMAIN v : keep(v[i])})

\* Fault: equal records drop each other.
mergedStrict(v, w) == dedupe(v, w, FALSE) \o dedupe(w, v, FALSE)

merged(v, w) == dedupe(v, w, TRUE) \o dedupe(w, v, FALSE)

\* Fault: the local peer's record may stay.
isNotAny(v) == v

isNot(v) == at(v, {i \in DOMAIN v : v[i].peer # Self})

\* Fault: records do not age.
incrHopsNever(v) == v

incrHops(v) == [i \in DOMAIN v |-> [v[i] EXCEPT !.hop = @ + 1]]

\* View.Validate.
Validate(v) ==
    /\ v # <<>>
    /\ \A i \in 1..(Len(v) - 1) : v[i].hop > 0
    /\ v[Len(v)].hop = 0
-----------------------------------------------------------------------------
\* What mutexGetPushView makes of the stored records: the youngest in any
\* order, then the oldest.
pushView(recs) ==
    UNION {{y \o tail(v, Protect) : y \in shuffled(head(v, Greater(Len(v) - Protect, 0)))} :
              v \in sorted(recs)}

pushCount == (MaxView \div 2) - 1

\* What push sends, of n records and its own.
pushed(local, n) == Append(head(local, n), own)

\* What push leaves in local.  head returns a slice of local's array, so the
\* append of appendLocal writes over the record that follows it, if any.
afterPush(local) ==
    IF pushCount < Len(local) THEN [local EXCEPT ![pushCount + 1] = own] ELSE local

\* Local and remote records, in this order, without duplicates and Self.
candidates(local, remote) == isNot(merged(local, remote))

\* Fault: the protected records take no room.
mergeCrowded(local, remote) ==
    LET all == candidates(local, remote)
        s == Lesser(Swap, Greater(Len(all) - MaxView, 0))
        n == Len(all) - s
        r == Lesser(Lesser(Protect, MaxView), n)
        maxDecay == Lesser(r, Greater(n - MaxView, 0))
        splits == {<<Elems(head(v, n - r)), tail(v, r)>> : v \in sorted(tail(all, n))}
    IN UNION {UNION {{incrHops(merged(head(y, MaxView), oldest)) :
                         y \in orders(split[1])} :
                     oldest \in decay(split[2], maxDecay)} :
              split \in splits}

\* Swapping, retention, random eviction.  The youngest records of a split are
\* a set, for they are shuffled.
merge(local, remote) ==
    LET all == candidates(local, remote)
        s == Lesser(Swap, Greater(Len(all) - MaxView, 0))
        n == Len(all) - s
        r == Lesser(Lesser(Protect, MaxView), n)
        maxDecay == Lesser(r, Greater(n - MaxView, 0))
        splits == {<<Elems(head(v, n - r)), tail(v, r)>> : v \in sorted(tail(all, n))}
    IN UNION {UNION {{incrHops(merged(head(y, MaxView - Len(oldest)), oldest)) :
                         y \in orders(split[1])} :
                     oldest \in decay(split[2], maxDecay)} :
              split \in splits}
=============================================================================
