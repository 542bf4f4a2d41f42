----------------------------- MODULE PexGossip -----------------------------
(***************************************************************************)
(* pkg/pex/gossip.go: gossip rounds of one peer in one namespace, some     *)
(* that it starts (Advertise, Bootstrap) and some that others start with   *)
(* it (the stream handler).  A round loads the stored view, exchanges      *)
(* records with the peer at the other end of the stream, merges and        *)
(* stores.  The gossiper's mutex makes the first and the last step atomic, *)
(* and is free in between.                                                 *)
(*                                                                         *)
(* The other end is a peer that runs the same code, with a GossipConfig of *)
(* its own: what it sends is like what this one sends (PushValid).  The    *)
(* datastore is the default one, whose batches are atomic.                 *)
(***************************************************************************)
EXTENDS PexView

CONSTANTS
    Rounds,     \* rounds that may be under way
    MaxSeq,     \* bound on sequence numbers
    MaxHop,     \* bound on hops of stored records
    MaxPush,    \* bound on the records of others that a peer sends
    None        \* no record

ASSUME GossipOK ==
    /\ IsFiniteSet(Peers)
    /\ MaxSeq \in Nat /\ MaxHop \in Nat \ {0} /\ MaxPush \in Nat
    /\ None \notin [peer : Peers, seq : Int, hop : Int]

VARIABLES
    seq,        \* the sequence number of each peer's addresses
    store,      \* the gossipStore: the record under each peer's key
    rpc,        \* where each round is
    local,      \* gossipRound.local
    remote      \* gossipRound.remote

vars == <<seq, store, rpc, local, remote>>

\* Records that may be in circulation.
Known == {g \in [peer : Peers, seq : 0..MaxSeq, hop : 1..MaxHop] : g.seq <= seq[g.peer]}

TypeOK ==
    /\ seq \in [Peers -> 0..MaxSeq]
    /\ \A p \in Peers : store[p] # None => store[p] \in Known /\ store[p].peer = p
    /\ store[Self] = None
    /\ rpc \in [Rounds -> {"idle", "pushpull", "merge"}]
    /\ \A r \in Rounds :
          /\ Elems(local[r]) \subseteq Known \cup {own}
          /\ PeersOf(remote[r]) \subseteq Peers \cup {Self}

\* The datastore may hold a view from before the process started.
Init ==
    /\ seq = [p \in Peers |-> 0]
    /\ \E P \in SUBSET Peers, h \in [Peers -> 1..(MaxHop - 1)] :
          /\ Cardinality(P) <= MaxView
          /\ store = [p \in Peers \cup {Self} |->
                         IF p \in P THEN [peer |-> p, seq |-> 0, hop |-> h[p]] ELSE None]
    /\ rpc = [r \in Rounds |-> "idle"]
    /\ local = [r \in Rounds |-> <<>>]
    /\ remote = [r \in Rounds |-> <<>>]

Stored == {p \in DOMAIN store : store[p] # None}

LoadView == CHOOSE v \in orders({store[p] : p \in Stored}) : TRUE

\* What peer p may push: records of others, among them perhaps Self, then its
\* own.
Pushes(p) ==
    LET Others == [peer : {Self}, seq : {0}, hop : 1..(MaxHop - 1)]
                    \cup {g \in Known : g.peer # p /\ g.hop < MaxHop}
    IN UNION {{Append(v, [peer |-> p, seq |-> seq[p], hop |-> 0]) :
                  v \in {w \in [1..k -> Others] : Cardinality(PeersOf(w)) = k}} :
              k \in 0..MaxPush}

\* The addresses of a peer change (of one peer, MaxSeq times: a bound).
Readdress(p) ==
    /\ seq[p] < MaxSeq
    /\ \A q \in Peers \ {p} : seq[q] = 0
    /\ seq' = [seq EXCEPT ![p] = @ + 1]
    /\ UNCHANGED <<store, rpc, local, remote>>

\* prepare: load the view, in the order to push it.
prepare(r) ==
    /\ rpc[r] = "idle"
    /\ \A p \in Stored : store[p].hop < MaxHop
    /\ \E v \in pushView(LoadView) : local' = [local EXCEPT ![r] = v]
    /\ rpc' = [rpc EXCEPT ![r] = "pushpull"]
    /\ UNCHANGED <<seq, store, remote>>

\* push to p and pull from it.
pushpull(r, p) ==
    /\ rpc[r] = "pushpull"
    /\ \E v \in Pushes(p) : remote' = [remote EXCEPT ![r] = v]
    /\ local' = [local EXCEPT ![r] = afterPush(@)]
    /\ rpc' = [rpc EXCEPT ![r] = "merge"]
    /\ UNCHANGED <<seq, store>>

\* The stream fails, or the deadline of the round passes.
Fail(r) ==
    /\ rpc[r] # "idle"
    /\ rpc' = [rpc EXCEPT ![r] = "idle"]
    /\ local' = [local EXCEPT ![r] = <<>>]
    /\ remote' = [remote EXCEPT ![r] = <<>>]
    /\ UNCHANGED <<seq, store>>

\* The peers of old that are not in new.
diff(old, new) == PeersOf(old) \ PeersOf(new)

\* What a batch leaves of the store: the records of old that are not in new
\* go, those of new are written, the last one of a peer if there are two.
StoreRecords(old, new) ==
    [p \in DOMAIN store |->
        IF p \in PeersOf(new)
        THEN new[CHOOSE i \in DOMAIN new :
                    /\ new[i].peer = p
                    /\ \A j \in (i + 1)..Len(new) : new[j].peer # p]
        ELSE IF p \in diff(old, new) THEN None ELSE store[p]]

mergeAndStore(r) ==
    /\ rpc[r] = "merge"
    /\ Validate(remote[r])
    /\ store' \in {StoreRecords(local[r], v) : v \in merge(local[r], remote[r])}
    /\ rpc' = [rpc EXCEPT ![r] = "idle"]
    /\ local' = [local EXCEPT ![r] = <<>>]
    /\ remote' = [remote EXCEPT ![r] = <<>>]
    /\ UNCHANGED seq

Next ==
    \/ \E p \in Peers : Readdress(p)
    \/ \E r \in Rounds :
          \/ prepare(r)
          \/ \E p \in Peers : pushpull(r, p)
          \/ Fail(r)
          \/ mergeAndStore(r)

Spec == Init /\ [][Next]_vars
-----------------------------------------------------------------------------
(***************************************************************************)
(* The store never holds the peer's own record, although others gossip it  *)
(* and push leaves it in the view that is merged.                          *)
(***************************************************************************)
GossipInv ==
    /\ TypeOK
    /\ \A r \in Rounds : rpc[r] = "pushpull" => Self \notin PeersOf(local[r])

(***************************************************************************)
(* What a peer pushes passes the receiver's Validate, whatever rounds have *)
(* left in its store and however many records it sends: no peer is pushed  *)
(* twice, and only the peer's own record, the last one, has no hops.       *)
(***************************************************************************)
PushValid ==
    \A r \in Rounds : rpc[r] = "pushpull" =>
        \A n \in pushCount..Len(local[r]) :
            LET v == pushed(local[r], n) IN
            Validate(v) /\ Cardinality(PeersOf(v)) = Len(v)

(***************************************************************************)
(* Swapping, retention, decay and random eviction together neither let a   *)
(* view grow past MaxView nor shrink it while there is enough to fill it.  *)
(***************************************************************************)
MergeFills ==
    \A r \in Rounds : rpc[r] = "merge" =>
        \A v \in merge(local[r], remote[r]) :
            Len(v) = Lesser(Len(candidates(local[r], remote[r])), MaxView)

(***************************************************************************)
(* "Items remain in the cache until they have been explicitly evicted or   *)
(* replaced" (specs/pex.md): a peer leaves the store only in a round that  *)
(* had more than MaxView records to choose from.                           *)
(***************************************************************************)
EvictedWhenFull ==
    [][\A p \in Peers : store[p] # None /\ store'[p] = None =>
          \E r \in Rounds : rpc[r] = "merge"
                /\ Len(candidates(local[r], remote[r])) > MaxView]_vars

(***************************************************************************)
(* "maximum View size" (the comment on GossipConfig.MaxView).              *)
(***************************************************************************)
ViewBounded == Cardinality(Stored) <= MaxView

(***************************************************************************)
(* "peers MUST preserve records with [...] a higher Seq number"            *)
(* (specs/pex.md): a round does not replace the record of a peer by one    *)
(* with older addresses.                                                   *)
(***************************************************************************)
SeqKept ==
    [][\A p \in Peers : store[p] # None /\ store'[p] # None =>
          store[p].seq <= store'[p].seq]_vars
=============================================================================
