-------------------------------- MODULE View --------------------------------
(***************************************************************************)
(* A View of the routing table: queries made here (query.Query), and       *)
(* Lookup and Iter made over RPC (cluster/client.go, server.go, query.go), *)
(* while the table changes.  Iteration over RPC is the protocol of         *)
(* ViewIter; this module says what its records are.                        *)
(***************************************************************************)
EXTENDS Pulse, QueryIter, ViewIter

CONSTANTS
    Tables,      \* the sets of rows that the table may hold
    Selectors,   \* the selectors that callers use
    Constraints  \* the sequences of constraints

\* The rows of a table came in heartbeats.
HeldOK(t) ==
    /\ TableOK(t)
    /\ \A r \in t : \E ms \in 0..(TTLRange - 1) : r.ttl = TTL(ms)
    /\ \A name \in IndexNames : Cardinality(schema(t, name)) <= MaxRows

\* The default is a number of milliseconds that the wire can carry.
ASSUME ReadsOK ==
    /\ \A t \in Tables : HeldOK(t)
    /\ \A s \in Selectors : SelectorOK(s)
    /\ \A c \in Constraints : ConstraintsOK(c)
    /\ \E ms \in 1..(TTLRange - 1) : DefaultTTL = ms * Milli

VARIABLES
    table,   \* the rows of the routing table
    op,      \* the call: "none", "query", "lookup", "answered", "iter"
    sel,     \* its selector
    snap,    \* the snapshot that it reads
    answer,  \* lookup: the result
    rows     \* iter: the records on the wire

vars == <<ivars, qvars, table, op, sel, snap, answer, rows>>

Init ==
    /\ IterInit
    /\ QueryInit
    /\ table \in Tables
    /\ op = "none"
    /\ sel = [sel |-> "all"]
    /\ snap = Snapshot({})
    /\ answer = nil
    /\ rows = <<>>
-----------------------------------------------------------------------------
\* Structs on the wire.  View_Index has a prefix bit and a union; the union of
\* View_Selector has no value for "all".
View_Index(prefix, which, value) == [prefix |-> prefix, which |-> which, value |-> value]
View_Selector(which, ix) == [which |-> which, index |-> ix]
View_Record(peer, seq, hb) == [peer |-> peer, seq |-> seq, heartbeat |-> hb]

\* Neither nil nor an error is a record on the wire.
ASSUME WireOK ==
    \A w \in {nil, Err} :
        w \notin [peer : Texts, seq : Nat,
                  heartbeat : [ttl : Nat, server : Nat, host : Texts, meta : Seq(Texts)]]

\* bindPeer, bindServer, bindHost and bindMeta.
bindBytes(prefix, ix, as, which) ==
    IF as \in ix.as THEN View_Index(prefix, which, ix.key) ELSE Err

bindIndex(ix) ==
    CASE ix.name \in {"id", "peer"} -> bindBytes(ix.prefix, ix, "PeerIndex", "peer")
      [] ix.name = "server" -> bindBytes(ix.prefix, ix, "ServerIndex", "server")
      [] ix.name = "host" -> bindBytes(ix.prefix, ix, "HostIndex", "host")
      [] ix.name = "meta" -> bindBytes(ix.prefix, ix, "MetaIndex", "meta")

\* All, Match and From.
bindSelector(s) ==
    CASE s.sel = "all" -> View_Selector("all", nil)
      [] s.sel = "select" -> View_Selector("match", bindIndex(s.ix))
      [] s.sel = "from" -> View_Selector("from", bindIndex(s.ix))
      [] s.sel = "failure" -> View_Selector("failure", Err)

\* NewQuery returns an error.
bindFails(s) == bindSelector(s).index = Err

\* The server's index, which has every optional interface.
index(w) ==
    [name |-> IF w.which = "peer" THEN "id" ELSE w.which, prefix |-> w.prefix,
     key |-> w.value, as |-> {"PeerIndex", "ServerIndex", "HostIndex", "MetaIndex"}]

\* Fault: a match is taken for a lower bound.
selectorFrom(w) ==
    IF w.which = "all" THEN [sel |-> "all"] ELSE [sel |-> "from", ix |-> index(w.index)]

\* selector, on the server.
selector(w) ==
    CASE w.which = "all" -> [sel |-> "all"]
      [] w.which = "match" -> [sel |-> "select", ix |-> index(w.index)]
      [] w.which = "from" -> [sel |-> "from", ix |-> index(w.index)]

\* copyRecord: a View_Record.
copyRecord(r) ==
    View_Record(r.peer, r.seq, NewHeartbeat(r.ttl, r.server, r.host, r.meta))

\* maybe: a View_MaybeRecord with a record or, by default, nothing.
maybe(r) == IF r = nil THEN nil ELSE copyRecord(r)

\* clientRecord, and FutureRecord.Record.
clientRecord(w) == record(w.peer, w.seq, w.heartbeat)
FutureRecord(w) == IF w \in {nil, Err} THEN w ELSE clientRecord(w)
-----------------------------------------------------------------------------
\* The table changes: an Upsert or an Advance commits.
Commit ==
    /\ table' \in Tables \ {table}
    /\ UNCHANGED <<ivars, qvars, op, sel, snap, answer, rows>>

\* Query.Iter, on a snapshot of the table or on its reverse.
QueryIterate(q) ==
    /\ op = "none"
    /\ op' = "query"
    /\ sel' \in Selectors
    /\ snap' = q
    /\ \E c \in Constraints : Iter(q, sel', c)
    /\ UNCHANGED <<ivars, table, answer, rows>>

\* Its caller goes on to nil, and asks once more.  (The caller of Query.Lookup is
\* one that asks once.)
QueryNext ==
    /\ op = "query"
    /\ Cardinality({i \in DOMAIN seen : seen[i] = nil}) < 2
    /\ NextCall
    /\ UNCHANGED <<ivars, table, op, sel, snap, answer, rows>>

\* View.Lookup: the call, and Server.Lookup as far as the loop of bind.
ViewLookup(s) ==
    /\ op = "none"
    /\ sel' = s
    /\ snap' = Snapshot(table)
    /\ IF bindFails(s) THEN op' = "answered" /\ answer' = Err /\ UNCHANGED qvars
       ELSE /\ op' = "lookup"
            /\ Iter(Snapshot(table), selector(bindSelector(s)), <<First>>)
            /\ UNCHANGED answer
    /\ UNCHANGED <<ivars, table, rows>>

\* bind calls Next until it returns nil.
LookupNext ==
    /\ op = "lookup"
    /\ seen # <<>> => seen[Len(seen)] # nil
    /\ NextCall
    /\ UNCHANGED <<ivars, table, op, sel, snap, answer, rows>>

\* Server.Lookup returns the last record that was bound, and the future resolves.
LookupReturn ==
    /\ op = "lookup"
    /\ qpc \in {"failed", "idle"}
    /\ qpc = "idle" => seen # <<>> /\ seen[Len(seen)] = nil
    /\ op' = "answered"
    /\ answer' = IF qpc = "failed" THEN Err
                 ELSE FutureRecord(maybe(IF Len(seen) = 1 THEN nil ELSE seen[Len(seen) - 1]))
    /\ UNCHANGED <<ivars, qvars, table, sel, snap, rows>>

\* A step of a Next that was called.
Querying ==
    /\ NextStep
    /\ UNCHANGED <<ivars, table, op, sel, snap, answer, rows>>

\* View.Iter, up to the loop of the server.
ViewIterate(s) ==
    /\ op = "none"
    /\ op' = "iter"
    /\ sel' = s
    /\ snap' = Snapshot(table)
    /\ LET it == selection(Snapshot(table), selector(bindSelector(s))) IN
       IF bindFails(s) THEN paramsFail /\ UNCHANGED rows
       ELSE /\ rows' = [i \in DOMAIN it.rows |-> copyRecord(it.rows[i])]
            /\ IF it.ok THEN \E B \in SUBSET (1..Len(it.rows)) : select(Len(it.rows), B)
               ELSE selectorFails
    /\ UNCHANGED <<qvars, table, answer>>

\* A step of the iteration.
Iteration ==
    /\ op = "iter"
    /\ IterNext
    /\ UNCHANGED <<qvars, table, op, sel, snap, answer, rows>>

Next ==
    \/ Commit
    \/ QueryIterate(Snapshot(table)) \/ QueryIterate(Reversed(Snapshot(table))) \/ QueryNext
    \/ \E s \in Selectors : ViewLookup(s) \/ ViewIterate(s)
    \/ LookupNext \/ LookupReturn
    \/ Querying
    \/ Iteration

Spec == Init /\ [][Next]_vars
FairSpec == Spec /\ IterFairness
-----------------------------------------------------------------------------
(***************************************************************************)
(* Calling Next until it returns nil gives exactly the selected rows that  *)
(* the constraints leave, in order, and nil from then on, although each    *)
(* stage only sees what the one below returns and Limit counts in a        *)
(* closure.  (Constraints with To are left out: see RangeInterval.)        *)
(***************************************************************************)
QueryMeets ==
    op = "query" /\ qpc # "failed" /\ (\A i \in DOMAIN cs : cs[i].kind # "to") =>
        LET want == selection(snap, sel).rows
            P == Meaning(want, cs)
        IN \A i \in DOMAIN seen :
              IF i <= Cardinality(P)
              THEN \E p \in P : upTo(P, p) = i /\ seen[i] = want[p]
              ELSE seen[i] = nil

(***************************************************************************)
(* A selector leaves out no row: Select finds every row that has the index *)
(* (or has it as a prefix), and From every row that has it or comes after  *)
(* it, before it in a reversed query, each once for every key.  (Rows that *)
(* share the index with others come after it in the tree, so a reversed    *)
(* From is inclusive for unique indexes only.)                             *)
(***************************************************************************)
SelectComplete ==
    op = "query" /\ qpc # "failed" /\ sel.sel \in {"select", "from"} =>
        \A r \in snap.rows :
            LET keys == FromObject(sel.ix.name, r)
                hits == {i \in DOMAIN found : found[i] = r}
            IN Cardinality(hits)
                  \in Cardinality({k \in keys : wanted(snap, sel, k)})..Cardinality(keys)

(***************************************************************************)
(* What a remote caller gets are the rows that the same selector gives on  *)
(* the server's snapshot, with every field as it was: the selector, its    *)
(* index and the records survive the wire, and commits that follow the     *)
(* snapshot do not show.                                                   *)
(***************************************************************************)
RemoteMatchesLocal ==
    LET want == selection(snap, sel).rows IN
    /\ op = "iter" =>
          /\ Len(rows) = Len(want) \/ bindFails(sel)
          /\ \A i \in DOMAIN got : clientRecord(rows[got[i]]) = want[got[i]]
    /\ op = "answered" /\ ~bindFails(sel) =>
          answer = IF want = <<>> THEN nil ELSE want[1]

(***************************************************************************)
(* "Range selects all records in the interval [min, max]" (selector.go),   *)
(* and "To restricts the selection to items less-than-or-equal-to the      *)
(* index" (constraint.go): no record beyond the index is returned, and the *)
(* query ends.                                                             *)
(***************************************************************************)
RangeInterval ==
    op = "query" /\ Len(cs) = 1 /\ cs[1].kind = "to" /\ ~snap.reversed =>
        \A i \in DOMAIN seen :
            /\ seen[i] # Panic
            /\ seen[i] # nil => \E k \in FromObject(cs[1].ix.name, seen[i]) :
                                    HasPrefix(k, cs[1].ix.key) \/ ~Before(cs[1].ix.key, k)
=============================================================================
