----------------------------- MODULE ViewProofs -----------------------------
(***************************************************************************)
(* Theorems about View: the protocol of ViewIter, for any number of        *)
(* records and any window; and the whole of View, for any tables,          *)
(* selectors and constraints, whatever commits while a call runs.          *)
(***************************************************************************)
EXTENDS View, QueryProofs, TLAPS

\* A step of View.Iter.
IterStep == IterCall \/ IterNext

\* The records that Next has returned or skipped.
passed == IF rpc = "sync" THEN handled + 1 ELSE handled

\* The inductive invariant: what Next has returned are records whose Recv
\* has got as far as sending, all of them unless a Recv failed.
IInv ==
    /\ IterInv
    /\ RecordValid
    /\ \A i \in 1..Len(got) : got[i] \in 1..passed
    /\ InOrder
    /\ ~streamErr => Len(got) = passed
    /\ ipc \in {"wait", "return"} => sent = n \/ streamErr \/ result = "err"
    /\ result # "none" => ipc \in {"return", "end"}
    /\ result = "ok" => ~streamErr /\ sent = n

\* The invariant holds before the call.
LEMMA IterInitially == IterInit => IInv
  <1>. USE ViewOK DEF IterInit
  <1>1. IterInit => IterTypeOK
    <2>. SUFFICES ASSUME IterInit PROVE IterTypeOK
      BY Zenon
    <2>1. /\ streamErr \in BOOLEAN /\ init \in BOOLEAN /\ closed \in BOOLEAN
          /\ ctx \in BOOLEAN /\ rctx \in BOOLEAN
      BY Zenon
    <2>2. got \in Seq(Nat)
      OBVIOUS
    <2>3. bad \subseteq 1..n
      BY Zenon
    <2>. QED
      BY <2>1, <2>2, <2>3 DEF IterTypeOK
  <1>2. IterInit => IterInv
    BY <1>1 DEF IterInv
  <1>. QED
    BY <1>2 DEF IInv, RecordValid, InOrder, passed

\* The first step of Server.Iter, whatever the query selects, keeps it.
LEMMA CallKeeps == IInv /\ IterCall => IInv'
  <1>. SUFFICES ASSUME IInv, IterCall PROVE IInv'
    BY Zenon
  <1>. USE ViewOK DEF IInv, IterInv
  <1>1. CASE paramsFail
    <2>1. IterTypeOK'
      BY <1>1, Zenon DEF paramsFail, IterTypeOK, nvars
    <2>. QED
      BY <1>1, <2>1 DEF paramsFail, IterTypeOK, nvars, RecordValid, InOrder, passed
  <1>2. CASE selectorFails
    <2>1. IterTypeOK'
      BY <1>2, Zenon DEF selectorFails, IterTypeOK, nvars, hvars
    <2>. QED
      BY <1>2, <2>1 DEF selectorFails, IterTypeOK, nvars, hvars, RecordValid, InOrder, passed
  <1>3. ASSUME NEW k \in 0..MaxRows, NEW B \in SUBSET (1..k), select(k, B)
        PROVE  IInv'
    <2>1. IterTypeOK'
      BY <1>3 DEF select, IterTypeOK, nvars, hvars
    <2>. QED
      BY <1>3, <2>1 DEF select, IterTypeOK, nvars, hvars, RecordValid, InOrder, passed
  <1>. QED
    BY <1>1, <1>2, <1>3, Zenon DEF IterCall

\* So does every later step of the server, Recv, Next and the contexts.
LEMMA NextKeeps == IInv /\ IterNext => IInv'
  <1>. SUFFICES ASSUME IInv, IterNext PROVE IInv'
    BY Zenon
  <1>. USE ViewOK DEF IInv, IterInv
  <1>1. CASE bind
    <2>1. IterTypeOK'
      BY <1>1 DEF bind, IterTypeOK, svars, nvars, hvars
    <2>. QED
      BY <1>1, <2>1 DEF bind, IterTypeOK, svars, nvars, hvars, RecordValid, InOrder, passed
  <1>2. CASE bindEnd
    <2>1. IterTypeOK'
      BY <1>2, Zenon DEF bindEnd, IterTypeOK, svars, nvars, hvars
    <2>. QED
      BY <1>2, <2>1 DEF bindEnd, IterTypeOK, svars, nvars, hvars, RecordValid, InOrder, passed
  <1>3. CASE WaitStreaming
    <2>1. IterTypeOK'
      BY <1>3, Zenon DEF WaitStreaming, IterTypeOK, svars, nvars, hvars
    <2>. QED
      BY <1>3, <2>1 DEF WaitStreaming, IterTypeOK, svars, nvars, hvars, RecordValid, InOrder, passed
  <1>4. CASE Shutdown
    <2>1. IterTypeOK'
      BY <1>4 DEF Shutdown, IterTypeOK, svars, nvars, hvars
    <2>. QED
      BY <1>4, <2>1 DEF Shutdown, IterTypeOK, svars, nvars, hvars, RecordValid, InOrder, passed
  <1>5. CASE Recv
    <2>1. IterTypeOK'
      BY <1>5 DEF Recv, IterTypeOK, svars, nvars, hvars
    <2>. QED
      BY <1>5, <2>1 DEF Recv, IterTypeOK, svars, nvars, hvars, RecordValid, InOrder, passed
  <1>6. CASE recvInit
    <2>1. IterTypeOK'
      BY <1>6 DEF recvInit, IterTypeOK, svars, nvars, hvars
    <2>. QED
      BY <1>6, <2>1 DEF recvInit, IterTypeOK, svars, nvars, hvars, RecordValid, InOrder, passed
  <1>7. CASE newRecord
    <2>1. CASE handled + 1 \in bad
      <3>1. /\ rpc = "new" /\ rpc' = "idle" /\ handled' = handled + 1
            /\ streamErr' = TRUE
            /\ UNCHANGED <<svars, init, sync, closed, nvars, ctx, rctx>>
        BY <1>7, <2>1, Zenon DEF newRecord, recvReturn
      <3>2. IterTypeOK'
        BY <3>1 DEF IterTypeOK, svars, nvars
      <3>. QED
        BY <3>1, <3>2 DEF IterTypeOK, svars, nvars, RecordValid, InOrder, passed
    <2>2. CASE handled + 1 \notin bad
      <3>1. IterTypeOK'
        BY <1>7, <2>2, Zenon DEF newRecord, IterTypeOK, svars, nvars
      <3>. QED
        BY <1>7, <2>2, <3>1 DEF newRecord, IterTypeOK, svars, nvars, RecordValid, InOrder, passed
    <2>. QED
      BY <2>1, <2>2, Zenon
  <1>8. CASE recvSend
    <2>1. IterTypeOK'
      BY <1>8 DEF recvSend, IterTypeOK, svars, nvars, hvars
    <2>. QED
      BY <1>8, <2>1 DEF recvSend, IterTypeOK, svars, nvars, hvars, RecordValid, InOrder, passed
  <1>9. CASE recvSync
    <2>1. IterTypeOK'
      BY <1>9 DEF recvSync, recvReturn, IterTypeOK, svars, nvars, hvars
    <2>. QED
      BY <1>9, <2>1 DEF recvSync, recvReturn, IterTypeOK, svars, nvars, hvars, RecordValid, InOrder, passed
  <1>10. CASE recvDone
    <2>0. /\ rpc \in {"init", "send", "sync"} /\ rctx
          /\ rpc' = "idle" /\ handled' = handled + 1 /\ streamErr' = TRUE
          /\ UNCHANGED <<svars, init, sync, closed, nvars, ctx, rctx>>
      BY <1>10, Zenon DEF recvDone, recvReturn
    <2>1. IterTypeOK'
      BY <2>0 DEF IterTypeOK, svars, nvars
    <2>. QED
      BY <2>0, <2>1 DEF IterTypeOK, svars, nvars, RecordValid, InOrder, passed
  <1>11. CASE nextCall
    <2>1. IterTypeOK'
      BY <1>11 DEF nextCall, IterTypeOK, svars, nvars, hvars
    <2>. QED
      BY <1>11, <2>1 DEF nextCall, IterTypeOK, svars, nvars, hvars, RecordValid, InOrder, passed
  <1>12. CASE nextSync
    <2>1. IterTypeOK'
      BY <1>12 DEF nextSync, IterTypeOK, svars, nvars, hvars
    <2>. QED
      BY <1>12, <2>1 DEF nextSync, IterTypeOK, svars, nvars, hvars, RecordValid, InOrder, passed
  <1>13. CASE nextNil
    <2>1. IterTypeOK'
      BY <1>13, Zenon DEF nextNil, IterTypeOK, svars, nvars, hvars
    <2>. QED
      BY <1>13, <2>1 DEF nextNil, IterTypeOK, svars, nvars, hvars, RecordValid, InOrder, passed
  <1>14. CASE release
    <2>1. IterTypeOK'
      BY <1>14 DEF release, IterTypeOK, svars, nvars, hvars
    <2>. QED
      BY <1>14, <2>1 DEF release, IterTypeOK, svars, nvars, hvars, RecordValid, InOrder, passed
  <1>15. CASE CtxDone
    <2>1. IterTypeOK'
      BY <1>15 DEF CtxDone, IterTypeOK, svars, nvars, hvars
    <2>. QED
      BY <1>15, <2>1 DEF CtxDone, IterTypeOK, svars, nvars, hvars, RecordValid, InOrder, passed
  <1>16. CASE Cancel
    <2>1. IterTypeOK'
      BY <1>16 DEF Cancel, IterTypeOK, svars, nvars, hvars
    <2>. QED
      BY <1>16, <2>1 DEF Cancel, IterTypeOK, svars, nvars, hvars, RecordValid, InOrder, passed
  <1>. QED
    BY <1>1, <1>2, <1>3, <1>4, <1>5, <1>6, <1>7, <1>8, <1>9, <1>10, <1>11, <1>12,
       <1>13, <1>14, <1>15, <1>16, Zenon DEF IterNext, ServerStep, RecvStep

\* IInv is an invariant of the protocol.
LEMMA IterInductive == IterSpec => []IInv
  <1>1. IInv /\ UNCHANGED ivars => IInv'
    BY DEF IInv, IterInv, IterTypeOK, ivars, svars, hvars, nvars, RecordValid, InOrder, passed
  <1>. QED
    BY <1>1, IterInitially, CallKeeps, NextKeeps, PTL DEF IterSpec

\* However Next, Recv, Server.Iter and the end of the context interleave, at
\* most one signal is pending and Recv and Next are where the other expects.
THEOREM IterCorrect == IterSpec => []IterInv
  BY IterInductive, PTL DEF IInv

\* The record that Next returned last is one whose message Recv still keeps
\* (client.go:133-145), until the next Next, release or end of the context.
THEOREM RecordsValid == IterSpec => []RecordValid
  BY IterInductive, PTL DEF IInv

\* Next returns records in the order in which the server selected them, each
\* at most once.
THEOREM DeliversInOrder == IterSpec => []InOrder
  BY IterInductive, PTL DEF IInv

\* When Iter succeeded and Next has returned nil, every record was returned.
THEOREM DeliversAll == IterSpec => []ExhaustedComplete
  <1>1. IInv => ExhaustedComplete
    BY DEF IInv, IterInv, IterTypeOK, InOrder, ExhaustedComplete, passed
  <1>. QED
    BY <1>1, IterInductive, PTL

-----------------------------------------------------------------------------
\* As in QueryProofs, steps are for Zenon unless they cite SMT.
USE Zenon

\* The record of a row survives the wire.
LEMMA WireTTL ==
    ASSUME NEW d, NEW ms \in 0..(TTLRange - 1), d = TTL(ms)
    PROVE  d \in Nat /\ SetTTL(d) \in Nat /\ TTL(SetTTL(d)) = d
  <1>0. Milli \in Nat \ {0} /\ TTLRange \in Nat \ {0} /\ DefaultTTL \in Nat \ {0}
    BY PulseOK
  <1>1. PICK k \in 1..(TTLRange - 1) : d = k * Milli
    <2>1. CASE ms = 0
      BY <2>1, ReadsOK DEF TTL
    <2>2. CASE ms # 0
      <3>1. d = ms * Milli /\ ms \in 1..(TTLRange - 1)
        BY <1>0, <2>2, SMT DEF TTL
      <3>. QED
        BY <3>1
    <2>. QED
      BY <2>1, <2>2
  <1>2. k \in Nat /\ k # 0 /\ k * Milli \in Nat
    BY <1>0, SMT
  <1>3. (k * Milli) \div Milli = k
    BY <1>0, <1>2, SMT
  <1>4. k % TTLRange = k
    BY <1>0, <1>1, SMT
  <1>5. SetTTL(d) = k
    BY <1>1, <1>3, <1>4 DEF SetTTL
  <1>. QED
    BY <1>1, <1>2, <1>5 DEF TTL

\* So do its other fields; what is on the wire is neither nil nor an error.
LEMMA WireRecord ==
    ASSUME NEW t, HeldOK(t), NEW r \in t
    PROVE  /\ clientRecord(copyRecord(r)) = r
           /\ r # nil /\ copyRecord(r) # nil /\ copyRecord(r) # Err
  <1>1. r \in Rows /\ \E ms \in 0..(TTLRange - 1) : r.ttl = TTL(ms)
    BY DEF HeldOK, TableOK
  <1>2. SetTTL(r.ttl) \in Nat /\ TTL(SetTTL(r.ttl)) = r.ttl
    BY <1>1, WireTTL
  <1>3. copyRecord(r) =
            [peer |-> r.peer, seq |-> r.seq,
             heartbeat |-> [ttl |-> SetTTL(r.ttl), server |-> r.server, host |-> r.host,
                            meta |-> r.meta]]
    BY DEF copyRecord, View_Record, NewHeartbeat, Heartbeat
  <1>4. /\ copyRecord(r).peer = r.peer /\ copyRecord(r).seq = r.seq
        /\ copyRecord(r).heartbeat.ttl = SetTTL(r.ttl)
        /\ copyRecord(r).heartbeat.server = r.server
        /\ copyRecord(r).heartbeat.host = r.host /\ copyRecord(r).heartbeat.meta = r.meta
    BY <1>3, SMT
  <1>5. clientRecord(copyRecord(r)) =
            [peer |-> r.peer, seq |-> r.seq, server |-> r.server, ttl |-> r.ttl,
             host |-> r.host, meta |-> r.meta]
    BY <1>2, <1>4 DEF clientRecord, record
  <1>6. r = [peer |-> r.peer, seq |-> r.seq, server |-> r.server, ttl |-> r.ttl,
             host |-> r.host, meta |-> r.meta]
    BY <1>1, SMT DEF Rows
  <1>7. copyRecord(r) \in [peer : Texts, seq : Nat,
                  heartbeat : [ttl : Nat, server : Nat, host : Texts, meta : Seq(Texts)]]
    BY <1>1, <1>2, <1>3, RowIs, SMT
  <1>8. copyRecord(r) # nil /\ copyRecord(r) # Err
    BY <1>7, WireOK
  <1>9. r # nil
    BY <1>1, QueryOK
  <1>. QED
    BY <1>5, <1>6, <1>8, <1>9

\* So does an index that can be bound.
LEMMA BindIs ==
    ASSUME NEW ix, IndexOK(ix), bindIndex(ix) # Err
    PROVE  /\ index(bindIndex(ix)).name = ix.name
           /\ FromArgs(index(bindIndex(ix))) = ix.key
           /\ FromArgs(ix) = ix.key
  <1>0. ix.name \in IndexNames
    BY DEF IndexOK
  <1>1. CASE ix.name = "id"
    <2>1. "PeerIndex" \in ix.as /\ bindIndex(ix) = View_Index(ix.prefix, "peer", ix.key)
      BY <1>1, SMT DEF bindIndex, bindBytes
    <2>. QED
      BY <1>1, <2>1, SMT DEF index, View_Index, FromArgs, idArgs
  <1>2. CASE ix.name = "server"
    <2>1. "ServerIndex" \in ix.as /\ bindIndex(ix) = View_Index(ix.prefix, "server", ix.key)
      BY <1>2, SMT DEF bindIndex, bindBytes
    <2>. QED
      BY <1>2, <2>1, SMT DEF index, View_Index, FromArgs, serverArgs
  <1>3. CASE ix.name = "host"
    <2>1. "HostIndex" \in ix.as /\ bindIndex(ix) = View_Index(ix.prefix, "host", ix.key)
      BY <1>3, SMT DEF bindIndex, bindBytes
    <2>. QED
      BY <1>3, <2>1, SMT DEF index, View_Index, FromArgs, hostnameArgs
  <1>4. CASE ix.name = "meta"
    <2>1. "MetaIndex" \in ix.as /\ bindIndex(ix) = View_Index(ix.prefix, "meta", ix.key)
      BY <1>4, SMT DEF bindIndex, bindBytes
    <2>. QED
      BY <1>4, <2>1, SMT DEF index, View_Index, FromArgs, metaArgs
  <1>. QED
    BY <1>0, <1>1, <1>2, <1>3, <1>4 DEF IndexNames

\* Only the name and the bytes of an index matter to a read.
LEMMA SameArgs ==
    ASSUME NEW q, NEW ix, NEW jx, ix.name = jx.name, FromArgs(ix) = FromArgs(jx)
    PROVE  Select(q, ix) = Select(q, jx) /\ From(q, ix) = From(q, jx)
  BY DEF Select, From, Get, GetReverse, LowerBound, ReverseLowerBound, iterate

\* And a selector: the server selects what the client would.
LEMMA RemoteSelection ==
    ASSUME NEW q, SnapshotOK(q), NEW s, SelectorOK(s), ~bindFails(s)
    PROVE  selection(q, selector(bindSelector(s))) = selection(q, s) /\ selection(q, s).ok
  <1>. DEFINE w == bindSelector(s)
  <1>1. CASE s.sel = "all"
    <2>1. w = View_Selector("all", nil)
      BY <1>1, SMT DEF bindSelector
    <2>2. w.which = "all"
      BY <2>1, SMT DEF View_Selector
    <2>3. selector(w) = [sel |-> "all"]
      BY <2>2 DEF selector
    <2>4. selector(w).sel = "all"
      BY <2>3, SMT
    <2>5. selection(q, selector(w)) = Select(q, all) /\ selection(q, s) = Select(q, all)
      BY <1>1, <2>4 DEF selection
    <2>6. IndexOK(all) /\ FromArgs(all) # Err
      BY AllIs
    <2>7. Select(q, all).ok
      BY <2>6, SelectIs, IterateIs
    <2>. QED
      BY <2>5, <2>7
  <1>2. CASE s.sel = "failure"
    BY <1>2, SMT DEF bindFails, bindSelector, View_Selector
  <1>3. CASE ByIndex(s)
    <2>. DEFINE ix == s.ix
                jx == index(bindIndex(s.ix))
    <2>1. /\ IndexOK(ix) /\ s.sel \in {"select", "from"}
      BY <1>3 DEF ByIndex
    <2>2. /\ w.index = bindIndex(ix)
          /\ w.which = IF s.sel = "select" THEN "match" ELSE "from"
      BY <2>1, SMT DEF bindSelector, View_Selector
    <2>3. bindIndex(ix) # Err
      BY <2>2 DEF bindFails
    <2>4. jx.name = ix.name /\ FromArgs(jx) = ix.key /\ FromArgs(ix) = ix.key
      BY <2>1, <2>3, BindIs
    <2>5. selector(w) = [sel |-> s.sel, ix |-> jx]
      BY <2>1, <2>2, SMT DEF selector
    <2>6. selector(w).sel = s.sel /\ selector(w).ix = jx
      BY <2>5, SMT
    <2>7. selection(q, selector(w)) = selection(q, s)
      <3>1. Select(q, jx) = Select(q, ix) /\ From(q, jx) = From(q, ix)
        BY <2>4, SameArgs
      <3>2. CASE s.sel = "select"
        BY <2>6, <3>1, <3>2 DEF selection
      <3>3. CASE s.sel = "from"
        BY <2>6, <3>1, <3>3 DEF selection
      <3>. QED
        BY <2>1, <3>2, <3>3
    <2>8. FromArgs(s.ix) # Err
      BY <2>1, <2>4, QueryOK DEF IndexOK
    <2>9. selection(q, s).ok
      BY <1>3, <2>8, ReachedIs, IterateIs
    <2>. QED
      BY <2>7, <2>9
  <1>. QED
    BY <1>1, <1>2, <1>3 DEF SelectorOK
-----------------------------------------------------------------------------
\* The rows that the selector gives on the snapshot.
want == selection(snap, sel).rows

\* The calls, each with what it has of them: a query on the server, the first
\* record of a Lookup, its answer, and the records that Iter sends.
Called == snap.rows \in Tables /\ snap.reversed \in BOOLEAN /\ sel \in Selectors
NotTo == \A i \in DOMAIN cs : cs[i].kind # "to"
QueryOf == selection(snap, sel).ok /\ found = want /\ (NotTo => QueryInv)
LookupOf == /\ ~bindFails(sel) /\ qpc # "failed" /\ cs = <<First>>
            /\ found = want /\ QueryInv
            /\ LoopOf
AnswerOf == ~bindFails(sel) => answer = IF want = <<>> THEN nil ELSE want[1]
IterOf ==
    IF bindFails(sel) THEN n = 0
    ELSE n <= Len(want) /\ rows = [i \in DOMAIN want |-> copyRecord(want[i])]

\* The inductive invariant.
ViewInv ==
    /\ table \in Tables
    /\ op \in {"none", "query", "lookup", "answered", "iter"}
    /\ op = "none" => QueryInit /\ n = 0
    /\ op # "none" => Called
    /\ op = "query" /\ qpc # "failed" => QueryOf
    /\ op = "lookup" => LookupOf
    /\ op = "answered" => AnswerOf
    /\ op = "iter" => IterOf

\* Snapshots of the tables that there are.
LEMMA SnapshotsOK ==
    ASSUME NEW t \in Tables
    PROVE  /\ Snapshot(t).rows = t /\ Reversed(Snapshot(t)).rows = t
           /\ Snapshot(t).reversed \in BOOLEAN /\ Reversed(Snapshot(t)).reversed \in BOOLEAN
           /\ SnapshotOK(Snapshot(t)) /\ SnapshotOK(Reversed(Snapshot(t)))
  <1>1. TableOK(t)
    BY ReadsOK DEF HeldOK
  <1>2. /\ Snapshot(t).rows = t /\ Snapshot(t).reversed = FALSE
        /\ Reversed(Snapshot(t)).rows = t /\ Reversed(Snapshot(t)).reversed = TRUE
    BY DEF Snapshot, Reversed
  <1>. QED
    BY <1>1, <1>2 DEF SnapshotOK

\* The snapshot and the selector of a call.
LEMMA CalledOK ==
    ASSUME Called
    PROVE  SnapshotOK(snap) /\ SelectorOK(sel)
  BY ReadsOK DEF Called, SnapshotOK, HeldOK

\* What a selector gives fits the bound of the protocol.
LEMMA WantIs ==
    ASSUME NEW q, SnapshotOK(q), q.rows \in Tables, NEW s, SelectorOK(s)
    PROVE  Gives(selection(q, s), q.rows) /\ Len(selection(q, s).rows) <= MaxRows
  <1>1. \A name \in IndexNames : Cardinality(schema(q.rows, name)) <= MaxRows
    BY ReadsOK DEF HeldOK
  <1>. QED
    BY <1>1, ViewOK, SelectionIs

\* View.Iter starts the protocol with what its selector gives.
LEMMA IterateSteps ==
    ASSUME table \in Tables, NEW s \in Selectors, ViewIterate(s)
    PROVE  IterCall
  <1>. DEFINE q == Snapshot(table)
              it == selection(q, selector(bindSelector(s)))
  <1>1. SnapshotOK(q) /\ q.rows \in Tables /\ SelectorOK(s)
    BY SnapshotsOK, ReadsOK
  <1>2. CASE bindFails(s)
    BY <1>2 DEF ViewIterate, IterCall
  <1>3. CASE ~bindFails(s) /\ ~it.ok
    BY <1>3 DEF ViewIterate, IterCall
  <1>4. CASE ~bindFails(s) /\ it.ok
    <2>1. PICK B \in SUBSET (1..Len(it.rows)) : select(Len(it.rows), B)
      BY <1>4 DEF ViewIterate
    <2>2. it = selection(q, s)
      BY <1>1, <1>4, RemoteSelection
    <2>3. Gives(it, q.rows) /\ Len(it.rows) <= MaxRows
      BY <1>1, <2>2, WantIs
    <2>. HIDE DEF it
    <2>4. Len(it.rows) \in 0..MaxRows
      BY <2>3, ViewOK, SMT DEF Gives
    <2>. QED
      BY <2>1, <2>4 DEF IterCall
  <1>. QED
    BY <1>2, <1>3, <1>4

\* Every other step of the view is one of the protocol, or leaves it alone.
LEMMA StepRefines ==
    ASSUME table \in Tables, Next
    PROVE  IterCall \/ IterNext \/ UNCHANGED ivars
  BY IterateSteps DEF Next, Commit, QueryIterate, QueryNext, ViewLookup, LookupNext,
     LookupReturn, Querying, Iteration

\* Steps of a query's iterator keep the invariant,
LEMMA IteratorKeeps ==
    ASSUME ViewInv, UNCHANGED <<ivars, table, op, sel, snap, answer, rows>>,
           \/ NextCall /\ (op = "lookup" => seen = <<>> \/ seen[Len(seen)] # nil)
           \/ NextStep
    PROVE  ViewInv'
  <1>1. /\ found' = found /\ cs' = cs
        /\ qpc # "none" /\ qpc # "failed" /\ qpc' # "failed"
    BY IteratorFrame
  <1>2. op # "none"
    BY <1>1 DEF ViewInv, QueryInit
  <1>3. QueryInv => QueryInv'
    BY QueryKept
  <1>4. op = "query" => QueryOf'
    BY <1>1, <1>3 DEF ViewInv, QueryOf, NotTo, want
  <1>5. op = "lookup" => LookupOf'
    <2>. SUFFICES ASSUME op = "lookup" PROVE LookupOf'
      BY SMT
    <2>1. LookupOf
      BY DEF ViewInv
    <2>2. LoopOf'
      BY <2>1, LoopKeeps DEF LookupOf
    <2>. QED
      BY <1>1, <1>3, <2>1, <2>2 DEF LookupOf, want
  <1>. QED
    BY <1>2, <1>4, <1>5 DEF ViewInv, Called, AnswerOf, IterOf, want, ivars, svars

\* and so does Query.Iter, of the snapshot or of its reverse,
LEMMA QueryKeeps ==
    ASSUME ViewInv, NEW q, q = Snapshot(table) \/ q = Reversed(Snapshot(table)),
           QueryIterate(q)
    PROVE  ViewInv'
  <1>1. table \in Tables /\ QueryInit
    BY DEF ViewInv, QueryIterate
  <1>2. SnapshotOK(q) /\ q.rows \in Tables /\ q.reversed \in BOOLEAN
    BY <1>1, SnapshotsOK
  <1>3. PICK s \in Selectors : s = sel'
    BY DEF QueryIterate
  <1>4. PICK c \in Constraints : Iter(q, s, c)
    BY <1>3 DEF QueryIterate
  <1>5. op' = "query" /\ snap' = q /\ table' = table
    BY DEF QueryIterate
  <1>6. SelectorOK(s) /\ ConstraintsOK(c)
    BY ReadsOK
  <1>7. selection(q, s).rows \in Seq(Rows)
    BY <1>2, <1>6, WantIs DEF Gives
  <1>8. (\A i \in DOMAIN c : c[i].kind # "to") => Fresh(c)
    <2>1. c \in Seq({c[i] : i \in DOMAIN c}) /\ DOMAIN c = 1..Len(c)
      BY <1>6, SMT DEF ConstraintsOK
    <2>. QED
      BY <1>6, <2>1 DEF ConstraintsOK, Fresh
  <1>9. /\ cs' = c
        /\ IterFails(q, s, c) => qpc' = "failed"
        /\ ~IterFails(q, s, c) => found' = selection(q, s).rows
    BY <1>4 DEF Iter
  <1>10. qpc' # "failed" => QueryOf'
    <2>1. SUFFICES ASSUME ~IterFails(q, s, c) PROVE QueryOf'
      BY <1>9
    <2>2. Fresh(c) => QueryInv'
      BY <1>1, <1>4, <1>7, <2>1, IterMakes
    <2>. QED
      BY <1>3, <1>5, <1>8, <1>9, <2>1, <2>2 DEF QueryOf, NotTo, want, IterFails
  <1>11. Called'
    BY <1>2, <1>3, <1>5 DEF Called
  <1>. QED
    BY <1>1, <1>5, <1>10, <1>11 DEF ViewInv

\* View.Lookup, whose server queries with the selector from the wire,
LEMMA LookupKeeps ==
    ASSUME ViewInv, NEW s \in Selectors, ViewLookup(s)
    PROVE  ViewInv'
  <1>0. PICK q : q = Snapshot(table)
    OBVIOUS
  <1>1. table \in Tables /\ QueryInit
    BY DEF ViewInv, ViewLookup
  <1>2. SnapshotOK(q) /\ q.rows \in Tables /\ q.reversed \in BOOLEAN /\ SelectorOK(s)
    BY <1>0, <1>1, SnapshotsOK, ReadsOK
  <1>3. snap' = q /\ sel' = s /\ table' = table
    BY <1>0 DEF ViewLookup
  <1>4. Called'
    BY <1>2, <1>3 DEF Called
  <1>5. CASE bindFails(s)
    <2>1. op' = "answered" /\ AnswerOf'
      BY <1>3, <1>5 DEF ViewLookup, AnswerOf
    <2>. QED
      BY <1>1, <1>3, <1>4, <2>1 DEF ViewInv
  <1>6. CASE ~bindFails(s)
    <2>. DEFINE z == selector(bindSelector(s))
    <2>1. op' = "lookup" /\ Iter(q, z, <<First>>)
      BY <1>0, <1>6 DEF ViewLookup
    <2>2. selection(q, z) = selection(q, s) /\ selection(q, s).ok
      BY <1>2, <1>6, RemoteSelection
    <2>3. selection(q, z).rows \in Seq(Rows)
      BY <1>2, <2>2, WantIs DEF Gives
    <2>4. ~IterFails(q, z, <<First>>)
      <3>1. ~constraintFails(First)
        BY FirstIs, SMT DEF constraintFails
      <3>. QED
        BY <2>2, <3>1, FirstIs DEF IterFails

    <2>. HIDE DEF z
    <2>6. cs' = <<First>> /\ qpc' # "failed" /\ found' = selection(q, z).rows /\ QueryInv'
      <3>1. PICK c : c = <<First>>
        OBVIOUS
      <3>2. Iter(q, z, c) /\ ~IterFails(q, z, c) /\ Fresh(c)
        BY <2>1, <2>4, <3>1, FirstIs
      <3>3. cs' = c /\ qpc' = "idle" /\ found' = selection(q, z).rows
        BY <3>2 DEF Iter
      <3>4. QueryInv'
        BY <1>1, <2>3, <3>2, IterMakes
      <3>. QED
        BY <3>1, <3>3, <3>4
    <2>7. LoopOf'
      <3>1. seen' = <<>>
        BY <1>1, <2>1 DEF QueryInit, Iter
      <3>2. DOMAIN <<>> = {}
        BY SMT
      <3>. QED
        BY <3>1, <3>2 DEF LoopOf
    <2>8. LookupOf'
      BY <1>3, <1>6, <2>2, <2>6, <2>7 DEF LookupOf, want
    <2>. QED
      BY <1>1, <1>3, <1>4, <2>1, <2>8 DEF ViewInv
  <1>. QED
    BY <1>5, <1>6

\* and its answer: the last record bound is the only one, and the first row.
LEMMA AnswerKeeps == ASSUME ViewInv, LookupReturn PROVE ViewInv'
  <1>1. /\ LookupOf /\ Called /\ qpc = "idle" /\ seen # <<>> /\ table \in Tables
        /\ op' = "answered"
        /\ answer' = FutureRecord(maybe(IF Len(seen) = 1 THEN nil ELSE seen[Len(seen) - 1]))
        /\ UNCHANGED <<table, sel, snap>>
        /\ seen[Len(seen)] = nil
    BY DEF ViewInv, LookupReturn, LookupOf
  <1>2. Gives(selection(snap, sel), snap.rows) /\ HeldOK(snap.rows)
    BY <1>1, CalledOK, WantIs, ReadsOK DEF Called
  <1>3. want \in Seq(Rows) /\ \A i \in 1..Len(want) : want[i] \in snap.rows
    BY <1>2 DEF Gives, want
  <1>4. /\ seen[1] = IF want = <<>> THEN nil ELSE want[1]
        /\ \A i \in DOMAIN seen : i > 1 => seen[i] = nil
        /\ \A i \in DOMAIN seen : i < Len(seen) => seen[i] # nil
    BY <1>1, FirstReturned DEF LookupOf, LoopOf
  <1>9. answer' = FutureRecord(maybe(seen[1]))
    <2>1. seen \in Seq(Rows \cup {nil})
      BY <1>1 DEF LookupOf, QueryInv, QueryTypeOK
    <2>2. DOMAIN seen = 1..Len(seen) /\ Len(seen) \in Nat \ {0}
      BY <1>1, <2>1, SMT
    <2>3. Len(seen) > 2 => 2 \in DOMAIN seen /\ 2 > 1 /\ 2 < Len(seen)
      BY <2>2, SMT
    <2>4. ~(Len(seen) > 2)
      BY <1>4, <2>3
    <2>5. Len(seen) = 1 \/ (Len(seen) = 2 /\ Len(seen) - 1 = 1)
      BY <2>2, <2>4, SMT
    <2>. QED
      BY <1>1, <2>5
  <1>5. answer' = seen[1]
    <2>1. CASE want = <<>>
      BY <1>4, <1>9, <2>1 DEF maybe, FutureRecord
    <2>2. CASE want # <<>>
      <3>1. 1 \in 1..Len(want)
        BY <1>3, <2>2, SMT
      <3>2. PICK r \in snap.rows : r = seen[1]
        BY <1>3, <1>4, <2>2, <3>1
      <3>3. /\ clientRecord(copyRecord(r)) = r
            /\ r # nil /\ copyRecord(r) # nil /\ copyRecord(r) # Err
        BY <1>2, WireRecord
      <3>. QED
        BY <1>9, <3>2, <3>3 DEF maybe, FutureRecord
    <2>. QED
      BY <2>1, <2>2
  <1>6. want' = want
    BY <1>1 DEF want
  <1>7. AnswerOf'
    BY <1>4, <1>5, <1>6 DEF AnswerOf
  <1>8. Called'
    BY <1>1 DEF Called
  <1>. QED
    BY <1>1, <1>7, <1>8 DEF ViewInv

\* View.Iter sends the selected rows,
LEMMA IterateKeeps ==
    ASSUME ViewInv, NEW s \in Selectors, ViewIterate(s)
    PROVE  ViewInv'
  <1>0. PICK q : q = Snapshot(table)
    OBVIOUS
  <1>1. table \in Tables /\ n = 0
    BY DEF ViewInv, ViewIterate
  <1>2. SnapshotOK(q) /\ q.rows \in Tables /\ q.reversed \in BOOLEAN /\ SelectorOK(s)
    BY <1>0, <1>1, SnapshotsOK, ReadsOK
  <1>3. op' = "iter" /\ snap' = q /\ sel' = s /\ table' = table
    BY <1>0 DEF ViewIterate
  <1>4. Called'
    BY <1>2, <1>3 DEF Called
  <1>5. CASE bindFails(s)
    <2>1. n' = 0
      BY <1>1, <1>5 DEF ViewIterate, paramsFail
    <2>2. IterOf'
      BY <1>3, <1>5, <2>1 DEF IterOf
    <2>. QED
      BY <1>1, <1>3, <1>4, <2>2 DEF ViewInv
  <1>6. CASE ~bindFails(s)
    <2>. DEFINE it == selection(q, selector(bindSelector(s)))
    <2>1. it = selection(q, s) /\ it.ok
      BY <1>2, <1>6, RemoteSelection
    <2>2. /\ rows' = [i \in DOMAIN it.rows |-> copyRecord(it.rows[i])]
          /\ \E B \in SUBSET (1..Len(it.rows)) : select(Len(it.rows), B)
      BY <1>0, <1>6, <2>1 DEF ViewIterate
    <2>3. n' = Len(it.rows)
      BY <2>2 DEF select
    <2>4. it.rows \in Seq(Rows)
      BY <1>2, <2>1, WantIs DEF Gives
    <2>5. want' = it.rows
      BY <1>3, <2>1 DEF want
    <2>. HIDE DEF it
    <2>6. Len(it.rows) <= Len(it.rows)
      BY <2>4, SMT
    <2>7. IterOf'
      BY <1>3, <1>6, <2>2, <2>3, <2>5, <2>6 DEF IterOf
    <2>. QED
      BY <1>1, <1>3, <1>4, <2>7 DEF ViewInv
  <1>. QED
    BY <1>5, <1>6

\* and no step of the iteration changes them.
LEMMA IterationKeeps == ASSUME ViewInv, Iteration PROVE ViewInv'
  <1>1. n' = n
    BY DEF Iteration, IterNext, ServerStep, RecvStep, bind, bindEnd, WaitStreaming,
       Shutdown, Recv, recvInit, newRecord, recvSend, recvSync, recvDone, recvReturn,
       nextCall, nextSync, nextNil, release, CtxDone, Cancel, svars
  <1>2. op = "iter" /\ UNCHANGED <<table, op, sel, snap, rows>>
    BY DEF Iteration
  <1>3. Called /\ IterOf /\ table \in Tables
    BY <1>2 DEF ViewInv
  <1>4. Called' /\ IterOf'
    BY <1>1, <1>2, <1>3 DEF Called, IterOf, want
  <1>. QED
    BY <1>2, <1>3, <1>4 DEF ViewInv
-----------------------------------------------------------------------------
\* It holds before any call.
LEMMA ViewInitially == Init => ViewInv
  <1>1. Init => table \in Tables /\ op = "none" /\ QueryInit /\ n = 0
    BY DEF Init, IterInit
  <1>. QED
    BY <1>1 DEF ViewInv

\* A commit, and a step that changes nothing.
LEMMA QuietKeeps ==
    ASSUME ViewInv, table' \in Tables, UNCHANGED <<ivars, qvars, op, sel, snap, answer, rows>>
    PROVE  ViewInv'
  <1>1. UNCHANGED <<cs, found, pos, stages, qpc, lvl, ret, seen, n>>
    BY DEF qvars, ivars, svars
  <1>2. QueryInv => QueryInv'
    BY QueryStutters
  <1>. QED
    <2>1. LoopOf => LoopOf'
      BY <1>1 DEF LoopOf
    <2>2. LookupOf => LookupOf'
      BY <1>1, <1>2, <2>1 DEF LookupOf, want
    <2>3. QueryOf => QueryOf'
      BY <1>1, <1>2 DEF QueryOf, NotTo, want
    <2>4. /\ Called => Called'
          /\ AnswerOf => AnswerOf'
          /\ QueryInit => QueryInit'
      BY <1>1 DEF QueryInit, Called, AnswerOf, want
    <2>5. IterOf => IterOf'
      BY <1>1 DEF IterOf, want
    <2>. QED
      BY <1>1, <2>2, <2>3, <2>4, <2>5 DEF ViewInv

\* So every step keeps it.
LEMMA ViewKeeps == ViewInv /\ [Next]_vars => ViewInv'
  <1>. SUFFICES ASSUME ViewInv, [Next]_vars PROVE ViewInv'
    BY SMT
  <1>1. table \in Tables
    BY DEF ViewInv
  <1>2. CASE UNCHANGED vars
    BY <1>1, <1>2, QuietKeeps DEF vars
  <1>3. CASE Commit
    BY <1>3, QuietKeeps DEF Commit
  <1>4. CASE QueryIterate(Snapshot(table)) \/ QueryIterate(Reversed(Snapshot(table)))
    <2>1. PICK q : /\ q = Snapshot(table) \/ q = Reversed(Snapshot(table))
                   /\ QueryIterate(q)
      BY <1>4
    <2>. QED
      BY <2>1, QueryKeeps
  <1>5. CASE QueryNext \/ LookupNext \/ Querying
    BY <1>5, IteratorKeeps DEF QueryNext, LookupNext, Querying
  <1>6. ASSUME NEW s \in Selectors, ViewLookup(s) \/ ViewIterate(s) PROVE ViewInv'
    BY <1>6, LookupKeeps, IterateKeeps
  <1>7. CASE LookupReturn
    BY <1>7, AnswerKeeps
  <1>8. CASE Iteration
    BY <1>8, IterationKeeps
  <1>. QED
    BY <1>2, <1>3, <1>4, <1>5, <1>6, <1>7, <1>8 DEF Next
-----------------------------------------------------------------------------
\* Whatever commits while it runs, a query reads the snapshot that its call
\* took, and what the server selected, sends and answers are its rows.
THEOREM ViewInductive == Spec => []ViewInv
  BY ViewInitially, ViewKeeps, PTL DEF Spec

\* View.Iter of client.go and server.go is an instance of the protocol of
\* ViewIter: what the selector gives fits its bound, and no other step of the
\* view touches it.
THEOREM ViewRefinesIter == Spec => IterSpec
  <1>1. Init => IterInit
    BY DEF Init
  <1>2. ViewInv /\ [Next]_vars => [IterCall \/ IterNext]_ivars
    <2>1. UNCHANGED vars => UNCHANGED ivars
      BY DEF vars
    <2>2. ViewInv => table \in Tables
      BY DEF ViewInv
    <2>. QED
      BY <2>1, <2>2, StepRefines
  <1>. QED
    BY <1>1, <1>2, ViewInductive, PTL DEF Spec, IterSpec

\* So a remote caller of the view has what the protocol promises: a record
\* stays valid until the next Next, records come in order, each once, and all
\* of them if Iter succeeded.
THEOREM ViewDelivers == Spec => [](RecordValid /\ InOrder /\ ExhaustedComplete)
  BY ViewRefinesIter, RecordsValid, DeliversInOrder, DeliversAll, PTL

\* Next of a query (routing/query.go, query/selector.go, query/query.go) returns
\* the selected rows that the constraints leave, in order, and nil from then on.
THEOREM QueriesMeet == Spec => []QueryMeets
  <1>1. ViewInv => QueryMeets
    <2>. SUFFICES ASSUME ViewInv, op = "query", qpc # "failed",
                         \A i \in DOMAIN cs : cs[i].kind # "to",
                         NEW i \in DOMAIN seen
                  PROVE  LET w == selection(snap, sel).rows
                             P == Meaning(w, cs)
                         IN IF i <= Cardinality(P)
                            THEN \E p \in P : upTo(P, p) = i /\ seen[i] = w[p]
                            ELSE seen[i] = nil
      BY DEF QueryMeets
    <2>1. QueryInv /\ found = selection(snap, sel).rows
      BY DEF ViewInv, QueryOf, NotTo, want
    <2>. QED
      BY <2>1, QueryReturns
  <1>. QED
    BY <1>1, ViewInductive, PTL

\* Match and From (query/selector.go, over the index iterators of routing) leave
\* out no row of the snapshot, for any table, index and key.
THEOREM SelectsAll == Spec => []SelectComplete
  <1>1. ViewInv => SelectComplete
    <2>. SUFFICES ASSUME ViewInv, op = "query", qpc # "failed", sel.sel \in {"select", "from"},
                         NEW r \in snap.rows
                  PROVE  Cardinality({i \in DOMAIN found : found[i] = r}) \in
                           Cardinality({k \in FromObject(sel.ix.name, r) : wanted(snap, sel, k)})
                              ..Cardinality(FromObject(sel.ix.name, r))
      BY DEF SelectComplete
    <2>1. /\ SnapshotOK(snap) /\ SelectorOK(sel)
          /\ selection(snap, sel).ok /\ found = selection(snap, sel).rows
      BY CalledOK DEF ViewInv, QueryOf, want
    <2>2. ByIndex(sel)
      BY <2>1 DEF SelectorOK
    <2>. QED
      BY <2>1, <2>2, SelectionCount DEF hits
  <1>. QED
    BY <1>1, ViewInductive, PTL

\* A remote caller (client.go, server.go, query.go) gets the rows that the same
\* selector gives on the server's snapshot, with every field as it was.
THEOREM RemoteIsLocal == Spec => []RemoteMatchesLocal
  <1>1. ViewInv /\ IInv => RemoteMatchesLocal
    <2>. SUFFICES ASSUME ViewInv, IInv PROVE RemoteMatchesLocal
      BY SMT
    <2>1. ASSUME op = "answered", ~bindFails(sel)
          PROVE  answer = IF want = <<>> THEN nil ELSE want[1]
      BY <2>1 DEF ViewInv, AnswerOf
    <2>2. ASSUME op = "iter"
          PROVE  /\ Len(rows) = Len(want) \/ bindFails(sel)
                 /\ \A i \in DOMAIN got : clientRecord(rows[got[i]]) = want[got[i]]
      <3>1. Called /\ IterOf
        BY <2>2 DEF ViewInv
      <3>2. /\ DOMAIN got = 1..Len(got) /\ n \in Nat /\ passed \in Nat /\ passed <= n
            /\ \A i \in 1..Len(got) : got[i] \in 1..passed
        BY SMT DEF IInv, IterInv, IterTypeOK, passed
      <3>3. ASSUME NEW i \in DOMAIN got PROVE got[i] \in 1..n
        BY <3>2, <3>3, SMT
      <3>4. CASE bindFails(sel)
        <4>1. n = 0
          BY <3>1, <3>4 DEF IterOf
        <4>2. \A i \in DOMAIN got : FALSE
          BY <3>3, <4>1, SMT
        <4>. QED
          BY <3>4, <4>2
      <3>5. CASE ~bindFails(sel)
        <4>1. n <= Len(want) /\ rows = [i \in DOMAIN want |-> copyRecord(want[i])]
          BY <3>1, <3>5 DEF IterOf
        <4>2. HeldOK(snap.rows) /\ Gives(selection(snap, sel), snap.rows)
          BY <3>1, CalledOK, WantIs, ReadsOK DEF Called
        <4>3. want \in Seq(Rows) /\ \A i \in 1..Len(want) : want[i] \in snap.rows
          BY <4>2 DEF Gives, want
        <4>4. DOMAIN want = 1..Len(want) /\ Len(want) \in Nat /\ Len(rows) = Len(want)
          BY <4>1, <4>3, SMT
        <4>5. ASSUME NEW i \in DOMAIN got PROVE clientRecord(rows[got[i]]) = want[got[i]]
          <5>1. PICK j : j = got[i]
            OBVIOUS
          <5>2. j \in 1..n
            BY <3>3, <4>5, <5>1
          <5>3. j \in 1..Len(want)
            BY <3>2, <4>1, <4>4, <5>2, SMT
          <5>4. rows[j] = copyRecord(want[j]) /\ want[j] \in snap.rows
            BY <4>1, <4>3, <4>4, <5>3
          <5>. QED
            BY <4>2, <5>1, <5>4, WireRecord
        <4>. QED
          BY <4>4, <4>5
      <3>. QED
        BY <3>4, <3>5
    <2>. QED
      BY <2>1, <2>2 DEF RemoteMatchesLocal, want
  <1>. QED
    BY <1>1, ViewInductive, ViewRefinesIter, IterInductive, PTL
=============================================================================
