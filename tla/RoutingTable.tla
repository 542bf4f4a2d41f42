---------------------------- MODULE RoutingTable ----------------------------
(***************************************************************************)
(* pkg/cluster/routing/table.go: the routing table that a Router keeps of  *)
(* its cluster.  Heartbeats reach it through Upsert, called by pubsub's    *)
(* validation goroutines (pkg/cluster/pulse), and time reaches it through  *)
(* Advance, called by the Router's advance goroutine.                      *)
(*                                                                         *)
(* The records live in a memdb store (pkg/stm): a read transaction sees    *)
(* the root committed last, and one write transaction at a time, the       *)
(* holder of the writer lock, works on a private root that Commit          *)
(* publishes.  Every step below is one access to shared state: the root,   *)
(* the writer lock or the table's clock.                                   *)
(***************************************************************************)
EXTENDS Integers

CONSTANTS
    Peers,      \* peer IDs, the primary key of the table
    Servers,    \* instance IDs, drawn anew each time a host starts
    Upserters,  \* goroutines that may be inside Upsert
    From,       \* From[u]: the peers whose records goroutine u upserts
    TTLs,       \* times to live a record may carry
    MaxSeq,     \* bound on sequence numbers
    MaxTime,    \* bound on the times passed to Advance
    Advancer,   \* the goroutine that calls Advance
    None        \* no row, no record, no holder of the writer lock

Record == [peer : Peers, server : Servers, seq : 0..MaxSeq, ttl : TTLs]

\* A Record with the deadline computed when it was inserted.
Row == [rec : Record, deadline : Nat]

ASSUME ConstantsOK ==
    /\ From \in [Upserters -> SUBSET Peers]
    /\ TTLs \subseteq Nat
    /\ MaxSeq \in Nat
    /\ MaxTime \in Nat
    /\ Advancer \notin Upserters
    /\ None \notin Upserters \cup {Advancer}
    /\ None \notin Record
    /\ None \notin Row

VARIABLES
    clock,    \* table.clock
    rows,     \* the committed root, by primary key
    writer,   \* holder of the writer lock
    wtx,      \* the private root of the write transaction
    upc,      \* where each goroutine is in Upsert
    arg,      \* the record each goroutine is upserting, or upserted last
    ret,      \* what each goroutine's last Upsert returned
    apc,      \* where the Advancer is in Advance
    now,      \* the argument of Advance
    called,   \* history: the clock when each goroutine entered Upsert
    fresh     \* history: peers whose row was committed since Advance scanned

vars == <<clock, rows, writer, wtx, upc, arg, ret, apc, now, called, fresh>>
uvars == <<upc, arg, ret, called>>
avars == <<apc, now>>

Roots == [Peers -> Row \cup {None}]

TypeOK ==
    /\ clock \in Nat
    /\ rows \in Roots
    /\ writer \in Upserters \cup {Advancer, None}
    /\ wtx \in Roots
    /\ upc \in [Upserters -> {"idle", "txn", "insert", "commit"}]
    /\ arg \in [Upserters -> Record \cup {None}]
    /\ ret \in [Upserters -> BOOLEAN]
    /\ apc \in {"idle", "scan", "txn", "drop", "commit", "store"}
    /\ now \in Nat
    /\ called \in [Upserters -> Nat]
    /\ fresh \subseteq Peers

Init ==
    /\ clock = 0
    /\ rows = [p \in Peers |-> None]
    /\ writer = None
    /\ wtx = rows
    /\ upc = [u \in Upserters |-> "idle"]
    /\ arg = [u \in Upserters |-> None]
    /\ ret = [u \in Upserters |-> FALSE]
    /\ apc = "idle"
    /\ now = 0
    /\ called = [u \in Upserters |-> 0]
    /\ fresh = {}
-----------------------------------------------------------------------------
\* Variants of the definitions that follow them are marked "Fault": each is a
\* plausible mistake in the code that one of the properties below rules out.

\* Whether rec may replace old, the row that a root holds for rec's peer.
valid(old, rec) ==
    \/ old = None
    \/ old.rec.server = rec.server /\ old.rec.seq < rec.seq
    \/ old.rec.server # rec.server /\ old.rec.seq > rec.seq

\* Fault: the bound is inclusive.
expiredRecordsIncl(root, t) ==
    {p \in Peers : root[p] # None /\ root[p].deadline <= t}

\* The peers whose rows ReverseLowerBound(t) finds in root: the ttl index is
\* not unique, so memdb extends its keys with the primary key, and a row whose
\* deadline is exactly t lies above the bound.
expiredRecords(root, t) ==
    {p \in Peers : root[p] # None /\ root[p].deadline < t}

dropExpired(root, t) ==
    [p \in Peers |-> IF p \in expiredRecords(root, t) THEN None ELSE root[p]]

withDeadline(rec) == [rec |-> rec, deadline |-> clock + rec.ttl]

\* Fault: the transaction does not wait for the writer lock.
BeginUnlocked(proc) ==
    /\ writer' = proc
    /\ wtx' = rows

\* sched.Txn(true): wait for the writer lock, start from the committed root.
Begin(proc) ==
    /\ writer = None
    /\ writer' = proc
    /\ wtx' = rows

\* Fault: the transaction is never finished, so it keeps the lock.
CommitHeld ==
    /\ rows' = wtx
    /\ UNCHANGED <<writer, wtx>>

\* Commit: publish the private root and release the lock.
Commit ==
    /\ rows' = wtx
    /\ writer' = None
    /\ UNCHANGED wtx
-----------------------------------------------------------------------------
\* Upsert, up to the verdict of valid on a read transaction.
Upsert(u, rec) ==
    /\ upc[u] = "idle"
    /\ rec.peer \in From[u]
    /\ arg' = [arg EXCEPT ![u] = rec]
    /\ ret' = [ret EXCEPT ![u] = FALSE]
    /\ called' = [called EXCEPT ![u] = clock]
    /\ upc' = [upc EXCEPT ![u] =
                  IF valid(rows[rec.peer], rec) THEN "txn" ELSE "idle"]
    /\ UNCHANGED <<clock, rows, writer, wtx, avars, fresh>>

UpsertTxn(u) ==
    /\ upc[u] = "txn"
    /\ Begin(u)
    /\ upc' = [upc EXCEPT ![u] = "insert"]
    /\ UNCHANGED <<clock, rows, arg, ret, called, avars, fresh>>

\* upsert: load the clock, insert into the private root.
upsert(u) ==
    /\ upc[u] = "insert"
    /\ wtx' = [wtx EXCEPT ![arg[u].peer] = withDeadline(arg[u])]
    /\ upc' = [upc EXCEPT ![u] = "commit"]
    /\ UNCHANGED <<clock, rows, writer, arg, ret, called, avars, fresh>>

UpsertCommit(u) ==
    /\ upc[u] = "commit"
    /\ Commit
    /\ upc' = [upc EXCEPT ![u] = "idle"]
    /\ ret' = [ret EXCEPT ![u] = TRUE]
    /\ fresh' = fresh \cup {arg[u].peer}
    /\ UNCHANGED <<clock, arg, called, avars>>
-----------------------------------------------------------------------------
\* Fault: time may go backwards.
AdvanceAny(t) ==
    /\ apc = "idle"
    /\ now' = t
    /\ apc' = "scan"
    /\ UNCHANGED <<clock, rows, writer, wtx, uvars, fresh>>

\* Advance(t).  A time that is not after the clock changes nothing.
Advance(t) ==
    /\ apc = "idle"
    /\ t > clock
    /\ now' = t
    /\ apc' = "scan"
    /\ UNCHANGED <<clock, rows, writer, wtx, uvars, fresh>>

\* Fault: looks for the records that had expired at the previous tick.
AdvanceScanOld ==
    /\ apc = "scan"
    /\ apc' = IF expiredRecords(rows, clock) # {} THEN "txn" ELSE "store"
    /\ fresh' = {}
    /\ UNCHANGED <<clock, rows, writer, wtx, uvars, now>>

\* Look for expired records on a read transaction.
AdvanceScan ==
    /\ apc = "scan"
    /\ apc' = IF expiredRecords(rows, now) # {} THEN "txn" ELSE "store"
    /\ fresh' = {}
    /\ UNCHANGED <<clock, rows, writer, wtx, uvars, now>>

AdvanceTxn ==
    /\ apc = "txn"
    /\ Begin(Advancer)
    /\ apc' = "drop"
    /\ UNCHANGED <<clock, rows, uvars, now, fresh>>

AdvanceDrop ==
    /\ apc = "drop"
    /\ wtx' = dropExpired(wtx, now)
    /\ apc' = "commit"
    /\ UNCHANGED <<clock, rows, writer, uvars, now, fresh>>

\* The deferred Commit runs before the deferred Store of the clock.
AdvanceCommit ==
    /\ apc = "commit"
    /\ Commit
    /\ apc' = "store"
    /\ UNCHANGED <<clock, uvars, now, fresh>>

AdvanceStore ==
    /\ apc = "store"
    /\ clock' = now
    /\ apc' = "idle"
    /\ UNCHANGED <<rows, writer, wtx, uvars, now, fresh>>
-----------------------------------------------------------------------------
UpsertStep(u) == UpsertTxn(u) \/ upsert(u) \/ UpsertCommit(u)

AdvanceStep ==
    AdvanceScan \/ AdvanceTxn \/ AdvanceDrop \/ AdvanceCommit \/ AdvanceStore

Next ==
    \/ \E u \in Upserters, rec \in Record : Upsert(u, rec)
    \/ \E u \in Upserters : UpsertTxn(u)
    \/ \E u \in Upserters : upsert(u)
    \/ \E u \in Upserters : UpsertCommit(u)
    \/ \E t \in 1..MaxTime : Advance(t)
    \/ AdvanceScan
    \/ AdvanceTxn
    \/ AdvanceDrop
    \/ AdvanceCommit
    \/ AdvanceStore

Spec == Init /\ [][Next]_vars

\* A goroutine that is inside Upsert or Advance keeps running, and Go's
\* mutex hands the lock to a waiter that has been passed over for too long.
\* No one is obliged to call either method.
Fairness ==
    /\ \A u \in Upserters : SF_vars(UpsertTxn(u)) /\ WF_vars(UpsertStep(u))
    /\ SF_vars(AdvanceTxn) /\ WF_vars(AdvanceStep)

FairSpec == Spec /\ Fairness
-----------------------------------------------------------------------------
\* No two goroutines upsert records of the same peer.
PerPeerUpserts ==
    \A u, v \in Upserters : u # v => From[u] \cap From[v] = {}

\* Upsert(u) returns true in this step.
Accepts(u) == upc[u] = "commit" /\ upc'[u] = "idle" /\ ret'[u]

(***************************************************************************)
(* The inductive invariant: the writer lock is held exactly between        *)
(* Txn(true) and Commit; the private root is the committed one plus what   *)
(* the holder has done to it; a call knows its record and started no later *)
(* than now; Advance moves time forward.                                   *)
(***************************************************************************)
LockOK ==
    /\ \A u \in Upserters : upc[u] \in {"insert", "commit"} <=> writer = u
    /\ apc \in {"drop", "commit"} <=> writer = Advancer

CallOK ==
    /\ \A u \in Upserters : upc[u] # "idle" =>
          arg[u] \in Record /\ arg[u].peer \in From[u] /\ called[u] <= clock
    /\ apc # "idle" => now \in 1..MaxTime /\ clock < now

TxnOK ==
    /\ \A u \in Upserters : upc[u] = "insert" => wtx = rows
    /\ \A u \in Upserters : upc[u] = "commit" =>
          \E at \in called[u]..clock :
              wtx = [rows EXCEPT ![arg[u].peer] =
                        [rec |-> arg[u], deadline |-> at + arg[u].ttl]]
    /\ apc = "drop" => wtx = rows
    /\ apc = "commit" => wtx = dropExpired(rows, now)

TableInv == TypeOK /\ LockOK /\ CallOK /\ TxnOK

\* With PerPeerUpserts, the verdict of valid still stands when Upsert commits.
VerdictStands ==
    \A u \in Upserters : upc[u] # "idle" => valid(rows[arg[u].peer], arg[u])

\* The rows that an accepted record replaces.
ReturnsFalseIfStaleStep ==
    \A u \in Upserters :
        LET old == rows[arg[u].peer] IN
        Accepts(u) /\ old # None =>
            IF old.rec.server = arg[u].server
            THEN old.rec.seq < arg[u].seq
            ELSE old.rec.seq > arg[u].seq

(***************************************************************************)
(* "Returns false if rec is stale": the record that Upsert replaces when   *)
(* it commits is an older one of the same instance, or one of another      *)
(* instance with a higher sequence number.  The check and the write are    *)
(* two transactions, so this needs the row to be the checked one still.    *)
(***************************************************************************)
ReturnsFalseIfStale == [][ReturnsFalseIfStaleStep]_vars

\* The root after an accepted record.
AcceptedIsStoredStep ==
    \A u \in Upserters : Accepts(u) =>
        \A p \in Peers :
            IF p = arg[u].peer THEN rows'[p] # None /\ rows'[p].rec = arg[u]
                               ELSE rows'[p] = rows[p]

(***************************************************************************)
(* When Upsert returns true the table holds the record, and every other    *)
(* row is what it was: the write transaction lost no concurrent commit.    *)
(***************************************************************************)
AcceptedIsStored == [][AcceptedIsStoredStep]_vars

\* The rows that a step removes.
EvictsOnlyExpiredStep ==
    \A p \in Peers :
        rows[p] # None /\ rows'[p] = None =>
            rows[p].deadline < now /\ clock < now

(***************************************************************************)
(* A row leaves the table only when its deadline lies before the time that *)
(* Advance is moving to, although the rows that Advance deletes need not   *)
(* be the ones it saw when it looked for expired records.                  *)
(***************************************************************************)
EvictsOnlyExpired == [][EvictsOnlyExpiredStep]_vars

\* The deadline of an accepted record.
DeadlineInCallStep ==
    \A u \in Upserters :
        LET deadline == rows'[arg[u].peer].deadline IN
        Accepts(u) =>
            /\ called[u] + arg[u].ttl <= deadline
            /\ deadline <= clock + arg[u].ttl

(***************************************************************************)
(* An accepted record lives for its TTL, counted from some value that the  *)
(* clock had during the call, whatever Advance did meanwhile.              *)
(***************************************************************************)
DeadlineInCall == [][DeadlineInCallStep]_vars

(***************************************************************************)
(* "Expired entries will be evicted": when Advance is about to store the   *)
(* new time, the rows that are past their deadline were all committed      *)
(* after Advance looked for expired records.                               *)
(***************************************************************************)
ExpiredEvicted ==
    apc = "store" => expiredRecords(rows, now) \subseteq fresh

(***************************************************************************)
(* Every Upsert and every Advance returns: the writer lock is released on  *)
(* all paths and its holder never waits for it.                            *)
(***************************************************************************)
OperationsReturn ==
    /\ \A u \in Upserters : upc[u] # "idle" ~> upc[u] = "idle"
    /\ apc # "idle" ~> apc = "idle"

(***************************************************************************)
(* The table's operations take effect atomically, each at its Commit or    *)
(* Store, although they run in several transactions: rows and clock behave *)
(* as the abstract table's.  This needs PerPeerUpserts.                    *)
(***************************************************************************)
Table == INSTANCE TableSpec WITH Times <- 1..MaxTime

ImplementsTable == Table!Spec

(***************************************************************************)
(* "If seq is same, prefer newly-received record" (the comment in valid):  *)
(* Upsert does not reject a record of another instance whose sequence      *)
(* number is that of the row it would replace.                             *)
(***************************************************************************)
PrefersNewlyReceived ==
    [][\A u \in Upserters, rec \in Record :
          LET old == rows[rec.peer] IN
          /\ Upsert(u, rec)
          /\ old # None
          /\ old.rec.server # rec.server
          /\ old.rec.seq = rec.seq
          => upc'[u] = "txn"]_vars
=============================================================================
