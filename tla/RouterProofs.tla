---------------------------- MODULE RouterProofs ----------------------------
(***************************************************************************)
(* Theorems about the two halves of a Router: its RoutingTable, for any    *)
(* sets of peers, instances, TTLs and goroutines, and any bounds on        *)
(* sequence numbers and times; and its life (Router), for any number of    *)
(* callers of Bootstrap and Stop.                                          *)
(***************************************************************************)
EXTENDS RoutingTable, Router, TLAPS

\* The rows that Upsert and Advance put into a root keep it well typed.
LEMMA RowTyped ==
    ASSUME NEW rec \in Record, NEW tm \in Nat
    PROVE  [rec |-> rec, deadline |-> tm + rec.ttl] \in Row
  <1>1. TTLs \subseteq Nat
    BY ConstantsOK, Zenon
  <1>2. rec.ttl \in Nat
    BY <1>1, Zenon DEF Record
  <1>3. tm + rec.ttl \in Nat
    BY <1>2
  <1>4. QED
    BY <1>3, Zenon DEF Row

\* dropExpired keeps a root well typed.
LEMMA DropTyped ==
    ASSUME NEW root \in Roots, NEW t \in Nat
    PROVE  dropExpired(root, t) \in Roots
  BY Zenon DEF dropExpired, Roots

\* After dropExpired nothing is expired.
LEMMA DropClean ==
    ASSUME NEW root \in Roots, NEW t \in Nat
    PROVE  expiredRecords(dropExpired(root, t), t) = {}
  BY Zenon DEF dropExpired, expiredRecords, Roots

\* Initially the inductive invariant holds.
LEMMA InitInv == Init => TableInv
  <1> SUFFICES ASSUME Init PROVE TableInv
    BY Zenon
  <1> USE ConstantsOK DEF Init
  <1>1. TypeOK
    BY Zenon DEF TypeOK, Roots
  <1>2. LockOK /\ CallOK /\ TxnOK
    BY Zenon DEF LockOK, CallOK, TxnOK
  <1>3. QED
    BY <1>1, <1>2, Zenon DEF TableInv

\* Every step keeps the inductive invariant.
LEMMA StepInv == TableInv /\ [Next]_vars => TableInv'
  <1> SUFFICES ASSUME TableInv, [Next]_vars
               PROVE  TypeOK' /\ LockOK' /\ CallOK' /\ TxnOK'
    BY Zenon DEF TableInv
  <1> USE ConstantsOK DEF TableInv
  <1>1. ASSUME NEW u \in Upserters, NEW rec \in Record, Upsert(u, rec)
        PROVE  TypeOK' /\ LockOK' /\ CallOK' /\ TxnOK'
    <2> USE <1>1 DEF Upsert, avars
    <2>1. TypeOK'
      BY Zenon DEF TypeOK
    <2>2. LockOK' /\ CallOK'
      BY DEF TypeOK, LockOK, CallOK
    <2>3. TxnOK'
      BY DEF TypeOK, TxnOK
    <2>4. QED
      BY <2>1, <2>2, <2>3, Zenon
  <1>2. ASSUME NEW u \in Upserters, UpsertTxn(u)
        PROVE  TypeOK' /\ LockOK' /\ CallOK' /\ TxnOK'
    <2> USE <1>2 DEF UpsertTxn, Begin, avars
    <2>1. TypeOK'
      BY Zenon DEF TypeOK
    <2>2. LockOK' /\ CallOK'
      BY Zenon DEF TypeOK, LockOK, CallOK
    <2>3. TxnOK'
      BY DEF TypeOK, LockOK, TxnOK
    <2>4. QED
      BY <2>1, <2>2, <2>3, Zenon
  <1>3. ASSUME NEW u \in Upserters, upsert(u)
        PROVE  TypeOK' /\ LockOK' /\ CallOK' /\ TxnOK'
    <2> USE <1>3 DEF upsert, avars
    <2>1. arg[u] \in Record /\ withDeadline(arg[u]) \in Row
      BY RowTyped, Zenon DEF TypeOK, CallOK, withDeadline
    <2>2. TypeOK'
      BY <2>1, Zenon DEF TypeOK, Roots
    <2>3. LockOK' /\ CallOK'
      BY Zenon DEF TypeOK, LockOK, CallOK
    <2>4. TxnOK'
      <3>1. called[u] <= clock /\ wtx = rows
        BY Zenon DEF CallOK, TxnOK
      <3>2. \A v \in Upserters : upc'[v] = "commit" => v = u
        BY Zenon DEF TypeOK, LockOK
      <3>3. apc' \notin {"drop", "commit"}
        BY Zenon DEF LockOK
      <3>4. \A v \in Upserters : upc'[v] # "insert"
        BY Zenon DEF TypeOK, LockOK
      <3>5. clock' \in called'[u]..clock'
        BY <3>1 DEF TypeOK
      <3>6. wtx' = [rows' EXCEPT ![arg'[u].peer] =
                       [rec |-> arg'[u], deadline |-> clock' + arg'[u].ttl]]
        BY <3>1, Zenon DEF withDeadline
      <3>7. QED
        BY <3>2, <3>3, <3>4, <3>5, <3>6, Zenon DEF TxnOK
    <2>5. QED
      BY <2>2, <2>3, <2>4, Zenon
  <1>4. ASSUME NEW u \in Upserters, UpsertCommit(u)
        PROVE  TypeOK' /\ LockOK' /\ CallOK' /\ TxnOK'
    <2> USE <1>4 DEF UpsertCommit, Commit, avars
    <2>1. TypeOK'
      BY DEF TypeOK, CallOK, Record
    <2>2. LockOK' /\ CallOK'
      BY Zenon DEF TypeOK, LockOK, CallOK
    <2>3. TxnOK'
      BY DEF TypeOK, LockOK, TxnOK
    <2>4. QED
      BY <2>1, <2>2, <2>3, Zenon
  <1>5. ASSUME NEW t \in 1..MaxTime, Advance(t)
        PROVE  TypeOK' /\ LockOK' /\ CallOK' /\ TxnOK'
    BY <1>5 DEF Advance, uvars, TypeOK, LockOK, CallOK, TxnOK
  <1>6. CASE AdvanceScan
    BY <1>6, Zenon DEF AdvanceScan, uvars, TypeOK, LockOK, CallOK, TxnOK
  <1>7. CASE AdvanceTxn
    BY <1>7, Zenon DEF AdvanceTxn, Begin, uvars, TypeOK, LockOK, CallOK, TxnOK
  <1>8. CASE AdvanceDrop
    <2> USE <1>8 DEF AdvanceDrop, uvars
    <2>1. wtx = rows
      BY Zenon DEF TxnOK
    <2>2. TypeOK'
      BY DropTyped, Zenon DEF TypeOK
    <2>3. LockOK' /\ CallOK'
      BY Zenon DEF LockOK, CallOK
    <2>4. TxnOK'
      BY <2>1 DEF TypeOK, LockOK, TxnOK, dropExpired, expiredRecords
    <2>5. QED
      BY <2>2, <2>3, <2>4, Zenon
  <1>9. CASE AdvanceCommit
    BY <1>9 DEF AdvanceCommit, Commit, uvars, TypeOK, LockOK, CallOK, TxnOK
  <1>10. CASE AdvanceStore
    <2> USE <1>10 DEF AdvanceStore, uvars
    <2>1. TypeOK' /\ LockOK'
      BY Zenon DEF TypeOK, LockOK
    <2>2. CallOK'
      BY DEF TypeOK, CallOK
    <2>3. TxnOK'
      <3>1. \A u \in Upserters, tm \in Int :
               upc[u] = "commit" /\ tm \in called[u]..clock
                 => tm \in called[u]..clock'
        BY DEF TypeOK, CallOK
      <3>2. QED
        BY <3>1 DEF TypeOK, TxnOK
    <2>4. QED
      BY <2>1, <2>2, <2>3, Zenon
  <1>11. CASE UNCHANGED vars
    BY <1>11 DEF vars, TypeOK, LockOK, CallOK, TxnOK, dropExpired,
                 expiredRecords
  <1>12. QED
    BY <1>1, <1>2, <1>3, <1>4, <1>5, <1>6, <1>7, <1>8, <1>9, <1>10, <1>11, Zenon
    DEF Next

(***************************************************************************)
(* The inductive invariant, and type correctness with it, holds in every   *)
(* reachable state of Upsert and Advance.                                  *)
(***************************************************************************)
THEOREM TableCorrect == Spec => []TableInv
  BY InitInv, StepInv, PTL DEF Spec

(***************************************************************************)
(* Whatever commits while Advance runs, the rows that are past their       *)
(* deadline when it stores the time are ones committed after it looked.    *)
(***************************************************************************)
THEOREM EvictionComplete == Spec => []ExpiredEvicted
  <1>1. Init => ExpiredEvicted
    BY Zenon DEF Init, ExpiredEvicted
  <1>2. TableInv /\ ExpiredEvicted /\ [Next]_vars => ExpiredEvicted'
    <2> SUFFICES ASSUME TableInv, ExpiredEvicted, [Next]_vars, apc' = "store"
                 PROVE  (expiredRecords(rows, now) \subseteq fresh)'
      BY Zenon DEF ExpiredEvicted
    <2> USE DEF TableInv, ExpiredEvicted
    <2>1. ASSUME NEW u \in Upserters, NEW rec \in Record, Upsert(u, rec)
          PROVE  (expiredRecords(rows, now) \subseteq fresh)'
      BY <2>1, Zenon DEF Upsert, avars, expiredRecords
    <2>2. ASSUME NEW u \in Upserters, UpsertTxn(u) \/ upsert(u)
          PROVE  (expiredRecords(rows, now) \subseteq fresh)'
      BY <2>2, Zenon DEF UpsertTxn, Begin, upsert, avars, expiredRecords
    <2>3. ASSUME NEW u \in Upserters, UpsertCommit(u)
          PROVE  (expiredRecords(rows, now) \subseteq fresh)'
      <3> USE <2>3 DEF UpsertCommit, Commit, avars
      <3>1. \A p \in Peers \ {arg[u].peer} : rows'[p] = rows[p]
        BY Zenon DEF TypeOK, Roots, TxnOK
      <3>2. QED
        BY <3>1, Zenon DEF expiredRecords
    <2>4. ASSUME NEW t \in 1..MaxTime, Advance(t)
          PROVE  (expiredRecords(rows, now) \subseteq fresh)'
      BY <2>4, Zenon DEF Advance
    <2>5. CASE AdvanceScan
      BY <2>5, Zenon DEF AdvanceScan, expiredRecords
    <2>6. CASE AdvanceTxn \/ AdvanceDrop \/ AdvanceStore
      BY <2>6, Zenon DEF AdvanceTxn, AdvanceDrop, AdvanceStore
    <2>7. CASE AdvanceCommit
      <3> USE <2>7 DEF AdvanceCommit, Commit
      <3>1. rows' = dropExpired(rows, now) /\ now' = now
        BY Zenon DEF TxnOK
      <3>2. expiredRecords(rows', now) = {}
        BY <3>1, DropClean, Zenon DEF TypeOK
      <3>3. QED
        BY <3>1, <3>2, Zenon DEF expiredRecords
    <2>8. CASE UNCHANGED vars
      BY <2>8, Zenon DEF vars, expiredRecords
    <2>9. QED
      BY <2>1, <2>2, <2>3, <2>4, <2>5, <2>6, <2>7, <2>8, Zenon DEF Next
  <1>3. QED
    BY <1>1, <1>2, TableCorrect, PTL DEF Spec

\* What a step changes in the committed root and in the clock: a commit of
\* Upsert, a commit of Advance, the new time, or nothing.
LEMMA RootSteps ==
    ASSUME TableInv, [Next]_vars
    PROVE  \/ \E u \in Upserters : UpsertCommit(u)
           \/ AdvanceCommit
           \/ AdvanceStore
           \/ UNCHANGED <<rows, clock>> /\ \A u \in Upserters : ~Accepts(u)
  <1> USE DEF Accepts, TableInv
  <1>1. ASSUME NEW v \in Upserters, NEW rec \in Record, Upsert(v, rec)
        PROVE  UNCHANGED <<rows, clock>> /\ \A u \in Upserters : ~Accepts(u)
    BY <1>1, Zenon DEF Upsert, TypeOK
  <1>2. ASSUME NEW v \in Upserters, UpsertTxn(v) \/ upsert(v)
        PROVE  UNCHANGED <<rows, clock>> /\ \A u \in Upserters : ~Accepts(u)
    BY <1>2, Zenon DEF UpsertTxn, upsert, TypeOK
  <1>3. ASSUME NEW t \in 1..MaxTime, Advance(t)
        PROVE  UNCHANGED <<rows, clock>> /\ \A u \in Upserters : ~Accepts(u)
    BY <1>3, Zenon DEF Advance, uvars
  <1>4. CASE AdvanceScan \/ AdvanceTxn \/ AdvanceDrop
    BY <1>4, Zenon DEF AdvanceScan, AdvanceTxn, AdvanceDrop, uvars
  <1>5. CASE UNCHANGED vars
    BY <1>5, Zenon DEF vars
  <1>6. QED
    BY <1>1, <1>2, <1>3, <1>4, <1>5, Zenon DEF Next

\* What an UpsertCommit does to the committed root.
LEMMA CommitEffect ==
    ASSUME TableInv, NEW u \in Upserters, UpsertCommit(u)
    PROVE  /\ arg[u] \in Record
           /\ called[u] <= clock
           /\ clock' = clock
           /\ \A v \in Upserters : Accepts(v) => v = u
           /\ \E tm \in called[u]..clock :
                 rows' = [rows EXCEPT ![arg[u].peer] =
                             [rec |-> arg[u], deadline |-> tm + arg[u].ttl]]
  BY Zenon DEF TableInv, TypeOK, LockOK, CallOK, TxnOK, UpsertCommit, Commit, Accepts

\* No row disappears in an UpsertCommit.
LEMMA CommitKeeps ==
    ASSUME TableInv, NEW u \in Upserters, UpsertCommit(u), NEW p \in Peers,
           rows[p] # None
    PROVE  rows'[p] # None
  <1>1. PICK tm \in called[u]..clock :
           rows' = [rows EXCEPT ![arg[u].peer] =
                       [rec |-> arg[u], deadline |-> tm + arg[u].ttl]]
    BY CommitEffect, Zenon
  <1>2. arg[u] \in Record /\ tm \in Nat
    BY CommitEffect DEF TableInv, TypeOK
  <1>3. [rec |-> arg[u], deadline |-> tm + arg[u].ttl] # None
    BY <1>2, RowTyped, ConstantsOK, Zenon
  <1>4. QED
    BY <1>1, <1>3, Zenon DEF TableInv, TypeOK, Roots

(***************************************************************************)
(* A true Upsert has stored its record and disturbed no other row: the     *)
(* transactions of concurrent Upserts and Advances do not lose updates.    *)
(***************************************************************************)
THEOREM UpsertIsolated == Spec => AcceptedIsStored
  <1>1. TableInv /\ [Next]_vars => [AcceptedIsStoredStep]_vars
    <2> SUFFICES ASSUME TableInv, [Next]_vars, NEW u \in Upserters, Accepts(u),
                        NEW p \in Peers
                 PROVE  IF p = arg[u].peer
                        THEN rows'[p] # None /\ rows'[p].rec = arg[u]
                        ELSE rows'[p] = rows[p]
      BY Zenon DEF AcceptedIsStoredStep
    <2>1. UpsertCommit(u)
      <3>1. ~AdvanceCommit /\ ~AdvanceStore
        BY Zenon DEF AdvanceCommit, AdvanceStore, uvars, Accepts
      <3>2. QED
        BY <3>1, RootSteps, CommitEffect, Zenon
    <2>2. PICK tm \in called[u]..clock :
             rows' = [rows EXCEPT ![arg[u].peer] =
                         [rec |-> arg[u], deadline |-> tm + arg[u].ttl]]
      BY <2>1, CommitEffect, Zenon
    <2>3. arg[u] \in Record /\ tm \in Nat
      BY <2>1, CommitEffect DEF TableInv, TypeOK
    <2>4. [rec |-> arg[u], deadline |-> tm + arg[u].ttl] # None
      BY <2>3, RowTyped, ConstantsOK, Zenon
    <2>5. QED
      BY <2>2, <2>4, Zenon DEF TableInv, TypeOK, Roots
  <1>2. QED
    BY <1>1, TableCorrect, PTL DEF Spec, AcceptedIsStored

(***************************************************************************)
(* Only an Advance past a row's deadline removes the row.                  *)
(***************************************************************************)
THEOREM EvictionSound == Spec => EvictsOnlyExpired
  <1>1. TableInv /\ [Next]_vars => [EvictsOnlyExpiredStep]_vars
    <2> SUFFICES ASSUME TableInv, [Next]_vars, NEW p \in Peers,
                        rows[p] # None, rows'[p] = None
                 PROVE  rows[p].deadline < now /\ clock < now
      BY Zenon DEF EvictsOnlyExpiredStep
    <2>1. AdvanceCommit
      BY RootSteps, CommitKeeps, Zenon DEF AdvanceStore
    <2>2. rows' = dropExpired(rows, now) /\ clock < now
      BY <2>1, Zenon DEF AdvanceCommit, Commit, TableInv, TxnOK, CallOK
    <2>3. QED
      BY <2>2, Zenon DEF dropExpired, expiredRecords
  <1>2. QED
    BY <1>1, TableCorrect, PTL DEF Spec, EvictsOnlyExpired

(***************************************************************************)
(* The deadline of an accepted record counts from a time within its call.  *)
(***************************************************************************)
THEOREM DeadlineCorrect == Spec => DeadlineInCall
  <1>1. TableInv /\ [Next]_vars => [DeadlineInCallStep]_vars
    <2> SUFFICES ASSUME TableInv, [Next]_vars, NEW u \in Upserters, Accepts(u)
                 PROVE  /\ called[u] + arg[u].ttl <= rows'[arg[u].peer].deadline
                        /\ rows'[arg[u].peer].deadline <= clock + arg[u].ttl
      BY Zenon DEF DeadlineInCallStep
    <2>1. UpsertCommit(u)
      <3>1. ~AdvanceCommit /\ ~AdvanceStore
        BY Zenon DEF AdvanceCommit, AdvanceStore, uvars, Accepts
      <3>2. QED
        BY <3>1, RootSteps, CommitEffect, Zenon
    <2>2. PICK tm \in called[u]..clock :
             rows' = [rows EXCEPT ![arg[u].peer] =
                         [rec |-> arg[u], deadline |-> tm + arg[u].ttl]]
      BY <2>1, CommitEffect, Zenon
    <2>3. arg[u] \in Record
      BY <2>1, CommitEffect, Zenon
    <2>4. arg[u].ttl \in Nat /\ arg[u].peer \in Peers
      BY <2>3, ConstantsOK, Zenon DEF Record
    <2>5. rows'[arg[u].peer].deadline = tm + arg[u].ttl
      BY <2>2, <2>4, Zenon DEF TableInv, TypeOK, Roots
    <2>6. QED
      BY <2>2, <2>4, <2>5 DEF TableInv, TypeOK
  <1>2. QED
    BY <1>1, TableCorrect, PTL DEF Spec, DeadlineInCall

\* While no two goroutines upsert the same peer's records, the row that valid
\* looked at can only have been evicted by the time Upsert commits.
LEMMA VerdictInv ==
    ASSUME PerPeerUpserts
    PROVE  Spec => []VerdictStands
  <1>1. Init => VerdictStands
    BY Zenon DEF Init, VerdictStands
  <1>2. TableInv /\ VerdictStands /\ [Next]_vars => VerdictStands'
    <2> SUFFICES ASSUME TableInv, VerdictStands, [Next]_vars,
                        NEW v \in Upserters, upc'[v] # "idle"
                 PROVE  valid(rows[arg[v].peer], arg[v])'
      BY Zenon DEF VerdictStands
    <2> USE DEF TableInv
    <2>1. ASSUME NEW u \in Upserters, NEW rec \in Record, Upsert(u, rec)
          PROVE  valid(rows[arg[v].peer], arg[v])'
      BY <2>1, Zenon DEF Upsert, TypeOK, valid, VerdictStands
    <2>2. ASSUME NEW u \in Upserters, UpsertTxn(u) \/ upsert(u)
          PROVE  valid(rows[arg[v].peer], arg[v])'
      BY <2>2, Zenon DEF UpsertTxn, upsert, TypeOK, valid, VerdictStands
    <2>3. ASSUME NEW u \in Upserters, UpsertCommit(u)
          PROVE  valid(rows[arg[v].peer], arg[v])'
      <3>1. v # u /\ upc[v] # "idle" /\ arg' = arg
        BY <2>3, Zenon DEF UpsertCommit, TypeOK
      <3>2. arg[v].peer # arg[u].peer
        BY <2>3, <3>1, PerPeerUpserts, Zenon DEF UpsertCommit, CallOK, PerPeerUpserts
      <3>3. arg[v].peer \in Peers
        BY <3>1, Zenon DEF CallOK, Record
      <3>4. rows'[arg[v].peer] = rows[arg[v].peer]
        <4>1. PICK row : rows' = [rows EXCEPT ![arg[u].peer] = row]
          BY <2>3, CommitEffect, Zenon
        <4>2. QED
          BY <3>2, <3>3, <4>1, Zenon DEF TypeOK, Roots
      <3>5. QED
        BY <3>1, <3>4, Zenon DEF VerdictStands, valid
    <2>4. CASE AdvanceCommit
      <3>1. upc[v] # "idle" /\ arg' = arg /\ rows' = dropExpired(rows, now)
        BY <2>4, Zenon DEF AdvanceCommit, Commit, uvars, TxnOK
      <3>2. arg[v].peer \in Peers
        BY <3>1, Zenon DEF CallOK, Record
      <3>3. rows'[arg[v].peer] \in {None, rows[arg[v].peer]}
        BY <3>1, <3>2, Zenon DEF dropExpired
      <3>4. QED
        BY <3>1, <3>3, Zenon DEF VerdictStands, valid
    <2>5. ASSUME NEW t \in 1..MaxTime, Advance(t)
          PROVE  valid(rows[arg[v].peer], arg[v])'
      BY <2>5, Zenon DEF Advance, uvars, VerdictStands, valid
    <2>6. CASE AdvanceScan \/ AdvanceTxn \/ AdvanceDrop \/ AdvanceStore
      BY <2>6, Zenon DEF AdvanceScan, AdvanceTxn, AdvanceDrop, AdvanceStore, uvars,
                  VerdictStands, valid
    <2>7. CASE UNCHANGED vars
      BY <2>7, Zenon DEF vars, VerdictStands, valid
    <2>8. QED
      BY <2>1, <2>2, <2>3, <2>4, <2>5, <2>6, <2>7, Zenon DEF Next
  <1>3. QED
    BY <1>1, <1>2, TableCorrect, PTL DEF Spec

(***************************************************************************)
(* As long as no two goroutines upsert records of one peer at a time,      *)
(* Upsert never overwrites a row with a stale record.                      *)
(***************************************************************************)
THEOREM StaleRejected ==
    ASSUME PerPeerUpserts
    PROVE  Spec => ReturnsFalseIfStale
  <1>1. TableInv /\ VerdictStands /\ [Next]_vars
          => [ReturnsFalseIfStaleStep]_vars
    BY Zenon DEF ReturnsFalseIfStaleStep, VerdictStands, valid, Accepts
  <1>2. QED
    BY <1>1, TableCorrect, VerdictInv, PTL DEF Spec, ReturnsFalseIfStale

(***************************************************************************)
(* As long as no two goroutines upsert records of one peer at a time, the  *)
(* table implements the atomic table of TableSpec.                         *)
(***************************************************************************)
THEOREM Atomicity ==
    ASSUME PerPeerUpserts
    PROVE  Spec => ImplementsTable
  <1>1. Init => Table!Init
    BY Zenon DEF Init, Table!Init
  <1>2. TableInv /\ VerdictStands /\ [Next]_vars
          => [Table!Next]_<<clock, rows>>
    <2> SUFFICES ASSUME TableInv, VerdictStands, [Next]_vars
                 PROVE  Table!Next \/ UNCHANGED <<clock, rows>>
      BY Zenon
    <2>1. ASSUME NEW u \in Upserters, UpsertCommit(u)
          PROVE  Table!Upsert(arg[u])
      <3>1. Table!News(rows[arg[u].peer], arg[u])
        BY <2>1, Zenon DEF UpsertCommit, VerdictStands, valid, Table!News
      <3>2. PICK tm \in called[u]..clock :
               rows' = [rows EXCEPT ![arg[u].peer] =
                           [rec |-> arg[u], deadline |-> tm + arg[u].ttl]]
        BY <2>1, CommitEffect, Zenon
      <3>3. tm \in 0..clock
        BY DEF TableInv, TypeOK
      <3>4. QED
        BY <2>1, <3>1, <3>2, <3>3, CommitEffect, Zenon DEF Table!Upsert
    <2>2. CASE AdvanceCommit
      <3>1. /\ rows' = dropExpired(rows, now)
            /\ now \in 1..MaxTime /\ clock < now
            /\ clock' = clock
        BY <2>2, Zenon DEF AdvanceCommit, Commit, TableInv, TxnOK, CallOK
      <3>2. Table!Evict(now)
        BY <3>1, Zenon DEF Table!Evict, dropExpired, expiredRecords, TableInv, TypeOK
      <3>3. QED
        BY <3>1, <3>2, Zenon DEF Table!Next
    <2>3. CASE AdvanceStore
      <3>1. now \in 1..MaxTime /\ Table!Tick(now)
        BY <2>3, Zenon DEF AdvanceStore, TableInv, TypeOK, CallOK, Table!Tick
      <3>2. QED
        BY <3>1, Zenon DEF Table!Next
    <2>4. QED
      BY <2>1, <2>2, <2>3, RootSteps, CommitEffect, Zenon DEF Table!Next
  <1>3. QED
    BY <1>1, <1>2, TableCorrect, VerdictInv, PTL
    DEF Spec, ImplementsTable, Table!Spec
-----------------------------------------------------------------------------
\* The Router is started once.
LEMMA RouterInitInv == RouterInit => StartInv
<1> SUFFICES ASSUME RouterInit PROVE StartInv
  BY Zenon
<1>1. RouterTypeOK
  BY Zenon DEF RouterInit, RouterTypeOK
<1>2. \A c \in Callers : bpc[c] # "start" /\ mu # c
  BY RouterOK, Zenon DEF RouterInit
<1> QED
  BY <1>1, <1>2 DEF RouterInit, StartInv, StartedOnce

\* A step of a caller between two places other than "start".
LEMMA CallerInv ==
  ASSUME StartInv, NEW c \in Callers, bpc[c] # "start", RouterTypeOK',
         bpc'[c] # "start", \A d \in Callers \ {c} : bpc'[d] = bpc[d],
         UNCHANGED <<mu, relayed>>, relaying => relaying'
  PROVE  StartInv'
BY Zenon DEF StartInv, StartedOnce

\* A step of a caller of Bootstrap keeps the invariant,
LEMMA BootstrapStepInv ==
  ASSUME StartInv, NEW c \in Callers, BootstrapStep(c) \/ send(c)
  PROVE  StartInv'
<1> USE RouterOK DEF router, callers, workers
<1>1. CASE setup(c)
  <2>1. RouterTypeOK'
    BY <1>1 DEF setup, at, RouterTypeOK, StartInv
  <2> QED
    BY <1>1, <2>1, CallerInv DEF setup, at, StartInv, RouterTypeOK
<1>2. CASE relayLoad(c)
  <2>1. RouterTypeOK'
    BY <1>2 DEF relayLoad, at, RouterTypeOK, StartInv
  <2> QED
    BY <1>2, <2>1, CallerInv DEF relayLoad, at, StartInv, RouterTypeOK
<1>3. CASE relayLock(c)
  <2>1. RouterTypeOK'
    BY <1>3 DEF relayLock, at, RouterTypeOK, StartInv
  <2> QED
    BY <1>3, <2>1 DEF relayLock, at, StartInv, StartedOnce, RouterTypeOK
<1>4. CASE relayStart(c)
  <2>1. relayed = 0 /\ relayed' = 1
    BY <1>4 DEF relayStart, at, StartInv, RouterTypeOK
  <2>2. RouterTypeOK'
    BY <1>4, <2>1 DEF relayStart, at, RouterTypeOK, StartInv
  <2> QED
    BY <1>4, <2>1, <2>2 DEF relayStart, at, StartInv, StartedOnce, RouterTypeOK
<1>5. CASE relayFails(c)
  <2>1. RouterTypeOK'
    BY <1>5 DEF relayFails, return, RouterTypeOK, StartInv
  <2> QED
    BY <1>5, <2>1 DEF relayFails, return, StartInv, StartedOnce, RouterTypeOK
<1>6. CASE checkOpen(c) \/ park(c) \/ sendClosed(c)
  <2>1. RouterTypeOK'
    BY <1>6 DEF checkOpen, park, sendClosed, at, RouterTypeOK, StartInv
  <2> QED
    BY <1>6, <2>1, CallerInv DEF checkOpen, park, sendClosed, at, StartInv, RouterTypeOK
<1>7. CASE checkClosing(c) \/ selectDone(c) \/ selectCtx(c)
  <2>1. RouterTypeOK'
    BY <1>7 DEF checkClosing, selectDone, selectCtx, return, RouterTypeOK, StartInv
  <2> QED
    BY <1>7, <2>1, CallerInv DEF checkClosing, selectDone, selectCtx, return, StartInv, RouterTypeOK
<1>8. CASE send(c)
  <2>1. RouterTypeOK'
    BY <1>8 DEF send, return, RouterTypeOK, StartInv
  <2> QED
    BY <1>8, <2>1, CallerInv DEF send, return, StartInv, RouterTypeOK
<1> QED
  BY <1>1, <1>2, <1>3, <1>4, <1>5, <1>6, <1>7, <1>8, Zenon DEF BootstrapStep

\* and so does every other step.
LEMMA RouterStepInv == StartInv /\ [RouterNext]_rvars => StartInv'
<1> SUFFICES ASSUME StartInv, [RouterNext]_rvars PROVE StartInv'
  BY Zenon
<1> USE RouterOK DEF router, callers, workers
\* Steps of the others leave the callers and the lock alone.
<1>1. ASSUME RouterTypeOK', UNCHANGED <<bpc, mu, relayed>>, relaying => relaying' PROVE StartInv'
  BY <1>1, Zenon DEF StartInv, StartedOnce
<1>2. ASSUME NEW c \in Callers, Bootstrap(c) \/ CtxDone(c) PROVE StartInv'
  <2>1. CASE Bootstrap(c)
    <3>1. RouterTypeOK'
      <4>1. calls' \in [Callers -> Nat]
        BY <2>1 DEF Bootstrap, RouterTypeOK, StartInv
      <4>2. late' \in [Callers -> BOOLEAN]
        BY <2>1, Zenon DEF Bootstrap, RouterTypeOK, StartInv
      <4> QED
        BY <2>1, <4>1, <4>2 DEF Bootstrap, at, RouterTypeOK, StartInv
    <3> QED
      BY <2>1, <3>1, CallerInv DEF Bootstrap, at, StartInv, RouterTypeOK
  <2>2. CASE CtxDone(c)
    BY <1>1, <2>2 DEF CtxDone, StartInv, RouterTypeOK
  <2> QED
    BY <1>2, <2>1, <2>2, Zenon
<1>3. ASSUME NEW s \in Stoppers, Stop(s) \/ StopClock(s) PROVE StartInv'
  <2>1. stopped' \in BOOLEAN /\ relaying' \in BOOLEAN
    BY <1>3, Zenon DEF Stop, StopClock, StartInv, RouterTypeOK
  <2>2. spc' \in [Stoppers -> {"idle", "clock", "returned", "panic"}]
    BY <1>3, Zenon DEF Stop, StopClock, StartInv, RouterTypeOK
  <2>3. UNCHANGED <<Clock, init, mu, relayed, callers, workers>> /\ (relaying => relaying')
    BY <1>3 DEF Stop, StopClock
  <2>4. RouterTypeOK'
    BY <2>1, <2>2, <2>3 DEF StartInv, RouterTypeOK
  <2> QED
    BY <1>1, <2>3, <2>4, Zenon
<1>4. CASE Fire \/ TickStep
  <2>1. /\ closed' \in BOOLEAN /\ tickC' \in BOOLEAN /\ cancelled' \in BOOLEAN
        /\ tpc' \in {"none", "select", "cancel", "close", "exit"}
    BY <1>4, Zenon DEF Fire, TickStep, advanceTick, advanceDone, advanceCancel, advanceClose,
                StartInv, RouterTypeOK
  <2>2. hpc' \in {"none", "recv", "emit", "backoff", "exit"}
    BY <1>4, Zenon DEF Fire, TickStep, advanceTick, advanceDone, advanceCancel, advanceClose,
                StartInv, RouterTypeOK
  <2>3. UNCHANGED <<router, callers, spc>>
    BY <1>4, Zenon DEF Fire, TickStep, advanceTick, advanceDone, advanceCancel, advanceClose
  <2>4. RouterTypeOK'
    BY <2>1, <2>2, <2>3, Zenon DEF StartInv, RouterTypeOK
  <2> QED
    BY <1>1, <2>3, <2>4, Zenon
<1>5. CASE HeartbeatStep
  BY <1>1, <1>5 DEF HeartbeatStep, emit, emitFails, emitCancelled, resume, backoffDone,
                    heartbeatEnd, hstep, StartInv, RouterTypeOK
<1>6. CASE UNCHANGED rvars
  BY <1>1, <1>6 DEF rvars, StartInv, RouterTypeOK
<1> QED
  BY <1>2, <1>3, <1>4, <1>5, <1>6, BootstrapStepInv, Zenon DEF RouterNext

(***************************************************************************)
(* relay starts the Router at most once: relaying is set, under the lock,  *)
(* by the caller that goes on to call Topic.Relay, and is never cleared.   *)
(***************************************************************************)
THEOREM StartsOnce == RouterSpec => []StartInv
BY RouterInitInv, RouterStepInv, PTL DEF RouterSpec
=============================================================================
