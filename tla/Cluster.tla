------------------------------- MODULE Cluster ------------------------------
(***************************************************************************)
(* One host seen from another: a Router announces itself (cluster.go),     *)
(* pubsub carries its heartbeats, late, out of order, twice or not at all, *)
(* and the validator of the other host (pulse.go) upserts them in its      *)
(* routing table (table.go), which its own Router advances.  The host may  *)
(* crash and start again as a new instance.                                *)
(*                                                                         *)
(* Both clocks tick with the same period, one after the other.  Times are  *)
(* relative to the last tick of the clock that they are compared with, and *)
(* sequence numbers to the one that was used last: age 0 is the latest, a  *)
(* negative one is above it.  How the two goroutines of a Router and the   *)
(* transactions of a table interleave is the subject of Router and         *)
(* RoutingTable.                                                           *)
(***************************************************************************)
EXTENDS PulseTTL, FiniteSets

CONSTANTS
    RouterTTL,    \* Router.TTL
    Tick,         \* the period of the Clock
    MaxLag,       \* bound on ages: a message is not overtaken by more
    MaxNet,       \* bound on the messages in flight
    Back,         \* by how much a new instance's sequence numbers may be lower
    MaxRestarts,  \* bound on the instances of the host
    None          \* no row

ASSUME ClusterOK ==
    /\ Tick \in Nat \ {0}
    /\ RouterTTL \in Nat \ {0}
    /\ RouterTTL % Tick = 0
    /\ TTL(SetTTL(RouterTTL)) = RouterTTL
    /\ MaxLag \in Nat \ {0}
    /\ MaxNet \in Nat /\ Back \in Nat /\ MaxRestarts \in Nat
    /\ None \notin [server : Int, age : Int, left : Int]

VARIABLES
    up,       \* the host runs
    server,   \* Router.id, the instance
    next,     \* advance: when to announce, relative to the last tick
    hb,       \* heartbeat: "idle", "emit", "backoff"
    phase,    \* whose clock ticks next: "host", "observer"
    net,      \* messages in flight; new until they are delivered for the first time
    row,      \* the observer's row of the host, and what is left of its TTL
    healthy   \* history: no fault since the observer got the latest heartbeat

vars == <<up, server, next, hb, phase, net, row, healthy>>
host == <<up, server, next, hb>>

Ages == -(Back * MaxRestarts)..MaxLag
Messages == [server : 0..MaxRestarts, age : Ages, ttl : 0..(TTLRange - 1),
             copies : 1..2, new : BOOLEAN]

TypeOK ==
    /\ up \in BOOLEAN
    /\ server \in 0..MaxRestarts
    /\ next \in -Tick..RouterTTL
    /\ hb \in {"idle", "emit", "backoff"}
    /\ phase \in {"host", "observer"}
    /\ net \subseteq Messages
    /\ row = None \/ row \in [server : 0..MaxRestarts, age : Ages, left : Nat]
    /\ healthy \in BOOLEAN

Init ==
    /\ up = TRUE
    /\ server = 0
    /\ next = 0
    /\ hb = "idle"
    /\ phase = "host"
    /\ net = {}
    /\ row = None
    /\ healthy = FALSE

\* Everything's age when the last sequence number moves up by d.
older(a, d) == IF a + d > MaxLag THEN MaxLag ELSE a + d
olderRow(d) == IF row = None THEN None ELSE [row EXCEPT !.age = older(@, d)]
olderNet(d) == {[m EXCEPT !.age = older(@, d)] : m \in {m \in net : m.age + d < MaxLag}}
-----------------------------------------------------------------------------
\* The host.

\* jitterbug.Uniform with Min TTL/2 - 1, below TTL.
jitter == (RouterTTL \div 2 - 1)..(RouterTTL - 1)

\* A tick in advance: when it is time, heartbeat is told unless it is busy,
\* and the next announcement is put off in either case.
advance ==
    /\ phase = "host"
    /\ phase' = "observer"
    /\ IF up /\ next - Tick < 0
       THEN /\ next' \in jitter
            /\ hb' = IF hb = "idle" THEN "emit" ELSE hb
            /\ healthy' = (healthy /\ hb = "idle")
       ELSE /\ next' = IF up THEN next - Tick ELSE next
            /\ UNCHANGED <<hb, healthy>>
    /\ UNCHANGED <<up, server, net, row>>

\* A call of Bootstrap announces the host at once.
Bootstrap ==
    /\ up
    /\ hb = "idle"
    /\ hb' = "emit"
    /\ UNCHANGED <<up, server, next, phase, net, row, healthy>>

\* emit publishes the heartbeat.
emit ==
    /\ hb = "emit"
    /\ Cardinality(net) < MaxNet
    /\ hb' = "idle"
    /\ \E c \in 1..2 :
          net' = olderNet(1) \cup
                    {[server |-> server, age |-> 0, ttl |-> SetTTL(RouterTTL),
                      copies |-> c, new |-> TRUE]}
    /\ row' = olderRow(1)
    /\ healthy' = (healthy /\ Cardinality(olderNet(1)) = Cardinality(net))
    /\ UNCHANGED <<up, server, next, phase>>

emitFails ==
    /\ hb = "emit"
    /\ hb' = "backoff"
    /\ healthy' = FALSE
    /\ UNCHANGED <<up, server, next, phase, net, row>>

\* The back-off of heartbeat ends.
resume ==
    /\ hb = "backoff"
    /\ hb' = "idle"
    /\ UNCHANGED <<up, server, next, phase, net, row, healthy>>

Crash ==
    /\ up
    /\ up' = FALSE
    /\ hb' = "idle"
    /\ healthy' = FALSE
    /\ UNCHANGED <<server, next, phase, net, row>>

\* A new Router: setup draws an instance ID, and advance announces it at the
\* first tick.  Pubsub goes on with its sequence numbers, or starts lower.
setup ==
    /\ ~up
    /\ server < MaxRestarts
    /\ up' = TRUE
    /\ server' = server + 1
    /\ next' = 0
    /\ \E d \in {0, -Back} : net' = olderNet(d) /\ row' = olderRow(d)
    /\ UNCHANGED <<hb, phase, healthy>>
-----------------------------------------------------------------------------
\* The observer.

\* Fault: whatever arrives last is kept.
validAlways(m) == TRUE

\* Table.valid, on ages.
valid(m) ==
    \/ row = None
    \/ row.server = m.server /\ row.age > m.age
    \/ row.server # m.server /\ row.age < m.age

\* Fault: a record that is refused still extends the row that is there.
ValidatorTouches(m) ==
    /\ m \in net
    /\ net' = (net \ {m}) \cup
                 (IF m.copies = 2 THEN {[m EXCEPT !.copies = 1, !.new = FALSE]} ELSE {})
    /\ row' = IF valid(m) THEN [server |-> m.server, age |-> m.age, left |-> TTL(m.ttl)]
              ELSE [row EXCEPT !.left = TTL(m.ttl)]
    /\ healthy' = IF valid(m) THEN m.server = server /\ up /\ m.age = 0 /\ m.new
                  ELSE healthy
    /\ UNCHANGED <<host, phase>>

\* NewValidator: the record of the message is upserted, with a deadline that
\* counts from the table's clock.
Validator(m) ==
    /\ m \in net
    /\ net' = (net \ {m}) \cup
                 (IF m.copies = 2 THEN {[m EXCEPT !.copies = 1, !.new = FALSE]} ELSE {})
    /\ row' = IF valid(m) THEN [server |-> m.server, age |-> m.age, left |-> TTL(m.ttl)] ELSE row
    /\ healthy' = IF valid(m) THEN m.server = server /\ up /\ m.age = 0 /\ m.new
                  ELSE healthy
    /\ UNCHANGED <<host, phase>>

\* The network drops a message.
Lose(m) ==
    /\ m \in net
    /\ net' = net \ {m}
    /\ healthy' = (healthy /\ ~m.new)
    /\ UNCHANGED <<host, phase, row>>

\* Fault: a row goes when its deadline is the current time.
AdvanceIncl ==
    /\ phase = "observer"
    /\ phase' = "host"
    /\ row' = IF row = None \/ row.left - Tick <= 0 THEN None
              ELSE [row EXCEPT !.left = @ - Tick]
    /\ healthy' = (healthy /\ hb # "emit" /\ \A m \in net : ~m.new)
    /\ UNCHANGED <<host, net>>

\* Fault: the clock of the table moves, but nothing is evicted.
AdvanceKeeps ==
    /\ phase = "observer"
    /\ phase' = "host"
    /\ row' = IF row = None \/ row.left < Tick THEN row
              ELSE [row EXCEPT !.left = @ - Tick]
    /\ healthy' = (healthy /\ hb # "emit" /\ \A m \in net : ~m.new)
    /\ UNCHANGED <<host, net>>

\* Table.Advance: rows go when their deadline is before the current time.
Advance ==
    /\ phase = "observer"
    /\ phase' = "host"
    /\ row' = IF row = None \/ row.left - Tick < 0 THEN None
              ELSE [row EXCEPT !.left = @ - Tick]
    /\ healthy' = (healthy /\ hb # "emit" /\ \A m \in net : ~m.new)
    /\ UNCHANGED <<host, net>>

Deliver == \E m \in net : Validator(m)
DeliverLatest == \E m \in net : m.server = server /\ Validator(m)
Drop == \E m \in net : Lose(m)

Next ==
    \/ advance \/ Bootstrap \/ emit \/ emitFails \/ resume \/ Crash \/ setup
    \/ Deliver \/ Drop \/ Advance

Spec == Init /\ [][Next]_vars

\* Clocks tick and goroutines run; not every attempt to publish fails, and
\* not every message of an instance that goes on publishing is lost.
FairSpec ==
    /\ Spec
    /\ WF_vars(advance) /\ WF_vars(Advance)
    /\ WF_vars(emit \/ emitFails) /\ SF_vars(emit) /\ WF_vars(resume)
    /\ WF_vars(Deliver \/ Drop) /\ SF_vars(DeliverLatest)
-----------------------------------------------------------------------------
(***************************************************************************)
(* While every heartbeat is published at once and arrives before the       *)
(* observer's next tick, the host does not lapse from the table: the       *)
(* longest jitter of advance, the deadline that counts from a clock that   *)
(* lags behind, and the strict comparisons in advance and in dropExpired   *)
(* leave no gap between two heartbeats, but only just.                     *)
(***************************************************************************)
HealthyStays == [][row # None /\ row' = None => ~healthy']_vars

(***************************************************************************)
(* However pubsub delays and repeats heartbeats, the row of an instance is *)
(* never replaced by an earlier heartbeat of that instance.                *)
(***************************************************************************)
OrderKept ==
    [][Deliver /\ row # None /\ row'.server = row.server => row'.age <= row.age]_vars

(***************************************************************************)
(* The instance that runs gets its row, although valid refuses it for as   *)
(* long as a row of an earlier instance with a lower sequence number is    *)
(* there.                                                                  *)
(***************************************************************************)
InstanceSeen ==
    \A s \in 0..MaxRestarts :
        up /\ server = s ~> ~up \/ (row # None /\ row.server = s)

(***************************************************************************)
(* A host that is gone for good leaves the table and does not come back,   *)
(* whatever of it was still in flight.                                     *)
(***************************************************************************)
CrashedGone == (<>[]~up) => <>[](row = None)
=============================================================================
