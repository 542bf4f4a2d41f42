----------------------------- MODULE TableSpec -----------------------------
(***************************************************************************)
(* What a routing table promises its callers: every Upsert and every       *)
(* eviction takes effect at one instant.                                   *)
(***************************************************************************)
EXTENDS Integers

CONSTANTS Peers, Record, Times, None

VARIABLES
    clock,  \* the time up to which the table has advanced
    rows    \* the row of each peer, or None

\* rec is news to a table that holds old for its peer: a later record of the
\* same instance, or a record of an instance with a lower sequence number.
News(old, rec) ==
    old # None =>
        IF old.rec.server = rec.server THEN old.rec.seq < rec.seq
                                       ELSE old.rec.seq > rec.seq

Init ==
    /\ clock = 0
    /\ rows = [p \in Peers |-> None]

\* Replace the row of rec's peer; the row lives for rec's TTL, from a time
\* that the table has already reached.
Upsert(rec) ==
    /\ News(rows[rec.peer], rec)
    /\ \E at \in 0..clock :
          rows' = [rows EXCEPT ![rec.peer] =
                      [rec |-> rec, deadline |-> at + rec.ttl]]
    /\ UNCHANGED clock

\* Remove exactly the rows whose deadline is before some later time t.
Evict(t) ==
    /\ t > clock
    /\ rows' = [p \in Peers |->
                   IF rows[p] # None /\ rows[p].deadline < t
                   THEN None ELSE rows[p]]
    /\ UNCHANGED clock

\* Time only moves forward.
Tick(t) ==
    /\ t > clock
    /\ clock' = t
    /\ UNCHANGED rows

Next ==
    \/ \E rec \in Record : Upsert(rec)
    \/ \E t \in Times : Evict(t) \/ Tick(t)

Spec == Init /\ [][Next]_<<clock, rows>>
=============================================================================
