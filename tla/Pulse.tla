------------------------------- MODULE Pulse --------------------------------
(***************************************************************************)
(* Heartbeats (cluster/pulse): the message in which a host announces       *)
(* itself, and the record that others make of it.                          *)
(***************************************************************************)
EXTENDS Schema, PulseTTL

\* Heartbeat.SetMeta, with the fields in some order.
SetMeta(fields) == [i \in DOMAIN fields |-> FieldString(fields[i])]

\* The struct on the wire, and how it is filled in.
Heartbeat(ms, server, host, meta) ==
    [ttl |-> ms, server |-> server, host |-> host, meta |-> meta]
NewHeartbeat(ttl, server, host, meta) == Heartbeat(SetTTL(ttl), server, host, meta)

\* routingRecord: the record of a pubsub message from a peer.
record(peer, seq, hb) ==
    [peer |-> peer, seq |-> seq, server |-> hb.server, ttl |-> TTL(hb.ttl),
     host |-> hb.host, meta |-> hb.meta]
=============================================================================
