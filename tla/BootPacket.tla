----------------------------- MODULE BootPacket -----------------------------
(***************************************************************************)
(* The signed packets of the bootstrap services and the cache of them that *)
(* every socket keeps (boot/socket: record.go, packet.go, cache.go, and    *)
(* the validator of conn.go), with the logical distance of survey.go.      *)
(***************************************************************************)
EXTENDS Integers, FiniteSets

CONSTANTS
    Dists,       \* how many distances the wire has, 2^8
    CacheSize,   \* slots of a RecordCache
    AddrsOf(_)   \* host.Addrs

ASSUME PacketOK ==
    /\ Dists \in Nat \ {0}
    /\ CacheSize \in Nat /\ CacheSize >= 2

\* Keys of the cache.
Key(ns, dist, kind) == [ns |-> ns, dist |-> dist, kind |-> kind]
requestKey(ns) == Key(ns, 0, "request")
responseKey(ns) == Key(ns, 0, "response")

\* Fault: a survey is looked up by its namespace alone.
surveyKeyNear(ns, dist) == Key(ns, 0, "survey")

surveyKey(ns, dist) == Key(ns, dist, "survey")

\* A Packet is a union: which member is set, and the fields of this one.
Packet(which, fields) == [which |-> which, fields |-> fields]

\* The bindFuncs.
request(from) == Packet("request", [from |-> from])
surveyRequest(from, dist) == Packet("survey", [from |-> from, distance |-> dist])
response(h) == Packet("response", [peer |-> h, addrs |-> AddrsOf(h)])

\* A packet with its namespace, and sealed with the key of its sender.
newPacket(ns, bind) == [ns |-> ns, packet |-> bind]
newCacheEntry(bind, self, key) == [by |-> self, rec |-> newPacket(key.ns, bind)]

\* What is read from an envelope: Record.Type, Namespace and Peer.
Type(e) == e.rec.packet.which
Namespace(e) == e.rec.ns
Peer(e) == IF Type(e) = "response" THEN e.rec.packet.fields.peer ELSE e.rec.packet.fields.from

\* TwoQueueCache.Add: a full cache lets go of some entry.
Add(cache, key, e) ==
    IF Cardinality(cache) < CacheSize THEN {cache \cup {[key |-> key, env |-> e]}}
    ELSE {(cache \ {old}) \cup {[key |-> key, env |-> e]} : old \in cache}

\* The outcomes of LoadRequest, LoadSurveyRequest and LoadResponse: what is in
\* the cache is used as it is.
Load(cache, key, bind, self) ==
    LET hit == {c \in cache : c.key = key}
        e   == newCacheEntry(bind, self, key)
    IN IF hit # {} THEN {[cache |-> cache, env |-> c.env] : c \in hit}
       ELSE {[cache |-> new, env |-> e] : new \in Add(cache, key, e)}

LoadRequest(cache, self, ns) ==
    Load(cache, requestKey(ns), request(self), self)
LoadSurveyRequest(cache, self, ns, dist) ==
    Load(cache, surveyKey(ns, dist), surveyRequest(self, dist), self)
LoadResponse(cache, self, ns) ==
    Load(cache, responseKey(ns), response(self), self)

\* BasicValidator: not one's own, and signed by the peer it is about.
BasicValidator(self, e) == Peer(e) # self /\ e.by = Peer(e)

\* Request.Distance: a plain request has none.
Distance(e) == IF Type(e) = "survey" THEN e.rec.packet.fields.distance ELSE 0

\* ignore: the peers are further apart than d allows.  Their xor has a bit from
\* d on exactly if they differ there.
ignore(local, remote, d) == local \div 2^d # remote \div 2^d

\* Response.Bind
Bind(e) == [id |-> Peer(e), addrs |-> e.rec.packet.fields.addrs]
=============================================================================
