---------------------------- MODULE MCDiscovery -----------------------------
\* Instances of Discovery for TLC.
EXTENDS Discovery, TLC

MCAddrsOf(h) == {h}
MCAt == [h \in Hosts |-> h + 1]
MCStatic == <<[id |-> 7, addrs |-> {7}], infoOf(Client)>>

ifiOf(flags, lo, joins) == [flags |-> flags, lo |-> lo, joins |-> joins]
loopback == ifiOf({"up", "multicast", "loopback"}, TRUE, TRUE)

maddrOf(protos, val, ones) ==
    [protos |-> protos, n |-> Cardinality(protos), val |-> val, ones |-> ones,
     group |-> TRUE, ifi |-> loopback]

\* Multicast addresses that cannot be used: not of a group, and on interfaces
\* that are down, without multicast, not quite a loopback, or that refuse.
Unusable ==
    LET m == maddrOf({"ip", "udp", "multicast"}, 0, 0)
    IN {[m EXCEPT !.group = FALSE]}
       \cup {[m EXCEPT !.ifi = i] :
                i \in {ifiOf({"multicast"}, FALSE, TRUE), ifiOf({"up"}, FALSE, TRUE),
                       ifiOf({"up", "multicast"}, TRUE, TRUE), ifiOf({"up", "multicast"}, FALSE, FALSE)}}

\* Blocks of every size, and one too small, at both ends of the address space;
\* ports at both ends.
MCMAddrs ==
    Unusable
    \cup {maddrOf({"ip", "udp", "cidr"}, 5, o) : o \in MinOnes..(Bits + 1)}
    \cup {maddrOf({"ip", "udp", "cidr"}, 0, 2)}
    \cup {maddrOf({"ip", "udp"}, v, 0) : v \in {0, 3}}
    \cup {maddrOf({"ip", "udp", "multicast"}, 0, 0),
          maddrOf({"ip", "udp", "multicast", "survey"}, 0, 0),
          maddrOf({"ip", "tcp", "p2p"}, 0, 0)}

\* With and without a limit; a GradualSurveyor without.
MCCalls ==
    {c \in [maddr : MCMAddrs, limit : {0, 1}] :
        "survey" \in c.maddr.protos => c.limit = 0}
=============================================================================
