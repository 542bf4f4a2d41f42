----------------------------- MODULE Discovery ------------------------------
(***************************************************************************)
(* A call of FindPeers and the hosts that answer it, for every service     *)
(* that bootutil.Dial knows: static addresses, a Crawler over a CIDR block *)
(* or over ports, a Surveyor and a GradualSurveyor.  Packets may be lost,  *)
(* repeated and overtaken; the socket may be closed.  What goes on inside  *)
(* a socket with several subscriptions is the subject of BootSocket.       *)
(***************************************************************************)
EXTENDS BootPacket, CrawlRange, Sequences

CONSTANTS
    Hosts,       \* peer IDs, numbers whose bits are compared
    Client,      \* the host that calls FindPeers
    At,          \* where the hosts listen: [Hosts -> Space]
    Static,      \* StaticAddrs: a sequence of infos
    Calls,       \* what is dialled, and discovery.Limit, zero for none; of a
                 \* multiaddr: what protocols it names, how many, the values, and
                 \* the group and the interface of a multicast address
    Buf,         \* capacity of a subscription's channel
    MaxNet,      \* bound on the packets in flight
    NS, Group, nil, Err, Empty

ASSUME DiscoveryOK ==
    /\ Client \in Hosts /\ Hosts \subseteq Nat
    /\ At \in [Hosts -> Space]
    /\ Buf \in Nat \ {0} /\ MaxNet \in Nat \ {0}
    /\ \A h \in Hosts : ~ignore(Client, h, Dists - 1)
    /\ \A c \in Calls : c.limit \in Nat /\ c.maddr.val \in Space
    /\ \A c \in Calls :
          "cidr" \in c.maddr.protos => c.maddr.ones \in Nat /\ c.maddr.ones >= MinOnes
    /\ Err \notin {"static", "crawl", "survey", "gradual"}
    /\ Static \in Seq({Static[i] : i \in DOMAIN Static})
    /\ \A i \in DOMAIN Static : Static[i] # Empty
    /\ \A h \in Hosts : [id |-> h, addrs |-> AddrsOf(h)] # Empty

VARIABLES
    maddr,    \* what was dialled
    limit,    \* opts.Limit
    call,     \* FindPeers and its goroutine: "no", "crawl", "wait", "gradual", "done"
    ctx,      \* the caller's context lives
    open,     \* the client's socket is open
    sub,      \* found: the subscription, or nil
    out,      \* GradualSurveyor's out
    attempt,  \* Backoff.Attempt, as far as the wire shows it
    range,    \* the Crawler's iter, or nil
    advt,     \* hosts whose sockets track NS
    cache,    \* RecordCache of every host
    net,      \* packets in flight
    asked,    \* history: the addresses that were asked, in order
    got       \* history: what the caller received

vars == <<maddr, limit, call, ctx, open, sub, out, attempt, range, advt, cache, net, asked, got>>
finder == <<maddr, limit, call, attempt, range, asked>>
-----------------------------------------------------------------------------
\* bootutil

hasBootProto(m, p) == p \in m.protos
IsPortRange(m) == m.n <= 2 /\ hasBootProto(m, "ip") /\ hasBootProto(m, "udp")

\* The interface that the address names can be used for multicast, and lets a
\* socket join the group.
ResolveMulticastInterface(m) ==
    /\ {"up", "multicast"} \subseteq m.ifi.flags
    /\ m.ifi.lo => "loopback" \in m.ifi.flags
ResolveMulticast(m) == hasBootProto(m, "udp") /\ ResolveMulticastInterface(m)
newMulticastConn(m) == m.ifi.joins
JoinMulticastGroup(m) == m.group /\ newMulticastConn(m)

DialMulticast(m) ==
    IF ~ResolveMulticast(m) \/ ~JoinMulticastGroup(m) THEN Err
    ELSE IF hasBootProto(m, "survey") THEN "gradual" ELSE "survey"

\* The service that Dial makes.
Dial(m) ==
    CASE hasBootProto(m, "p2p") -> "static"
      [] ~hasBootProto(m, "p2p") /\ hasBootProto(m, "cidr") -> "crawl"
      [] m.protos \cap {"p2p", "cidr"} = {} /\ hasBootProto(m, "multicast") -> DialMulticast(m)
      [] m.protos \cap {"p2p", "cidr", "multicast"} = {} /\ IsPortRange(m) -> "crawl"
      [] OTHER -> Err

\* The service that Listen makes.
Listen(m) ==
    CASE hasBootProto(m, "cidr") -> "crawl"
      [] ~hasBootProto(m, "cidr") /\ hasBootProto(m, "multicast") -> DialMulticast(m)
      [] OTHER -> Err

\* TranscoderCIDR: a block has no more ones than an address has bits.
ValidateBytes(m) == hasBootProto(m, "cidr") => m.ones <= Bits

\* What the texts of multiaddrs make: only those that parse are dialled.
DialString(m) == IF ValidateBytes(m) THEN Dial(m) ELSE Err
ListenString(m) == IF ValidateBytes(m) THEN Listen(m) ELSE Err

\* The ranges that the Crawler's strategy may return.
ParseCIDR(m) == NewCIDR(m.val, m.ones)
DialPortRange(m) == {NewPortRange(m.val, m.val)}
Strategy(m) == IF hasBootProto(m, "cidr") THEN ParseCIDR(m) ELSE DialPortRange(m)

\* Surveyors share a group, and their connections pass on what was sent to it;
\* a crawler's socket gets what was sent to its address.
Multicast == hasBootProto(maddr, "multicast")
Reaches(e, h) == e.to = IF Multicast THEN Group ELSE At[h]
-----------------------------------------------------------------------------
\* Subscriptions of the client's socket.

Subscribe == [buf |-> <<>>, open |-> TRUE, left |-> limit]
cancel(s) == IF s = nil THEN nil ELSE [s EXCEPT !.open = FALSE]

\* dispatch: a subscription that got all it asked for is released.
dispatch(s, info) ==
    IF s = nil \/ ~s.open \/ Len(s.buf) >= Buf THEN s
    ELSE [buf |-> Append(s.buf, info), open |-> s.left # 1,
          left |-> IF s.left = 0 THEN 0 ELSE s.left - 1]

Init ==
    /\ \E c \in Calls : maddr = c.maddr /\ limit = c.limit
    /\ call = "no"
    /\ ctx = TRUE
    /\ open = TRUE
    /\ sub = nil
    /\ out = <<>>
    /\ attempt = 0
    /\ range = nil
    /\ advt \in {{}, {Client}}
    /\ cache = [h \in Hosts |-> {}]
    /\ net = {}
    /\ asked = <<>>
    /\ got = {}

\* Socket.Send on the socket of h: to the network, which loses a packet when it
\* is full.
Send(h, loaded, to) ==
    LET e == [to |-> to, env |-> loaded.env]
    IN /\ cache' = [cache EXCEPT ![h] = loaded.cache]
       /\ \/ Cardinality(net) < MaxNet /\ net' = net \cup {e}
          \/ Cardinality(net) = MaxNet /\ \E p \in net : net' = (net \ {p}) \cup {e}

\* SendSurveyRequest succeeds; or it fails, before or after the packet is cached.
SendSurvey(dist) ==
    /\ open
    /\ \E l \in LoadSurveyRequest(cache[Client], Client, NS, dist) : Send(Client, l, Group)
SendFails(loads) ==
    /\ \/ UNCHANGED cache
       \/ \E l \in loads : cache' = [cache EXCEPT ![Client] = l.cache]
    /\ UNCHANGED net
-----------------------------------------------------------------------------
\* FindPeers

\* A channel that holds all it will ever have.
limited(k, ps) == IF k > 0 /\ k < Len(ps) THEN SubSeq(ps, 1, k) ELSE ps
staticChan(ps) == [buf |-> ps, open |-> FALSE, left |-> 0]

FindStatic ==
    /\ DialString(maddr) = "static"
    /\ sub' = staticChan(limited(limit, Static))
    /\ call' = "done"
    /\ UNCHANGED <<attempt, range, cache, net>>

FindCrawl ==
    /\ DialString(maddr) = "crawl"
    /\ range' \in Strategy(maddr)
    /\ sub' = IF open THEN Subscribe ELSE cancel(Subscribe)
    /\ call' = "crawl"
    /\ UNCHANGED <<attempt, cache, net>>

\* Surveyor.FindPeers asks all the hosts, GradualSurveyor.FindPeers starts with
\* the closest.
FindSurvey ==
    LET k == DialString(maddr)
        d == IF k = "gradual" THEN 0 ELSE Dists - 1
    IN /\ k \in {"survey", "gradual"}
       /\ \/ /\ SendSurvey(d)
             /\ sub' = Subscribe
             /\ call' = IF k = "gradual" THEN "gradual" ELSE "wait"
             /\ attempt' = IF k = "gradual" THEN 1 % Dists ELSE 0
          \/ /\ SendFails(LoadSurveyRequest(cache[Client], Client, NS, d))
             /\ sub' = cancel(Subscribe)
             /\ call' = "done"
             /\ UNCHANGED attempt
       /\ UNCHANGED range

FindPeers ==
    /\ call = "no"
    /\ FindStatic \/ FindCrawl \/ FindSurvey
    /\ UNCHANGED <<maddr, limit, ctx, open, out, advt, asked, got>>

\* Crawler.active
active == ctx /\ open

\* The goroutine of the Crawler: one address.
crawlSend ==
    LET n == NextAddr(range)
        l == LoadRequest(cache[Client], Client, NS)
    IN /\ call = "crawl" /\ active /\ n.ok
       /\ range' = n.range
       /\ asked' = Append(asked, n.addr)
       /\ \/ /\ \E e \in l : Send(Client, e, n.addr)
             /\ UNCHANGED <<call, sub>>
          \/ /\ SendFails(l)
             /\ call' = "done"
             /\ sub' = cancel(sub)
       /\ UNCHANGED <<maddr, limit, ctx, open, out, attempt, advt, got>>

crawlEnd ==
    /\ call = "crawl"
    /\ active => ~NextAddr(range).ok
    /\ call' = "wait"
    /\ UNCHANGED <<maddr, limit, ctx, open, sub, out, attempt, range, advt, cache, net, asked, got>>

\* Fault: only the caller's context ends the wait.
waitCtx ==
    /\ call = "wait" /\ ~ctx
    /\ call' = "done"
    /\ sub' = cancel(sub)
    /\ UNCHANGED <<maddr, limit, ctx, open, out, attempt, range, advt, cache, net, asked, got>>

\* The goroutines of Crawler and Surveyor cancel the subscription in the end.
wait ==
    /\ call = "wait" /\ ~active
    /\ call' = "done"
    /\ sub' = cancel(sub)
    /\ UNCHANGED <<maddr, limit, ctx, open, out, attempt, range, advt, cache, net, asked, got>>
-----------------------------------------------------------------------------
\* The loop of the GradualSurveyor.  Every turn asks the back-off for another
\* duration, which moves its attempt on.

Ready == sub # nil /\ (sub.buf # <<>> \/ ~sub.open)
turn == attempt' = (attempt + 1) % Dists

\* Fault: every survey has the distance of the first.
distanceFirst == 0

\* The distance of the next survey.
distance == attempt

\* Fault: the context of the new survey is cancelled, not that of the old one.
retryClosed ==
    /\ call = "gradual"
    /\ SendSurvey(distance)
    /\ sub' = cancel(Subscribe)
    /\ turn
    /\ UNCHANGED <<maddr, limit, call, ctx, open, out, range, advt, asked, got>>

\* The wait is over, and select may prefer that to an info that is there too:
\* the survey is cancelled and a wider one is sent.
retry ==
    /\ call = "gradual"
    /\ SendSurvey(distance)
    /\ sub' = Subscribe
    /\ turn
    /\ UNCHANGED <<maddr, limit, call, ctx, open, out, range, advt, asked, got>>

\* "retry failed": found is nil from now on.
retryFails ==
    /\ call = "gradual"
    /\ SendFails(LoadSurveyRequest(cache[Client], Client, NS, distance))
    /\ sub' = nil
    /\ turn
    /\ UNCHANGED <<maddr, limit, call, ctx, open, out, range, advt, asked, got>>

\* An info, or what a closed channel yields, goes to out unless it is full.
found ==
    /\ call = "gradual" /\ Ready
    /\ LET info == IF sub.buf = <<>> THEN Empty ELSE Head(sub.buf)
       IN out' = IF Len(out) < 1 THEN Append(out, info) ELSE out
    /\ sub' = IF sub.buf = <<>> THEN sub ELSE [sub EXCEPT !.buf = Tail(@)]
    /\ turn
    /\ UNCHANGED <<maddr, limit, call, ctx, open, range, advt, cache, net, asked, got>>

\* The goroutine of the current survey cancels its subscription.
surveyEnd ==
    /\ call = "gradual" /\ ~active
    /\ sub # nil /\ sub.open
    /\ sub' = cancel(sub)
    /\ UNCHANGED <<maddr, limit, call, ctx, open, out, attempt, range, advt, cache, net, asked, got>>

gradualDone ==
    /\ call = "gradual" /\ ~ctx
    /\ call' = "done"
    /\ sub' = cancel(sub)
    /\ UNCHANGED <<maddr, limit, ctx, open, out, attempt, range, advt, cache, net, asked, got>>
-----------------------------------------------------------------------------
\* The caller.

Gradual == DialString(maddr) = "gradual"

Receive ==
    /\ call # "no"
    /\ IF Gradual
       THEN out # <<>> /\ got' = got \cup {Head(out)} /\ out' = Tail(out) /\ UNCHANGED sub
       ELSE /\ sub # nil /\ sub.buf # <<>>
            /\ got' = got \cup {Head(sub.buf)}
            /\ sub' = [sub EXCEPT !.buf = Tail(@)]
            /\ UNCHANGED out
    /\ UNCHANGED <<finder, ctx, open, advt, cache, net>>

CtxDone ==
    /\ call # "no" /\ ctx
    /\ ctx' = FALSE
    /\ UNCHANGED <<finder, open, sub, out, advt, cache, net, got>>

\* Close: no subscription is cancelled by it.  (What is in flight then reaches
\* the client no more, and is left out.)
Close ==
    /\ open
    /\ open' = FALSE
    /\ net' = {}
    /\ UNCHANGED <<finder, ctx, sub, out, advt, cache, got>>
-----------------------------------------------------------------------------
\* The sockets.

\* Advertise, which needs addresses to answer with, and the tick that ends it.
\* The sockets are made by Listen, or by crawl.New on a port.
Track(h) ==
    /\ AddrsOf(h) # {}
    /\ advt' = advt \cup {h}
    /\ UNCHANGED <<finder, ctx, open, sub, out, cache, net, got>>
crawlAdvertise(h) ==
    /\ ListenString(maddr) = "crawl" \/ IsPortRange(maddr)
    /\ Track(h)
surveyAdvertise(h) ==
    /\ ListenString(maddr) \in {"survey", "gradual"}
    /\ Track(h)
Advertise(h) == crawlAdvertise(h) \/ surveyAdvertise(h)
Expire(h) ==
    /\ advt' = advt \ {h}
    /\ UNCHANGED <<finder, ctx, open, sub, out, cache, net, got>>

\* The request handlers: a Surveyor ignores who is too far away and answers to
\* the group, a Crawler answers who asked.
surveyHandler(h, e) ==
    /\ ~ignore(h, Peer(e), Distance(e))
    /\ \E l \in LoadResponse(cache[h], h, Namespace(e)) : Send(h, l, Group)
crawlHandler(h, e) ==
    \E l \in LoadResponse(cache[h], h, Namespace(e)) : Send(h, l, At[Peer(e)])

\* Scan and handle at host h: a request for what it tracks.
handleRequest(h, p) ==
    LET e == p.env
    IN /\ p \in net /\ Reaches(p, h) /\ BasicValidator(h, e)
       /\ h = Client => open
       /\ Type(e) # "response"
       /\ h \in advt
       /\ IF Multicast THEN surveyHandler(h, e) ELSE crawlHandler(h, e)
       /\ UNCHANGED <<finder, ctx, open, sub, out, advt, got>>

\* Scan and handle at the client: a response.
handleResponse(p) ==
    /\ p \in net /\ Reaches(p, Client) /\ BasicValidator(Client, p.env)
    /\ open
    /\ Type(p.env) = "response"
    /\ sub' = dispatch(sub, Bind(p.env))
    /\ UNCHANGED <<finder, ctx, open, out, advt, cache, net, got>>

Lose(p) ==
    /\ p \in net
    /\ net' = net \ {p}
    /\ UNCHANGED <<finder, ctx, open, sub, out, advt, cache, got>>

Answer(h) == \E p \in net : handleRequest(h, p)
Handle == \E p \in net : handleResponse(p)
Drop == \E p \in net : Lose(p)

Next ==
    \/ FindPeers \/ crawlSend \/ crawlEnd \/ wait
    \/ retry \/ retryFails
    \/ found \/ surveyEnd \/ gradualDone
    \/ Receive \/ CtxDone \/ Close
    \/ \E h \in Hosts : Advertise(h) \/ Expire(h) \/ Answer(h)
    \/ Handle \/ Drop

Spec == Init /\ [][Next]_vars

\* Goroutines run, select does not pass over ready infos for ever, and a packet
\* does not stay in the network.  Of the requests that a host is to answer, and
\* of the responses that are for the client, not every single one is lost.
FairSpec ==
    /\ Spec
    /\ WF_vars(crawlSend \/ crawlEnd) /\ WF_vars(wait)
    /\ WF_vars(retry \/ retryFails) /\ WF_vars(surveyEnd)
    /\ SF_vars(found) /\ WF_vars(gradualDone) /\ WF_vars(Receive) /\ WF_vars(Drop)
    /\ \A h \in Hosts : SF_vars(Answer(h))
    /\ SF_vars(Handle)
-----------------------------------------------------------------------------
infoOf(h) == [id |-> h, addrs |-> AddrsOf(h)]
Infos == {infoOf(h) : h \in Hosts}
InSeq(x, s) == \E i \in DOMAIN s : s[i] = x

\* Nothing else is ever in a variable.
TypeOK ==
    /\ call \in {"no", "crawl", "wait", "gradual", "done"}
    /\ ctx \in BOOLEAN /\ open \in BOOLEAN
    /\ sub = nil \/ sub \in [buf : Seq(Infos \cup {Static[i] : i \in DOMAIN Static}),
                            open : BOOLEAN, left : Nat]
    /\ Len(out) <= 1
    /\ attempt \in 0..(Dists - 1)
    /\ advt \subseteq Hosts
    /\ \A h \in Hosts : Cardinality(cache[h]) <= CacheSize
    /\ Cardinality(net) <= MaxNet

(***************************************************************************)
(* FindPeers delivers other hosts only.  Not its own, unless it is given   *)
(* as a static address: a host hears its own surveys and responses in the  *)
(* group, and a crawler asks its own address.  And no zero values: a       *)
(* GradualSurveyor replaces found over and over and passes on what a       *)
(* closed channel yields, but only a limit, a closed socket or the end of  *)
(* the context can close the one that is current.                          *)
(***************************************************************************)
OthersOnly ==
    LET delivered(info) ==
            \/ info \in got \/ InSeq(info, out)
            \/ sub # nil /\ InSeq(info, sub.buf)
    IN /\ delivered(infoOf(Client)) =>
             DialString(maddr) = "static" /\ InSeq(infoOf(Client), Static)
       /\ limit = 0 /\ open /\ ctx => ~delivered(Empty)

(***************************************************************************)
(* A Crawler asks the addresses of its range, each once, whatever order    *)
(* the random mask gives them, and when it goes over to waiting it asked   *)
(* them all: counting past the skipped addresses, the end of the block and *)
(* the largest address or port neither repeats nor misses one.             *)
(***************************************************************************)
CrawlExact ==
    range # nil =>
        /\ \A i \in DOMAIN asked : asked[i] \in Visits(range)
        /\ \A i, j \in DOMAIN asked : asked[i] = asked[j] => i = j
        /\ (call = "wait" /\ ctx /\ open) =>
              \A a \in Visits(range) : InSeq(a, asked)

(***************************************************************************)
(* A survey goes out with the distance of its turn, although the packet    *)
(* may come from a cache that has held several since.                      *)
(***************************************************************************)
SentAsMeant ==
    [][retry => \E p \in net' : Type(p.env) = "survey" /\ Distance(p.env) = distance]_vars

(***************************************************************************)
(* Once a host keeps on advertising, and surveys can be sent, the caller   *)
(* of a GradualSurveyor gets an info: the distance gets wide enough, and   *)
(* comes around again after it overflowed; no later survey keeps an answer *)
(* from being passed on.                                                   *)
(***************************************************************************)
SurveyFinds ==
    /\ <>[](call = "gradual" /\ ctx /\ open /\ advt \ {Client} # {})
    /\ <>[][~retryFails]_vars
    => <>(got \cap Infos # {})

(***************************************************************************)
(* When the caller's context ends, or the socket of a Crawler or Surveyor  *)
(* is closed, the channel that FindPeers returned is closed, although      *)
(* closing the socket cancels no subscription.                             *)
(***************************************************************************)
FindEnds ==
    call # "no" /\ (~ctx \/ (~Gradual /\ ~open))
        ~> call = "done" /\ (sub = nil \/ ~sub.open)

(***************************************************************************)
(* A GradualSurveyor sends no further survey once its caller got a peer.   *)
(***************************************************************************)
QuietOnceFound ==
    [][retry => got \cap Infos = {}]_vars
=============================================================================
