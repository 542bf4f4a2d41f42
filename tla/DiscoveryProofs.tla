-------------------------- MODULE DiscoveryProofs ---------------------------
(***************************************************************************)
(* Proofs about FindPeers and the hosts that answer.                       *)
(***************************************************************************)
EXTENDS Discovery, WellFoundedInduction, TLAPS

\* What a host may have sealed and cached.
Entry(k, b, h) == [key |-> k, env |-> newCacheEntry(b, h, k)]
Surveys(h) == {Entry(surveyKey(NS, d), surveyRequest(h, d), h) : d \in 0..(Dists - 1)}
Entries(h) ==
    {Entry(requestKey(NS), request(h), h), Entry(responseKey(NS), response(h), h)} \cup Surveys(h)

\* Only that is in caches and in flight.
CacheOK == DOMAIN cache = Hosts /\ \A h \in Hosts : cache[h] \subseteq Entries(h)
NetOK == \A p \in net : \E h \in Hosts : \E c \in Entries(h) : p.env = c.env

\* What FindPeers may deliver, apart from zero values.
Statics == {Static[i] : i \in DOMAIN Static}
Found ==
    {infoOf(h) : h \in Hosts \ {Client}}
        \cup {info \in Statics : DialString(maddr) = "static"}

\* A subscription of the client, or none.
Chan(s) ==
    \/ s = nil
    \/ /\ s \in [buf : Seq(Found), open : BOOLEAN, left : Nat]
       /\ limit = 0 => s.left = 0

SubOK == Chan(sub)
OutOK == out \in Seq(Found \cup {Empty}) /\ got \subseteq Found \cup {Empty}

\* No zero value is passed on, for the current channel is not closed.
NoZero ==
    limit = 0 /\ open /\ ctx =>
        /\ Empty \notin got /\ ~InSeq(Empty, out)
        /\ call = "gradual" /\ sub # nil => sub.open

\* The inductive invariant.
IInv ==
    /\ limit \in Nat /\ attempt \in 0..(Dists - 1)
    /\ CacheOK /\ NetOK
    /\ SubOK /\ OutOK /\ NoZero
-----------------------------------------------------------------------------
(***************************************************************************)
(* Packets.                                                                *)
(***************************************************************************)

\* A key has one packet.
LEMMA OneEntry ==
    ASSUME NEW h, NEW a \in Entries(h), NEW b \in Entries(h), a.key = b.key
    PROVE  a = b
  <1>1. ASSUME NEW c \in Entries(h)
        PROVE  \/ c = Entry(requestKey(NS), request(h), h) /\ c.key.kind = "request"
               \/ c = Entry(responseKey(NS), response(h), h) /\ c.key.kind = "response"
               \/ /\ c = Entry(surveyKey(NS, c.key.dist), surveyRequest(h, c.key.dist), h)
                  /\ c.key.kind = "survey"
    <2>1. CASE c = Entry(requestKey(NS), request(h), h)
      BY <2>1, Zenon DEF Entry, requestKey, Key
    <2>2. CASE c = Entry(responseKey(NS), response(h), h)
      BY <2>2, Zenon DEF Entry, responseKey, Key
    <2>3. CASE c \in Surveys(h)
      <3>1. PICK d \in 0..(Dists - 1) : c = Entry(surveyKey(NS, d), surveyRequest(h, d), h)
        BY <2>3, Zenon DEF Surveys
      <3>2. c.key.dist = d /\ c.key.kind = "survey"
        BY <3>1, Zenon DEF Entry, surveyKey, Key
      <3>. QED
        BY <3>1, <3>2, Zenon
    <2>. QED
      BY <2>1, <2>2, <2>3, Zenon DEF Entries
  <1>. QED
    BY <1>1

\* Load yields the packet that it would make, although it takes it from the
\* cache when it can.
LEMMA LoadIs ==
    ASSUME NEW h, NEW c \in SUBSET Entries(h), NEW k, NEW b, Entry(k, b, h) \in Entries(h),
           NEW l \in Load(c, k, b, h)
    PROVE  l.cache \subseteq Entries(h) /\ l.env = newCacheEntry(b, h, k)
  <1>. DEFINE hit == {x \in c : x.key = k}
              e == newCacheEntry(b, h, k)
  <1>0. Entry(k, b, h) = [key |-> k, env |-> e]
    BY Zenon DEF Entry
  <1>. HIDE DEF e
  <1>1. CASE hit # {}
    <2>1. PICK x \in hit : l = [cache |-> c, env |-> x.env]
      BY <1>1, Zenon DEF Load
    <2>2. x = Entry(k, b, h)
      BY <1>0, <2>1, OneEntry, Zenon
    <2>. QED
      BY <1>0, <2>1, <2>2 DEF e
  <1>2. CASE hit = {}
    <2>1. PICK new \in Add(c, k, e) : l = [cache |-> new, env |-> e]
      BY <1>2, Zenon DEF Load, e
    <2>2. new \subseteq c \cup {[key |-> k, env |-> e]}
      BY Zenon DEF Add
    <2>. QED
      BY <1>0, <2>1, <2>2, Zenon DEF e
  <1>. QED
    BY <1>1, <1>2, Zenon

\* Socket.Send puts that into the network.
LEMMA SendKeeps ==
    ASSUME CacheOK, NetOK, NEW h \in Hosts, NEW k, NEW b, Entry(k, b, h) \in Entries(h),
           NEW l \in Load(cache[h], k, b, h), NEW to, Send(h, l, to)
    PROVE  /\ CacheOK' /\ NetOK'
           /\ \E p \in net' : p.env = newCacheEntry(b, h, k)
  <1>. DEFINE e == [to |-> to, env |-> l.env]
  <1>1. cache[h] \in SUBSET Entries(h)
    BY Zenon DEF CacheOK
  <1>2. l.cache \subseteq Entries(h) /\ l.env = newCacheEntry(b, h, k)
    BY <1>1, LoadIs, Zenon
  <1>3. /\ cache' = [cache EXCEPT ![h] = l.cache]
        /\ e \in net' /\ net' \subseteq net \cup {e}
    BY Zenon DEF Send
  <1>4. e.env = l.env /\ Entry(k, b, h).env = l.env
    BY <1>2, Zenon DEF Entry
  <1>. HIDE DEF e
  <1>5. CacheOK'
    BY <1>2, <1>3, Zenon DEF CacheOK
  <1>6. NetOK'
    BY <1>3, <1>4, Zenon DEF NetOK
  <1>. QED
    BY <1>2, <1>3, <1>4, <1>5, <1>6, Zenon

\* A packet that was sealed, but could not be sent, keeps the cache and the net.
LEMMA SendFailsKeeps ==
    ASSUME CacheOK, NetOK, NEW k, NEW b, Entry(k, b, Client) \in Entries(Client),
           SendFails(Load(cache[Client], k, b, Client))
    PROVE  CacheOK' /\ NetOK'
  <1>1. cache[Client] \in SUBSET Entries(Client)
    BY DiscoveryOK, Zenon DEF CacheOK
  <1>2. net' = net
    BY Zenon DEF SendFails
  <1>3. CASE UNCHANGED cache
    BY <1>2, <1>3, Zenon DEF CacheOK, NetOK
  <1>4. ASSUME NEW l \in Load(cache[Client], k, b, Client),
               cache' = [cache EXCEPT ![Client] = l.cache]
        PROVE  CacheOK' /\ NetOK'
    <2>1. l.cache \subseteq Entries(Client)
      BY <1>1, <1>4, LoadIs, Zenon
    <2>2. CacheOK'
      BY <1>4, <2>1, Zenon DEF CacheOK
    <2>3. NetOK'
      BY <1>2, Zenon DEF NetOK
    <2>. QED
      BY <2>2, <2>3, Zenon
  <1>. QED
    BY <1>3, <1>4, Zenon DEF SendFails

\* What may be sent.
LEMMA Sendable ==
    ASSUME NEW h
    PROVE  /\ Entry(requestKey(NS), request(h), h) \in Entries(h)
           /\ Entry(responseKey(NS), response(h), h) \in Entries(h)
           /\ \A d \in 0..(Dists - 1) :
                 Entry(surveyKey(NS, d), surveyRequest(h, d), h) \in Entries(h)
  BY Zenon DEF Entries, Surveys

\* A survey has its distance.
LEMMA SurveyKeeps ==
    ASSUME CacheOK, NetOK, NEW d \in 0..(Dists - 1), SendSurvey(d)
    PROVE  /\ CacheOK' /\ NetOK'
           /\ \E p \in net' : Type(p.env) = "survey" /\ Distance(p.env) = d
  <1>1. PICK l \in Load(cache[Client], surveyKey(NS, d), surveyRequest(Client, d), Client) :
           Send(Client, l, Group)
    BY Zenon DEF SendSurvey, LoadSurveyRequest
  <1>2. /\ CacheOK' /\ NetOK'
        /\ \E p \in net' : p.env = newCacheEntry(surveyRequest(Client, d), Client, surveyKey(NS, d))
    BY <1>1, Sendable, SendKeeps, DiscoveryOK, Zenon
  <1>3. PICK p \in net' :
           p.env = newCacheEntry(surveyRequest(Client, d), Client, surveyKey(NS, d))
    BY <1>2, Zenon
  <1>4. Type(p.env) = "survey" /\ Distance(p.env) = d
    BY <1>3 DEF newCacheEntry, newPacket, surveyRequest, Packet, Type, Distance
  <1>. QED
    BY <1>2, <1>4, Zenon

\* Every packet has the namespace, and a response that is not the client's own
\* is the info of another host.
LEMMA PacketsAre ==
    ASSUME NetOK, NEW p \in net
    PROVE  /\ Namespace(p.env) = NS
           /\ Type(p.env) = "response" /\ Peer(p.env) # Client => Bind(p.env) \in Found
  <1>1. PICK h \in Hosts : \E c \in Entries(h) : p.env = c.env
    BY Zenon DEF NetOK
  <1>2. PICK c \in Entries(h) : p.env = c.env
    BY <1>1, Zenon
  <1>. USE DEF Entry, newCacheEntry, newPacket, Packet, Namespace, Type
  <1>3. CASE c = Entry(requestKey(NS), request(h), h)
    BY <1>2, <1>3 DEF requestKey, Key, request
  <1>4. CASE c = Entry(responseKey(NS), response(h), h)
    <2>1. Namespace(p.env) = NS /\ Type(p.env) = "response"
      BY <1>2, <1>4 DEF responseKey, Key, response
    <2>2. Peer(p.env) = h /\ Bind(p.env) = infoOf(h)
      BY <1>2, <1>4, <2>1 DEF responseKey, Key, response, Peer, Bind, infoOf
    <2>. QED
      BY <2>1, <2>2, Zenon DEF Found
  <1>5. CASE c \in Surveys(h)
    <2>1. PICK d \in 0..(Dists - 1) : c = Entry(surveyKey(NS, d), surveyRequest(h, d), h)
      BY <1>5, Zenon DEF Surveys
    <2>. QED
      BY <1>2, <2>1 DEF surveyKey, Key, surveyRequest
  <1>. QED
    BY <1>2, <1>3, <1>4, <1>5, Zenon DEF Entries
-----------------------------------------------------------------------------
(***************************************************************************)
(* Channels.                                                               *)
(***************************************************************************)

\* What may be found depends on the address only,
LEMMA FoundSame ==
    ASSUME UNCHANGED maddr
    PROVE  Found' = Found
  BY Zenon DEF Found, DialString, ValidateBytes, Dial, DialMulticast

\* and is no zero value.
LEMMA FoundNotZero == Empty \notin Found
  BY DiscoveryOK, Zenon DEF Found, Statics, infoOf

\* While the address and the limit stay, a sound new channel is all SubOK asks.
LEMMA SubKept ==
    ASSUME UNCHANGED <<maddr, limit>>, Chan(sub')
    PROVE  SubOK'
  BY FoundSame, Zenon DEF SubOK, Chan

\* A new subscription is open and empty,
LEMMA SubscribeIs ==
    ASSUME limit \in Nat
    PROVE  Chan(Subscribe) /\ Subscribe.open
  BY DEF Chan, Subscribe

\* cancel closes it,
LEMMA cancelIs ==
    ASSUME NEW s, Chan(s)
    PROVE  Chan(cancel(s))
  BY Zenon DEF Chan, cancel

\* dispatch puts in what it may, and closes it only at a limit,
LEMMA dispatchIs ==
    ASSUME NEW s, Chan(s), NEW info \in Found
    PROVE  /\ Chan(dispatch(s, info))
           /\ limit = 0 /\ s # nil /\ s.open => dispatch(s, info).open
           /\ s = nil => dispatch(s, info) = nil
  <1>1. CASE s = nil \/ ~s.open \/ Len(s.buf) >= Buf
    BY <1>1, Zenon DEF dispatch
  <1>2. CASE ~(s = nil \/ ~s.open \/ Len(s.buf) >= Buf)
    <2>1. /\ s.buf \in Seq(Found) /\ s.left \in Nat
          /\ limit = 0 => s.left = 0
      BY <1>2, Zenon DEF Chan
    <2>2. dispatch(s, info) =
            [buf |-> Append(s.buf, info), open |-> s.left # 1,
             left |-> IF s.left = 0 THEN 0 ELSE s.left - 1]
      BY <1>2, Zenon DEF dispatch
    <2>3. /\ Append(s.buf, info) \in Seq(Found)
          /\ (IF s.left = 0 THEN 0 ELSE s.left - 1) \in Nat
      BY <2>1
    <2>. QED
      BY <1>2, <2>1, <2>2, <2>3 DEF Chan
  <1>. QED
    BY <1>1, <1>2, Zenon

\* and what is taken from it was put in.
LEMMA TakeIs ==
    ASSUME NEW s, Chan(s), s # nil, s.buf # <<>>
    PROVE  /\ Head(s.buf) \in Found
           /\ Chan([s EXCEPT !.buf = Tail(@)])
           /\ s.open => [s EXCEPT !.buf = Tail(@)].open
  <1>1. s.buf \in Seq(Found)
    BY Zenon DEF Chan
  <1>2. Head(s.buf) \in Found /\ Tail(s.buf) \in Seq(Found)
    BY <1>1
  <1>. QED
    BY <1>2, Zenon DEF Chan

\* What a sequence without zero values can become.
LEMMA NoneIn ==
    ASSUME NEW S, NEW v \in Seq(S), NEW x, ~InSeq(x, v)
    PROVE  /\ v # <<>> => Head(v) # x /\ ~InSeq(x, Tail(v))
           /\ \A y \in S : y # x => ~InSeq(x, Append(v, y))
  <1>1. ASSUME v # <<>> PROVE Head(v) # x /\ ~InSeq(x, Tail(v))
    <2>1. Head(v) = v[1] /\ 1 \in DOMAIN v
      BY <1>1
    <2>2. \A i \in DOMAIN Tail(v) : i + 1 \in DOMAIN v /\ Tail(v)[i] = v[i + 1]
      BY <1>1
    <2>. QED
      BY <2>1, <2>2, Zenon DEF InSeq
  <1>2. ASSUME NEW y \in S, y # x PROVE ~InSeq(x, Append(v, y))
    <2>1. \A i \in DOMAIN Append(v, y) : \/ i \in DOMAIN v /\ Append(v, y)[i] = v[i]
                                        \/ Append(v, y)[i] = y
      OBVIOUS
    <2>. QED
      BY <1>2, <2>1, Zenon DEF InSeq
  <1>. QED
    BY <1>1, <1>2, Zenon

\* Steps that leave the call alone.
LEMMA QuietKeeps ==
    ASSUME IInv, UNCHANGED <<finder, sub, out, got>>, open' => open, ctx' => ctx,
           CacheOK', NetOK'
    PROVE  IInv'
  <1>1. UNCHANGED <<maddr, limit, call, attempt, sub, out, got>>
    BY Zenon DEF finder
  <1>2. SubOK'
    BY <1>1, SubKept, Zenon DEF IInv, SubOK
  <1>3. OutOK'
    BY <1>1, FoundSame, Zenon DEF IInv, OutOK
  <1>4. NoZero'
    BY <1>1, Zenon DEF IInv, NoZero, InSeq
  <1>. QED
    BY <1>1, <1>2, <1>3, <1>4, Zenon DEF IInv

\* Steps that replace the subscription, and after which the call does not go
\* on as a survey, or goes on with an open channel.
LEMMA SubSetKeeps ==
    ASSUME IInv, UNCHANGED <<maddr, limit, ctx, open, out, got>>, Chan(sub'),
           attempt' \in 0..(Dists - 1),
           limit = 0 /\ open /\ ctx /\ call' = "gradual" /\ sub' # nil => sub'.open,
           CacheOK', NetOK'
    PROVE  IInv'
  <1>1. SubOK'
    BY SubKept, Zenon
  <1>2. OutOK'
    BY FoundSame, Zenon DEF IInv, OutOK
  <1>3. NoZero'
    BY Zenon DEF IInv, NoZero, InSeq
  <1>. QED
    BY <1>1, <1>2, <1>3, Zenon DEF IInv
-----------------------------------------------------------------------------
(***************************************************************************)
(* Steps.                                                                  *)
(***************************************************************************)

\* The invariant holds before the call.
LEMMA InitInv == Init => IInv
  <1>. SUFFICES ASSUME Init PROVE IInv
    BY Zenon
  <1>1. limit \in Nat
    BY DiscoveryOK, Zenon DEF Init
  <1>2. attempt \in 0..(Dists - 1)
    BY PacketOK DEF Init
  <1>3. CacheOK /\ NetOK
    BY Zenon DEF Init, CacheOK, NetOK
  <1>4. SubOK /\ NoZero
    BY DEF Init, SubOK, Chan, NoZero, InSeq
  <1>5. OutOK
    BY DEF Init, OutOK
  <1>. QED
    BY <1>1, <1>2, <1>3, <1>4, <1>5, Zenon DEF IInv

\* The distances that are sent.
LEMMA Distances ==
    /\ 0 \in 0..(Dists - 1) /\ Dists - 1 \in 0..(Dists - 1)
    /\ 1 % Dists \in 0..(Dists - 1)
    /\ \A a \in 0..(Dists - 1) : (a + 1) % Dists \in 0..(Dists - 1)
  BY PacketOK

\* The channel of static addresses.
LEMMA staticIs ==
    ASSUME DialString(maddr) = "static", limit \in Nat, Static \in Seq(Statics)
    PROVE  Chan(staticChan(limited(limit, Static)))
  <1>1. Statics \subseteq Found
    BY Zenon DEF Found
  <1>2. Static \in Seq(Found)
    BY <1>1
  <1>3. limited(limit, Static) \in Seq(Found)
    BY <1>2 DEF limited
  <1>. QED
    BY <1>3, Zenon DEF Chan, staticChan

\* FindPeers of each service.
LEMMA FindPeersKeeps ==
    ASSUME IInv, FindPeers
    PROVE  IInv'
  <1>0. UNCHANGED <<maddr, limit, ctx, open, out, got>> /\ limit \in Nat
        /\ attempt \in 0..(Dists - 1) /\ CacheOK /\ NetOK
    BY Zenon DEF FindPeers, IInv
  <1>1. Chan(Subscribe) /\ Subscribe.open /\ Chan(cancel(Subscribe))
    BY <1>0, SubscribeIs, cancelIs, Zenon
  <1>2. CASE FindStatic
    <2>1. Chan(sub') /\ call' # "gradual" /\ attempt' = attempt
      BY <1>0, <1>2, staticIs, DiscoveryOK, Zenon DEF FindStatic, Statics
    <2>2. CacheOK' /\ NetOK'
      BY <1>0, <1>2, Zenon DEF FindStatic, CacheOK, NetOK
    <2>. QED
      BY <1>0, <2>1, <2>2, SubSetKeeps, Zenon
  <1>3. CASE FindCrawl
    <2>1. Chan(sub') /\ call' # "gradual" /\ attempt' = attempt
      BY <1>1, <1>3, Zenon DEF FindCrawl
    <2>2. CacheOK' /\ NetOK'
      BY <1>0, <1>3, Zenon DEF FindCrawl, CacheOK, NetOK
    <2>. QED
      BY <1>0, <2>1, <2>2, SubSetKeeps, Zenon
  <1>4. CASE FindSurvey
    <2>. DEFINE d == IF DialString(maddr) = "gradual" THEN 0 ELSE Dists - 1
    <2>1. d \in 0..(Dists - 1)
      BY Distances, Zenon
    <2>2. \/ SendSurvey(d) /\ sub' = Subscribe /\ attempt' \in {1 % Dists, 0}
          \/ /\ SendFails(LoadSurveyRequest(cache[Client], Client, NS, d))
             /\ sub' = cancel(Subscribe) /\ call' = "done" /\ attempt' = attempt
      BY <1>4, Zenon DEF FindSurvey
    <2>. HIDE DEF d
    <2>3. CASE SendSurvey(d) /\ sub' = Subscribe /\ attempt' \in {1 % Dists, 0}
      <3>1. CacheOK' /\ NetOK'
        BY <1>0, <2>1, <2>3, SurveyKeeps, Zenon
      <3>2. attempt' \in 0..(Dists - 1)
        BY <2>3, Distances, Zenon
      <3>. QED
        BY <1>0, <1>1, <2>3, <3>1, <3>2, SubSetKeeps, Zenon
    <2>4. CASE /\ SendFails(LoadSurveyRequest(cache[Client], Client, NS, d))
               /\ sub' = cancel(Subscribe) /\ call' = "done" /\ attempt' = attempt
      <3>1. CacheOK' /\ NetOK'
        BY <1>0, <2>1, <2>4, Sendable, SendFailsKeeps, Zenon DEF LoadSurveyRequest
      <3>2. call' # "gradual"
        BY <2>4, Zenon
      <3>. QED
        BY <1>0, <1>1, <2>4, <3>1, <3>2, SubSetKeeps, Zenon
    <2>. QED
      BY <2>2, <2>3, <2>4, Zenon
  <1>. QED
    BY <1>2, <1>3, <1>4, Zenon DEF FindPeers

\* A request of the Crawler.
LEMMA crawlSendKeeps ==
    ASSUME IInv, crawlSend
    PROVE  IInv'
  <1>0. /\ UNCHANGED <<maddr, limit, ctx, open, out, attempt, got>>
        /\ attempt \in 0..(Dists - 1) /\ CacheOK /\ NetOK /\ Chan(sub)
    BY Zenon DEF crawlSend, IInv, SubOK
  <1>1. CASE /\ \E e \in LoadRequest(cache[Client], Client, NS) :
                   Send(Client, e, NextAddr(range).addr)
             /\ UNCHANGED <<call, sub>>
    <2>1. CacheOK' /\ NetOK'
      BY <1>0, <1>1, Sendable, SendKeeps, DiscoveryOK, Zenon DEF LoadRequest
    <2>2. call' # "gradual"
      BY <1>1, Zenon DEF crawlSend
    <2>. QED
      BY <1>0, <1>1, <2>1, <2>2, SubSetKeeps, Zenon
  <1>2. CASE /\ SendFails(LoadRequest(cache[Client], Client, NS))
             /\ call' = "done" /\ sub' = cancel(sub)
    <2>1. CacheOK' /\ NetOK'
      BY <1>0, <1>2, Sendable, SendFailsKeeps, Zenon DEF LoadRequest
    <2>2. call' # "gradual"
      BY <1>2, Zenon
    <2>3. Chan(sub')
      BY <1>0, <1>2, cancelIs, Zenon
    <2>. QED
      BY <1>0, <2>1, <2>2, <2>3, SubSetKeeps, Zenon
  <1>. QED
    BY <1>1, <1>2, Zenon DEF crawlSend

\* A call ends, or stops asking.
LEMMA EndKeeps ==
    ASSUME IInv, crawlEnd \/ wait \/ surveyEnd \/ gradualDone
    PROVE  IInv'
  <1>0. /\ UNCHANGED <<maddr, limit, ctx, open, out, attempt, cache, net, got>>
        /\ attempt \in 0..(Dists - 1) /\ CacheOK /\ NetOK /\ Chan(sub)
    BY Zenon DEF crawlEnd, wait, surveyEnd, gradualDone, IInv, SubOK
  <1>1. Chan(sub')
    BY <1>0, cancelIs, Zenon DEF crawlEnd, wait, surveyEnd, gradualDone
  <1>2. CacheOK' /\ NetOK'
    BY <1>0, Zenon DEF CacheOK, NetOK
  <1>3. call' # "gradual" \/ ~open \/ ~ctx
    BY Zenon DEF crawlEnd, wait, surveyEnd, gradualDone, active
  <1>. QED
    BY <1>0, <1>1, <1>2, <1>3, SubSetKeeps, Zenon

\* A retry sends the survey that was meant,
LEMMA retryKeeps ==
    ASSUME IInv, retry
    PROVE  /\ IInv'
           /\ \E p \in net' : Type(p.env) = "survey" /\ Distance(p.env) = distance
  <1>0. /\ UNCHANGED <<maddr, limit, call, ctx, open, out, got>> /\ sub' = Subscribe
        /\ limit \in Nat /\ attempt \in 0..(Dists - 1) /\ CacheOK /\ NetOK
        /\ SendSurvey(attempt)
    BY Zenon DEF retry, IInv, distance
  <1>1. attempt' \in 0..(Dists - 1)
    BY <1>0, Distances, Zenon DEF retry, turn
  <1>2. /\ CacheOK' /\ NetOK'
        /\ \E p \in net' : Type(p.env) = "survey" /\ Distance(p.env) = attempt
    BY <1>0, SurveyKeeps, Zenon
  <1>3. Chan(Subscribe) /\ Subscribe.open
    BY <1>0, SubscribeIs, Zenon
  <1>4. IInv'
    BY <1>0, <1>1, <1>2, <1>3, SubSetKeeps, Zenon
  <1>. QED
    BY <1>2, <1>4, Zenon DEF distance

\* or fails, and leaves no channel.
LEMMA retryFailsKeeps ==
    ASSUME IInv, retryFails
    PROVE  IInv'
  <1>0. /\ UNCHANGED <<maddr, limit, call, ctx, open, out, got>> /\ sub' = nil
        /\ attempt \in 0..(Dists - 1) /\ CacheOK /\ NetOK
        /\ SendFails(LoadSurveyRequest(cache[Client], Client, NS, attempt))
    BY Zenon DEF retryFails, IInv, distance
  <1>1. attempt' \in 0..(Dists - 1)
    BY <1>0, Distances, Zenon DEF retryFails, turn
  <1>2. CacheOK' /\ NetOK'
    BY <1>0, Sendable, SendFailsKeeps, Zenon DEF LoadSurveyRequest
  <1>3. Chan(sub')
    BY <1>0, Zenon DEF Chan
  <1>. QED
    BY <1>0, <1>1, <1>2, <1>3, SubSetKeeps, Zenon

\* found passes on what the channel has, and a zero value only if it is closed.
LEMMA foundKeeps ==
    ASSUME IInv, found
    PROVE  IInv'
  <1>. DEFINE info == IF sub.buf = <<>> THEN Empty ELSE Head(sub.buf)
  <1>0. /\ UNCHANGED <<maddr, limit, call, ctx, open, cache, net, got>>
        /\ limit \in Nat /\ attempt \in 0..(Dists - 1) /\ CacheOK /\ NetOK
        /\ Chan(sub) /\ sub # nil /\ call = "gradual"
        /\ out \in Seq(Found \cup {Empty}) /\ got \subseteq Found \cup {Empty}
    BY Zenon DEF found, IInv, SubOK, OutOK, Ready
  <1>1. out' = (IF Len(out) < 1 THEN Append(out, info) ELSE out)
    BY Zenon DEF found
  <1>2. ASSUME sub.buf = <<>>
        PROVE  out' \in Seq(Found \cup {Empty}) /\ Chan(sub') /\ NoZero'
    <2>1. info = Empty /\ ~sub.open /\ sub' = sub
      BY <1>2, Zenon DEF found, Ready
    <2>2. ~(limit = 0 /\ open /\ ctx)
      BY <1>0, <2>1, Zenon DEF IInv, NoZero
    <2>3. out' \in Seq(Found \cup {Empty}) /\ Chan(sub')
      BY <1>0, <1>1, <2>1
    <2>4. NoZero'
      BY <1>0, <2>2, Zenon DEF NoZero
    <2>. QED
      BY <2>3, <2>4, Zenon
  <1>3. ASSUME sub.buf # <<>>
        PROVE  out' \in Seq(Found \cup {Empty}) /\ Chan(sub') /\ NoZero'
    <2>1. info = Head(sub.buf) /\ sub' = [sub EXCEPT !.buf = Tail(@)]
      BY <1>3, Zenon DEF found
    <2>2. info \in Found /\ Chan(sub') /\ (sub.open => sub'.open)
      BY <1>0, <1>3, <2>1, TakeIs, Zenon
    <2>. HIDE DEF info
    <2>3. out' \in Seq(Found \cup {Empty})
      BY <1>0, <1>1, <2>2
    <2>4. ~InSeq(Empty, out) => ~InSeq(Empty, out')
      <3>1. info # Empty
        BY <2>2, FoundNotZero, Zenon
      <3>2. ~InSeq(Empty, out) => ~InSeq(Empty, Append(out, info))
        BY <1>0, <2>2, <3>1, NoneIn, Zenon
      <3>. QED
        BY <1>1, <3>2, Zenon
    <2>5. NoZero'
      <3>. SUFFICES ASSUME limit = 0, open, ctx
                    PROVE  Empty \notin got /\ ~InSeq(Empty, out') /\ sub'.open
        BY <1>0, Zenon DEF NoZero, InSeq
      <3>. QED
        BY <1>0, <2>2, <2>4, Zenon DEF IInv, NoZero
    <2>. QED
      BY <2>2, <2>3, <2>5, Zenon
  <1>4. out' \in Seq(Found \cup {Empty}) /\ Chan(sub') /\ NoZero'
    BY <1>2, <1>3, Zenon
  <1>. HIDE DEF info
  <1>5. SubOK'
    BY <1>0, <1>4, SubKept, Zenon
  <1>6. OutOK'
    BY <1>0, <1>4, FoundSame, Zenon DEF OutOK
  <1>7. attempt' \in 0..(Dists - 1)
    BY <1>0, Distances, Zenon DEF found, turn
  <1>8. CacheOK' /\ NetOK'
    BY <1>0, Zenon DEF CacheOK, NetOK
  <1>. QED
    BY <1>0, <1>4, <1>5, <1>6, <1>7, <1>8, Zenon DEF IInv

\* The caller, or the GradualSurveyor, takes what was found.
LEMMA ReceiveKeeps ==
    ASSUME IInv, Receive
    PROVE  IInv'
  <1>0. /\ UNCHANGED <<maddr, limit, call, attempt, ctx, open, cache, net>>
        /\ limit \in Nat /\ attempt \in 0..(Dists - 1) /\ CacheOK /\ NetOK /\ Chan(sub)
        /\ out \in Seq(Found \cup {Empty}) /\ got \subseteq Found \cup {Empty}
    BY Zenon DEF Receive, IInv, SubOK, OutOK, finder
  <1>1. /\ out' \in Seq(Found \cup {Empty}) /\ got' \subseteq Found \cup {Empty}
        /\ Chan(sub') /\ NoZero'
    <2>1. CASE Gradual
      <3>1. out # <<>> /\ got' = got \cup {Head(out)} /\ out' = Tail(out) /\ sub' = sub
        BY <2>1, Zenon DEF Receive
      <3>2. Head(out) \in Found \cup {Empty} /\ Tail(out) \in Seq(Found \cup {Empty})
        BY <1>0, <3>1
      <3>3. ~InSeq(Empty, out) => Head(out) # Empty /\ ~InSeq(Empty, Tail(out))
        BY <1>0, <3>1, NoneIn, Zenon
      <3>4. NoZero'
        <4>. SUFFICES ASSUME limit = 0, open, ctx
                      PROVE  /\ Empty \notin got' /\ ~InSeq(Empty, out')
                             /\ call = "gradual" /\ sub # nil => sub.open
          BY <1>0, <3>1, Zenon DEF NoZero, InSeq
        <4>1. /\ Empty \notin got /\ ~InSeq(Empty, out)
              /\ call = "gradual" /\ sub # nil => sub.open
          BY Zenon DEF IInv, NoZero
        <4>. QED
          BY <3>1, <3>3, <4>1, Zenon
      <3>. QED
        BY <1>0, <3>1, <3>2, <3>4, Zenon
    <2>2. CASE ~Gradual
      <3>1. /\ sub # nil /\ sub.buf # <<>> /\ got' = got \cup {Head(sub.buf)}
            /\ sub' = [sub EXCEPT !.buf = Tail(@)] /\ out' = out
        BY <2>2, Zenon DEF Receive
      <3>2. Head(sub.buf) \in Found /\ Chan(sub') /\ (sub.open => sub'.open)
        BY <1>0, <3>1, TakeIs, Zenon
      <3>3. NoZero'
        <4>. SUFFICES ASSUME limit = 0, open, ctx
                      PROVE  /\ Empty \notin got' /\ ~InSeq(Empty, out)
                             /\ call = "gradual" => sub'.open
          BY <1>0, <3>1, Zenon DEF NoZero, InSeq
        <4>1. /\ Empty \notin got /\ ~InSeq(Empty, out)
              /\ call = "gradual" => sub.open
          BY <3>1, Zenon DEF IInv, NoZero
        <4>. QED
          BY <3>1, <3>2, <4>1, FoundNotZero, Zenon
      <3>. QED
        BY <1>0, <3>1, <3>2, <3>3, Zenon
    <2>. QED
      BY <2>1, <2>2, Zenon
  <1>2. SubOK'
    BY <1>0, <1>1, SubKept, Zenon
  <1>3. OutOK'
    BY <1>0, <1>1, FoundSame, Zenon DEF OutOK
  <1>4. CacheOK' /\ NetOK'
    BY <1>0, Zenon DEF CacheOK, NetOK
  <1>. QED
    BY <1>0, <1>1, <1>2, <1>3, <1>4, Zenon DEF IInv

\* A host answers with what it advertises.
LEMMA AnswerKeeps ==
    ASSUME IInv, NEW h \in Hosts, Answer(h)
    PROVE  IInv'
  <1>1. PICK p \in net : handleRequest(h, p)
    BY Zenon DEF Answer
  <1>2. /\ UNCHANGED <<finder, ctx, open, sub, out, got>> /\ CacheOK /\ NetOK
        /\ surveyHandler(h, p.env) \/ crawlHandler(h, p.env)
    BY <1>1, Zenon DEF handleRequest, IInv
  <1>3. Namespace(p.env) = NS
    BY <1>2, PacketsAre, Zenon
  <1>4. \E l \in Load(cache[h], responseKey(NS), response(h), h), to \in {Group, At[Peer(p.env)]} :
           Send(h, l, to)
    BY <1>2, <1>3, Zenon DEF surveyHandler, crawlHandler, LoadResponse
  <1>5. CacheOK' /\ NetOK'
    BY <1>2, <1>4, Sendable, SendKeeps, Zenon
  <1>. QED
    BY <1>2, <1>5, QuietKeeps, Zenon

\* A response is dispatched.
LEMMA HandleKeeps ==
    ASSUME IInv, Handle
    PROVE  IInv'
  <1>1. PICK p \in net : handleResponse(p)
    BY Zenon DEF Handle
  <1>2. /\ UNCHANGED <<maddr, limit, call, attempt, ctx, open, out, cache, net, got>>
        /\ attempt \in 0..(Dists - 1) /\ CacheOK /\ NetOK /\ Chan(sub)
        /\ sub' = dispatch(sub, Bind(p.env))
        /\ Type(p.env) = "response" /\ Peer(p.env) # Client
    BY <1>1, Zenon DEF handleResponse, BasicValidator, finder, IInv, SubOK
  <1>3. Bind(p.env) \in Found
    BY <1>2, PacketsAre, Zenon
  <1>4. /\ Chan(sub')
        /\ limit = 0 /\ sub # nil /\ sub.open => sub'.open
        /\ sub = nil => sub' = nil
    BY <1>2, <1>3, dispatchIs, Zenon
  <1>5. limit = 0 /\ open /\ ctx /\ call' = "gradual" /\ sub' # nil => sub'.open
    BY <1>2, <1>4, Zenon DEF IInv, NoZero
  <1>6. CacheOK' /\ NetOK'
    BY <1>2, Zenon DEF CacheOK, NetOK
  <1>. QED
    BY <1>2, <1>4, <1>5, <1>6, SubSetKeeps, Zenon

\* The caller's context ends, the socket closes, advertisements come and go,
\* packets are lost.
LEMMA OtherKeeps ==
    ASSUME IInv, CtxDone \/ Close \/ Drop \/ \E h \in Hosts : Advertise(h) \/ Expire(h)
    PROVE  IInv'
  <1>1. UNCHANGED <<finder, sub, out, cache, got>>
    BY Zenon DEF CtxDone, Close, Drop, Lose, Advertise, crawlAdvertise, surveyAdvertise, Track, Expire
  <1>2. (open' => open) /\ (ctx' => ctx) /\ net' \subseteq net
    BY DEF CtxDone, Close, Drop, Lose, Advertise, crawlAdvertise, surveyAdvertise, Track, Expire
  <1>3. CacheOK' /\ NetOK'
    BY <1>1, <1>2, Zenon DEF IInv, CacheOK, NetOK
  <1>. QED
    BY <1>1, <1>2, <1>3, QuietKeeps, Zenon

\* Every step keeps the invariant.
LEMMA StepKeeps == IInv /\ [Next]_vars => IInv'
  <1>. SUFFICES ASSUME IInv, [Next]_vars PROVE IInv'
    BY Zenon
  <1>1. CASE FindPeers
    BY <1>1, FindPeersKeeps, Zenon
  <1>2. CASE crawlSend
    BY <1>2, crawlSendKeeps, Zenon
  <1>3. CASE crawlEnd \/ wait \/ surveyEnd \/ gradualDone
    BY <1>3, EndKeeps, Zenon
  <1>4. CASE retry
    BY <1>4, retryKeeps, Zenon
  <1>5. CASE retryFails
    BY <1>5, retryFailsKeeps, Zenon
  <1>6. CASE found
    BY <1>6, foundKeeps, Zenon
  <1>7. CASE Receive
    BY <1>7, ReceiveKeeps, Zenon
  <1>8. CASE \E h \in Hosts : Answer(h)
    BY <1>8, AnswerKeeps, Zenon
  <1>9. CASE Handle
    BY <1>9, HandleKeeps, Zenon
  <1>10. CASE CtxDone \/ Close \/ Drop \/ \E h \in Hosts : Advertise(h) \/ Expire(h)
    BY <1>10, OtherKeeps, Zenon
  <1>11. CASE UNCHANGED vars
    <2>1. UNCHANGED <<finder, sub, out, got, open, ctx, cache, net>>
      BY <1>11, Zenon DEF vars, finder
    <2>2. CacheOK' /\ NetOK'
      BY <2>1, Zenon DEF IInv, CacheOK, NetOK
    <2>. QED
      BY <2>1, <2>2, QuietKeeps, Zenon
  <1>. QED
    BY <1>1, <1>2, <1>3, <1>4, <1>5, <1>6, <1>7, <1>8, <1>9, <1>10, <1>11, Zenon DEF Next

(***************************************************************************)
(* For any hosts, addresses, calls, distances, caches and channels: what   *)
(* is cached under a key, and what is in flight, is what LoadRequest,      *)
(* LoadSurveyRequest and LoadResponse would make, and channels hold infos  *)
(* of other hosts or static ones.                                          *)
(***************************************************************************)
THEOREM InvHolds == Spec => []IInv
  <1>. QED
    BY InitInv, StepKeeps, PTL DEF Spec

(***************************************************************************)
(* FindPeers delivers its own host only if a static address names it, and  *)
(* no zero value while the context lives, the socket is open and there is  *)
(* no limit.                                                               *)
(***************************************************************************)
THEOREM DeliversOthers == Spec => []OthersOnly
  <1>1. IInv => OthersOnly
    <2>. SUFFICES ASSUME IInv PROVE OthersOnly
      BY Zenon
    <2>. DEFINE delivered(info) ==
                    \/ info \in got \/ InSeq(info, out)
                    \/ sub # nil /\ InSeq(info, sub.buf)
    <2>0. ASSUME NEW S, NEW v \in Seq(S), NEW info, InSeq(info, v) PROVE info \in S
      BY <2>0 DEF InSeq
    <2>1. /\ \A info : info \in got => info \in Found \cup {Empty}
          /\ \A info : InSeq(info, out) => info \in Found \cup {Empty}
      BY <2>0, Zenon DEF IInv, OutOK
    <2>2. \A info : sub # nil /\ InSeq(info, sub.buf) => info \in Found
      <3>1. sub # nil => sub.buf \in Seq(Found)
        BY Zenon DEF IInv, SubOK, Chan
      <3>. QED
        BY <2>0, <3>1, Zenon
    <2>3. infoOf(Client) # Empty
      BY DiscoveryOK, Zenon DEF infoOf
    <2>4. infoOf(Client) \in Found =>
             DialString(maddr) = "static" /\ InSeq(infoOf(Client), Static)
      <3>1. \A h \in Hosts \ {Client} : infoOf(h) # infoOf(Client)
        BY Zenon DEF infoOf
      <3>. QED
        BY <3>1, Zenon DEF Found, Statics, InSeq
    <2>5. delivered(infoOf(Client)) =>
             DialString(maddr) = "static" /\ InSeq(infoOf(Client), Static)
      <3>1. delivered(infoOf(Client)) => infoOf(Client) \in Found \cup {Empty}
        BY <2>1, <2>2, Zenon
      <3>. HIDE DEF delivered
      <3>. QED
        BY <2>3, <2>4, <3>1, Zenon
    <2>6. limit = 0 /\ open /\ ctx => ~delivered(Empty)
      BY <2>2, FoundNotZero, Zenon DEF IInv, NoZero
    <2>. QED
      BY <2>5, <2>6, Zenon DEF OthersOnly
  <1>. QED
    BY <1>1, InvHolds, PTL

(***************************************************************************)
(* A retry of the GradualSurveyor puts a survey with the distance of its   *)
(* turn on the wire, although LoadSurveyRequest may take the packet from a *)
(* cache that requests, responses and surveys of all distances share.      *)
(***************************************************************************)
THEOREM SendsAsMeant == Spec => SentAsMeant
  <1>1. IInv /\ [Next]_vars =>
          [retry => \E p \in net' : Type(p.env) = "survey" /\ Distance(p.env) = distance]_vars
    BY retryKeeps, Zenon
  <1>. QED
    BY <1>1, InvHolds, PTL DEF Spec, SentAsMeant
-----------------------------------------------------------------------------
(***************************************************************************)
(* Numbers and their bits.  The provers know neither induction nor powers: *)
(* the first comes from the least counterexample, the second from          *)
(* PowersOK.                                                               *)
(***************************************************************************)

\* A set of numbers has a least one,
LEMMA Least ==
    ASSUME NEW T \in SUBSET Nat, T # {}
    PROVE  \E n \in T : \A m \in T : ~(m < n)
  <1>. DEFINE less == OpToRel(<, Nat)
  <1>1. IsWellFoundedOn(less, Nat)
    BY NatLessThanWellFounded, Zenon
  <1>. HIDE DEF less
  <1>2. PICK n \in T : \A m \in T : ~(<<m, n>> \in less)
    BY <1>1, WFMin, Zenon
  <1>3. \A m \in T : m < n => <<m, n>> \in less
    BY Zenon DEF less, OpToRel
  <1>. QED
    BY <1>2, <1>3, Zenon

\* so one that has 0 and with every number the next has them all.
LEMMA Induction ==
    ASSUME NEW M \in Nat, NEW S, 0 \in S, \A n \in 0..(M - 1) : n \in S => n + 1 \in S
    PROVE  \A n \in 0..M : n \in S
  <1>. DEFINE T == {n \in 0..M : n \notin S}
  <1>1. SUFFICES ASSUME T # {} PROVE FALSE
    BY Zenon
  <1>2. T \in SUBSET Nat
    OBVIOUS
  <1>3. PICK n \in T : \A m \in T : ~(m < n)
    BY <1>1, <1>2, Least, Zenon
  <1>4. n \in 0..M /\ n \notin S
    BY Zenon
  <1>5. n # 0
    BY <1>4, Zenon
  <1>6. n - 1 \in 0..(M - 1) /\ n - 1 \in 0..M /\ n - 1 < n /\ (n - 1) + 1 = n
    BY <1>4, <1>5
  <1>7. n - 1 \in S
    BY <1>3, <1>6, Zenon
  <1>. QED
    BY <1>4, <1>6, <1>7, Zenon

\* Powers of two are positive.
LEMMA PowNat == \A k \in 0..Bits : 2^k \in Nat \ {0}
  <1>. DEFINE S == {k \in 0..Bits : 2^k \in Nat \ {0}}
  <1>0. Bits \in Nat
    BY RangeOK, Zenon
  <1>1. 0 \in S
    <2>1. 2^0 = 1
      OBVIOUS
    <2>. QED
      BY <1>0, <2>1
  <1>2. ASSUME NEW k \in 0..(Bits - 1), k \in S PROVE k + 1 \in S
    <2>1. 2^(k + 1) = 2 * 2^k
      BY PowersOK, Zenon
    <2>. QED
      BY <1>0, <1>2, <2>1
  <1>. HIDE DEF S
  <1>3. \A k \in 0..Bits : k \in S
    BY <1>0, <1>1, <1>2, Induction, Zenon
  <1>. QED
    BY <1>3, Zenon DEF S

\* Powers grow.
LEMMA PowMono == \A k \in 0..Bits : \A j \in 0..k : 2^j <= 2^k
  <1>. DEFINE S == {k \in 0..Bits : \A j \in 0..k : 2^j <= 2^k}
  <1>0. Bits \in Nat
    BY RangeOK, Zenon
  <1>1. 0 \in S
    <2>1. 2^0 = 1
      OBVIOUS
    <2>2. \A j \in 0..0 : j = 0
      OBVIOUS
    <2>3. 0 \in 0..Bits /\ 2^0 <= 2^0
      BY <1>0, <2>1
    <2>. QED
      BY <2>2, <2>3, Zenon
  <1>2. ASSUME NEW k \in 0..(Bits - 1), k \in S PROVE k + 1 \in S
    <2>1. 2^(k + 1) = 2 * 2^k
      BY PowersOK, Zenon
    <2>2. 2^k \in Nat /\ k + 1 \in 0..Bits
      BY <1>0, PowNat
    <2>3. ASSUME NEW j \in 0..(k + 1) PROVE 2^j <= 2^(k + 1)
      <3>1. CASE j = k + 1
        BY <2>1, <2>2, <3>1
      <3>2. CASE j \in 0..k
        <4>1. 2^j \in Nat
          BY <1>0, PowNat
        <4>. QED
          BY <1>2, <2>1, <2>2, <3>2, <4>1
      <3>. QED
        BY <3>1, <3>2
    <2>. QED
      BY <2>2, <2>3, Zenon
  <1>. HIDE DEF S
  <1>3. \A k \in 0..Bits : k \in S
    BY <1>0, <1>1, <1>2, Induction, Zenon
  <1>. QED
    BY <1>3, Zenon DEF S

\* The number of blocks of a size.
LEMMA Blocks ==
    ASSUME NEW o \in 1..Bits
    PROVE  2^Bits = 2^o * 2^(Bits - o) /\ 2^o \in Nat /\ 2^o >= 2
  <1>. DEFINE S == {k \in 0..Bits : 2^Bits = 2^k * 2^(Bits - k)}
  <1>0. Bits \in Nat
    BY RangeOK, Zenon
  <1>1. 0 \in S
    <2>1. 2^0 = 1
      OBVIOUS
    <2>2. 2^Bits \in Nat /\ Bits - 0 = Bits
      BY <1>0, PowNat
    <2>. QED
      BY <1>0, <2>1, <2>2
  <1>2. ASSUME NEW k \in 0..(Bits - 1), k \in S PROVE k + 1 \in S
    <2>1. 2^(k + 1) = 2 * 2^k
      BY PowersOK, Zenon
    <2>2. 2^k \in Nat /\ 2^(Bits - (k + 1)) \in Nat
      BY <1>0, PowNat
    <2>3. Bits - (k + 1) \in 0..(Bits - 1) /\ (Bits - (k + 1)) + 1 = Bits - k
      BY <1>0
    <2>4. 2^(Bits - k) = 2 * 2^(Bits - (k + 1))
      BY <2>3, PowersOK, Zenon
    <2>. QED
      BY <1>0, <1>2, <2>1, <2>2, <2>4
  <1>. HIDE DEF S
  <1>3. \A k \in 0..Bits : k \in S
    BY <1>0, <1>1, <1>2, Induction, Zenon
  <1>4. 2^(0 + 1) = 2 * 2^0
    BY RangeOK, PowersOK
  <1>5. 2^1 = 2
    BY <1>4
  <1>6. o \in 0..Bits /\ 1 \in 0..o
    BY <1>0
  <1>7. 2^o \in Nat /\ 2^1 <= 2^o
    BY <1>6, PowNat, PowMono, Zenon
  <1>. QED
    BY <1>3, <1>5, <1>6, <1>7, Zenon DEF S

\* Quotient and remainder,
LEMMA DivMod ==
    ASSUME NEW x \in Nat, NEW p \in Nat \ {0}
    PROVE  /\ x \div p \in Nat /\ x % p \in 0..(p - 1)
           /\ x = p * (x \div p) + (x % p)
  OBVIOUS

\* which nothing else can be.
LEMMA DivIs ==
    ASSUME NEW p \in Nat \ {0}, NEW q \in Nat, NEW r \in 0..(p - 1)
    PROVE  (p * q + r) \div p = q /\ (p * q + r) % p = r /\ p * q + r \in Nat
  OBVIOUS

\* Halving drops a bit.
LEMMA DivDiv ==
    ASSUME NEW x \in Nat, NEW p \in Nat \ {0}
    PROVE  (x \div 2) \div p = x \div (2 * p)
  <1>. DEFINE q == x \div (2 * p)
              r == x % (2 * p)
  <1>1. 2 * p \in Nat \ {0}
    OBVIOUS
  <1>2. x = (2 * p) * q + r /\ q \in Nat /\ r \in 0..(2 * p - 1)
    BY <1>1, DivMod, Zenon
  <1>. HIDE DEF q, r
  <1>. DEFINE t == p * q
              h == r \div 2
  <1>3. t \in Nat /\ h \in 0..(p - 1) /\ r = 2 * h + (r % 2) /\ r % 2 \in 0..1
    BY <1>2
  <1>4. x = 2 * t + r
    BY <1>2
  <1>. HIDE DEF h
  <1>5. x \div 2 = t + h
    <2>. HIDE DEF t
    <2>. QED
      BY <1>3, <1>4
  <1>6. (t + h) \div p = q
    BY <1>2, <1>3, DivIs, Zenon
  <1>7. (x \div 2) \div p = q
    BY <1>5, <1>6, Zenon
  <1>. QED
    BY <1>7, Zenon DEF q

\* The bits of a half are those of the number, one place lower.
LEMMA Halves ==
    ASSUME NEW x \in Nat, NEW k \in 0..(Bits - 1)
    PROVE  bit(x \div 2, k) = bit(x, k + 1)
  <1>1. 2^(k + 1) = 2 * 2^k
    BY PowersOK, Zenon
  <1>2. k \in 0..Bits
    BY RangeOK
  <1>3. 2^k \in Nat \ {0}
    BY <1>2, PowNat, Zenon
  <1>4. (x \div 2) \div 2^k = x \div (2 * 2^k)
    BY <1>3, DivDiv, Zenon
  <1>. QED
    BY <1>1, <1>4, Zenon DEF bit

\* A bit is zero or one.
LEMMA BitIs ==
    ASSUME NEW x \in Nat, NEW k \in 0..Bits
    PROVE  bit(x, k) \in {0, 1}
  <1>1. 2^k \in Nat \ {0}
    BY PowNat, Zenon
  <1>. QED
    BY <1>1 DEF bit

\* The lowest bit tells odd from even.
LEMMA BitZero == \A x \in Nat : bit(x, 0) = x % 2
  <1>1. 2^0 = 1
    OBVIOUS
  <1>2. \A x \in Nat : x \div 1 = x
    OBVIOUS
  <1>. QED
    BY <1>1, <1>2, Zenon DEF bit

\* Half of a number of n + 1 bits has n.
LEMMA HalfOf ==
    ASSUME NEW n \in 0..(Bits - 1), NEW x \in 0..(2^(n + 1) - 1)
    PROVE  x \in Nat /\ x \div 2 \in 0..(2^n - 1) /\ x = 2 * (x \div 2) + (x % 2)
  <1>1. 2^(n + 1) = 2 * 2^n
    BY PowersOK, Zenon
  <1>2. n \in 0..Bits
    BY RangeOK
  <1>3. 2^n \in Nat \ {0}
    BY <1>2, PowNat, Zenon
  <1>4. x \in 0..(2 * 2^n - 1)
    BY <1>1, Zenon
  <1>. QED
    BY <1>3, <1>4

\* Two numbers have the same bits between two places.
Agree(x, y, from, to) == \A k \in from..to : bit(x, k) = bit(y, k)

\* Halves of numbers that agree, agree one place lower.
LEMMA AgreeHalf ==
    ASSUME NEW n \in 0..(Bits - 1), NEW j \in Nat,
           NEW x \in Nat, NEW y \in Nat, Agree(x, y, j + 1, n)
    PROVE  Agree(x \div 2, y \div 2, j, n - 1)
  <1>1. SUFFICES ASSUME NEW k \in j..(n - 1) PROVE bit(x \div 2, k) = bit(y \div 2, k)
    BY Zenon DEF Agree
  <1>2. k \in 0..(Bits - 1) /\ k + 1 \in (j + 1)..n
    BY RangeOK
  <1>. QED
    BY <1>2, Halves, Zenon DEF Agree

\* A number is known by its bits.
LEMMA SameBits ==
    ASSUME NEW n \in 0..Bits, NEW x \in 0..(2^n - 1), NEW y \in 0..(2^n - 1),
           Agree(x, y, 0, n - 1)
    PROVE  x = y
  <1>. DEFINE P(m) == \A a, b \in 0..(2^m - 1) : Agree(a, b, 0, m - 1) => a = b
              S == {m \in 0..Bits : P(m)}
  <1>0. Bits \in Nat
    BY RangeOK, Zenon
  <1>1. 0 \in S
    <2>1. 2^0 = 1
      OBVIOUS
    <2>2. \A a \in 0..(2^0 - 1) : a = 0
      BY <2>1
    <2>3. 0 \in 0..Bits
      BY <1>0
    <2>. QED
      BY <2>2, <2>3, Zenon
  <1>2. ASSUME NEW m \in 0..(Bits - 1), m \in S PROVE m + 1 \in S
    <2>1. m + 1 \in 0..Bits /\ (m + 1) - 1 = m
      BY <1>0
    <2>2. ASSUME NEW a \in 0..(2^(m + 1) - 1), NEW b \in 0..(2^(m + 1) - 1),
                 Agree(a, b, 0, m)
          PROVE  a = b
      <3>1. /\ a \in Nat /\ a \div 2 \in 0..(2^m - 1) /\ a = 2 * (a \div 2) + (a % 2)
            /\ b \in Nat /\ b \div 2 \in 0..(2^m - 1) /\ b = 2 * (b \div 2) + (b % 2)
        BY HalfOf, Zenon
      <3>2. 0 \in 0..m /\ 0 \in Nat
        OBVIOUS
      <3>3. a % 2 = b % 2
        BY <2>2, <3>1, <3>2, BitZero, Zenon DEF Agree
      <3>4. Agree(a, b, 0 + 1, m)
        BY <2>2 DEF Agree
      <3>5. Agree(a \div 2, b \div 2, 0, m - 1)
        BY <3>1, <3>2, <3>4, AgreeHalf, Zenon
      <3>6. a \div 2 = b \div 2
        BY <1>2, <3>1, <3>5, Zenon
      <3>. QED
        BY <3>1, <3>3, <3>6, Zenon
    <2>. QED
      BY <2>1, <2>2, Zenon
  <1>. HIDE DEF S
  <1>3. \A m \in 0..Bits : m \in S
    BY <1>0, <1>1, <1>2, Induction, Zenon
  <1>4. n \in S
    BY <1>3, Zenon
  <1>. QED
    BY <1>4, Zenon DEF S

\* Numbers that agree from a bit on are in one block.
LEMMA SameBlock ==
    ASSUME NEW j \in 0..Bits, NEW x \in Space, NEW y \in Space, Agree(x, y, j, Bits - 1)
    PROVE  x \div 2^j = y \div 2^j
  <1>. DEFINE P(i) ==
                \A n \in i..Bits : \A a, b \in 0..(2^n - 1) :
                    Agree(a, b, i, n - 1) => a \div 2^i = b \div 2^i
              S == {i \in 0..Bits : P(i)}
  <1>0. Bits \in Nat
    BY RangeOK, Zenon
  <1>1. 0 \in S
    <2>1. 0 \in 0..Bits
      BY <1>0
    <2>. QED
      BY <2>1, SameBits, Zenon
  <1>2. ASSUME NEW i \in 0..(Bits - 1), i \in S PROVE i + 1 \in S
    <2>1. i + 1 \in 0..Bits /\ i \in 0..Bits /\ i \in Nat
      BY <1>0
    <2>2. ASSUME NEW n \in (i + 1)..Bits, NEW a \in 0..(2^n - 1), NEW b \in 0..(2^n - 1),
                 Agree(a, b, i + 1, n - 1)
          PROVE  a \div 2^(i + 1) = b \div 2^(i + 1)
      <3>. DEFINE m == n - 1
      <3>1. m \in 0..(Bits - 1) /\ m \in i..Bits /\ n = m + 1
        BY <1>0
      <3>. HIDE DEF m
      <3>2. /\ a \in Nat /\ a \div 2 \in 0..(2^m - 1)
            /\ b \in Nat /\ b \div 2 \in 0..(2^m - 1)
        BY <3>1, HalfOf, Zenon
      <3>3. Agree(a \div 2, b \div 2, i, m - 1)
        BY <2>1, <2>2, <3>1, <3>2, AgreeHalf, Zenon DEF m
      <3>4. (a \div 2) \div 2^i = (b \div 2) \div 2^i
        BY <1>2, <3>1, <3>2, <3>3, Zenon
      <3>5. 2^i \in Nat \ {0}
        BY <2>1, PowNat, Zenon
      <3>6. 2^(i + 1) = 2 * 2^i
        BY PowersOK, Zenon
      <3>. QED
        BY <3>2, <3>4, <3>5, <3>6, DivDiv, Zenon
    <2>. QED
      BY <2>1, <2>2, Zenon
  <1>. HIDE DEF S
  <1>3. \A i \in 0..Bits : i \in S
    BY <1>0, <1>1, <1>2, Induction, Zenon
  <1>4. j \in S /\ Bits \in j..Bits
    BY <1>0, <1>3
  <1>. QED
    BY <1>4, Zenon DEF S, Space

\* The bits of a sum without carries: some number has them.
XorOf(z, x, y, n) == \A k \in 0..(n - 1) : bit(z, k) = (bit(x, k) + bit(y, k)) % 2

\* By induction over the bits.
LEMMA XorExists ==
    ASSUME NEW x \in Space, NEW y \in Space
    PROVE  \E z \in Space : XorOf(z, x, y, Bits)
  <1>. DEFINE P(m) == \A a, b \in 0..(2^m - 1) : \E z \in 0..(2^m - 1) : XorOf(z, a, b, m)
              S == {m \in 0..Bits : P(m)}
  <1>0. Bits \in Nat
    BY RangeOK, Zenon
  <1>1. 0 \in S
    <2>1. 2^0 = 1
      OBVIOUS
    <2>2. 0 \in 0..(2^0 - 1) /\ 0..(0 - 1) = {} /\ 0 \in 0..Bits
      BY <1>0, <2>1
    <2>. QED
      BY <2>2, Zenon DEF XorOf
  <1>2. ASSUME NEW m \in 0..(Bits - 1), m \in S PROVE m + 1 \in S
    <2>1. m + 1 \in 0..Bits /\ (m + 1) - 1 = m /\ m \in 0..Bits
      BY <1>0
    <2>2. ASSUME NEW a \in 0..(2^(m + 1) - 1), NEW b \in 0..(2^(m + 1) - 1)
          PROVE  \E z \in 0..(2^(m + 1) - 1) : XorOf(z, a, b, m + 1)
      <3>1. /\ a \in Nat /\ a \div 2 \in 0..(2^m - 1)
            /\ b \in Nat /\ b \div 2 \in 0..(2^m - 1)
        BY HalfOf, Zenon
      <3>2. PICK y1 \in 0..(2^m - 1) : XorOf(y1, a \div 2, b \div 2, m)
        BY <1>2, <3>1, Zenon
      <3>. DEFINE low == ((a % 2) + (b % 2)) % 2
                  z == 2 * y1 + low
      <3>3. low \in 0..1
        BY <3>1
      <3>4. 2^m \in Nat \ {0} /\ 2^(m + 1) = 2 * 2^m
        BY <2>1, PowNat, PowersOK, Zenon
      <3>. HIDE DEF low
      <3>5. z \in 0..(2^(m + 1) - 1) /\ z \in Nat /\ z \div 2 = y1 /\ z % 2 = low
        BY <3>3, <3>4
      <3>. HIDE DEF z
      <3>6. ASSUME NEW k \in 0..m PROVE bit(z, k) = (bit(a, k) + bit(b, k)) % 2
        <4>1. CASE k = 0
          BY <3>1, <3>5, <4>1, BitZero, Zenon DEF low
        <4>2. CASE k # 0
          <5>1. k - 1 \in 0..(m - 1) /\ k - 1 \in 0..(Bits - 1) /\ (k - 1) + 1 = k
            BY <1>0, <4>2
          <5>2. /\ bit(z \div 2, k - 1) = bit(z, k)
                /\ bit(a \div 2, k - 1) = bit(a, k)
                /\ bit(b \div 2, k - 1) = bit(b, k)
            BY <3>1, <3>5, <5>1, Halves, Zenon
          <5>. QED
            BY <3>2, <3>5, <5>1, <5>2, Zenon DEF XorOf
        <4>. QED
          BY <4>1, <4>2, Zenon
      <3>. QED
        BY <2>1, <3>5, <3>6, Zenon DEF XorOf
    <2>. QED
      BY <2>1, <2>2, Zenon
  <1>. HIDE DEF S
  <1>3. \A m \in 0..Bits : m \in S
    BY <1>0, <1>1, <1>2, Induction, Zenon
  <1>4. Bits \in S
    BY <1>0, <1>3
  <1>. QED
    BY <1>4, Zenon DEF S, Space

\* The result of xormask is an address with those bits.
LEMMA XorIs ==
    ASSUME NEW ip \in Space, NEW mask \in Space
    PROVE  xormask(ip, mask) \in Space /\ XorOf(xormask(ip, mask), ip, mask, Bits)
  <1>1. xormask(ip, mask) = CHOOSE x \in Space : XorOf(x, ip, mask, Bits)
    BY Zenon DEF xormask, XorOf
  <1>. QED
    BY <1>1, XorExists, Zenon

\* Addresses are numbers.
LEMMA SpaceIs == Space \subseteq Nat /\ 2^Bits \in Nat \ {0}
  <1>1. Bits \in 0..Bits
    BY RangeOK
  <1>2. 2^Bits \in Nat \ {0}
    BY <1>1, PowNat, Zenon
  <1>. QED
    BY <1>2 DEF Space

\* A mask undoes itself,
LEMMA XorTwice ==
    ASSUME NEW ip \in Space, NEW mask \in Space
    PROVE  xormask(xormask(ip, mask), mask) = ip
  <1>. DEFINE y == xormask(ip, mask)
              z == xormask(y, mask)
  <1>1. y \in Space /\ XorOf(y, ip, mask, Bits)
    BY XorIs, Zenon
  <1>. HIDE DEF y
  <1>2. z \in Space /\ XorOf(z, y, mask, Bits)
    BY <1>1, XorIs, Zenon
  <1>. HIDE DEF z
  <1>3. \A a, b \in {0, 1} : (((a + b) % 2) + b) % 2 = a
    OBVIOUS
  <1>4. ASSUME NEW k \in 0..(Bits - 1) PROVE bit(z, k) = bit(ip, k)
    <2>1. k \in 0..Bits
      BY RangeOK
    <2>2. bit(ip, k) \in {0, 1} /\ bit(mask, k) \in {0, 1}
      BY <2>1, SpaceIs, BitIs, Zenon
    <2>3. bit(y, k) = (bit(ip, k) + bit(mask, k)) % 2
      BY <1>1, Zenon DEF XorOf
    <2>4. bit(z, k) = (bit(y, k) + bit(mask, k)) % 2
      BY <1>2, Zenon DEF XorOf
    <2>5. (((bit(ip, k) + bit(mask, k)) % 2) + bit(mask, k)) % 2 = bit(ip, k)
      BY <1>3, <2>2, Zenon
    <2>. QED
      BY <2>3, <2>4, <2>5, Zenon
  <1>5. Bits \in 0..Bits
    BY RangeOK
  <1>6. z = ip
    BY <1>2, <1>4, <1>5, SameBits, Zenon DEF Agree, Space
  <1>. QED
    BY <1>6, Zenon DEF z, y

\* and one without bits of the network stays in the block.
LEMMA XorBlock ==
    ASSUME NEW ip \in Space, NEW j \in 0..Bits, NEW mask \in 0..(2^j - 1)
    PROVE  mask \in Space /\ xormask(ip, mask) \div 2^j = ip \div 2^j
  <1>. DEFINE y == xormask(ip, mask)
  <1>1. mask \in Nat /\ mask < 2^j /\ 2^j \in Nat
    <2>1. 2^j \in Nat
      BY PowNat, Zenon
    <2>. QED
      BY <2>1
  <1>2. mask \in Space
    <2>1. Bits \in 0..Bits /\ j \in 0..Bits
      BY RangeOK
    <2>2. 2^j <= 2^Bits /\ 2^Bits \in Nat
      BY <2>1, PowMono, SpaceIs, Zenon
    <2>. QED
      BY <1>1, <2>2 DEF Space
  <1>3. y \in Space /\ XorOf(y, ip, mask, Bits)
    BY <1>2, XorIs, Zenon
  <1>. HIDE DEF y
  <1>4. ASSUME NEW k \in j..(Bits - 1) PROVE bit(y, k) = bit(ip, k)
    <2>1. k \in 0..Bits /\ k \in 0..(Bits - 1) /\ j \in 0..k
      BY RangeOK
    <2>2. 2^j <= 2^k /\ 2^k \in Nat \ {0}
      BY <2>1, PowMono, PowNat, Zenon
    <2>3. mask \div 2^k = 0
      BY <1>1, <2>2
    <2>4. bit(mask, k) = 0
      <3>1. 0 % 2 = 0
        OBVIOUS
      <3>. QED
        BY <2>3, <3>1, Zenon DEF bit
    <2>5. bit(ip, k) \in {0, 1}
      BY <2>1, SpaceIs, BitIs, Zenon
    <2>6. \A a \in {0, 1} : (a + 0) % 2 = a
      OBVIOUS
    <2>. QED
      BY <1>3, <2>1, <2>4, <2>5, <2>6, Zenon DEF XorOf
  <1>5. y \div 2^j = ip \div 2^j
    BY <1>3, <1>4, SameBlock, Zenon DEF Agree
  <1>. QED
    BY <1>2, <1>5, Zenon DEF y

-----------------------------------------------------------------------------
(***************************************************************************)
(* The addresses of a block, in the order that the mask gives them.        *)
(***************************************************************************)

\* To share the quotient by the size of a block is to be in the block.
LEMMA InBlock ==
    ASSUME NEW b \in Nat \ {0}, NEW n \in Nat, n % b = 0, NEW z \in Nat
    PROVE  z \div b = n \div b <=> z \in n..(n + b - 1)
  <1>. DEFINE k == n \div b
              m == z \div b
              r == z % b
  <1>1. k \in Nat /\ n = b * k
    BY DivMod
  <1>2. m \in Nat /\ r \in 0..(b - 1) /\ z = b * m + r
    BY DivMod, Zenon
  <1>. HIDE DEF k, m, r
  <1>3. ASSUME m = k PROVE z \in n..(n + b - 1)
    BY <1>1, <1>2, <1>3
  <1>4. ASSUME z \in n..(n + b - 1) PROVE m = k
    <2>1. z - n \in 0..(b - 1) /\ z = b * k + (z - n)
      BY <1>1, <1>4
    <2>2. z \div b = k
      BY <1>1, <2>1, DivIs
    <2>. QED
      BY <2>2, Zenon DEF m
  <1>. QED
    BY <1>3, <1>4, Zenon DEF m, k

\* A block ends within the space, and does not start at 0 when it is the last.
LEMMA BlockEnd ==
    ASSUME NEW b \in Nat \ {0}, NEW q \in Nat, q >= 2,
           NEW n \in 0..(q * b - 1), n % b = 0
    PROVE  n + b <= q * b /\ (n + b = q * b => n > 0)
  <1>. DEFINE k == n \div b
  <1>0. n \in Nat
    OBVIOUS
  <1>1. k \in Nat /\ n = b * k
    BY <1>0, DivMod
  <1>. HIDE DEF k
  <1>2. k < q
    BY <1>1
  <1>3. b * (k + 1) <= b * q /\ b * (k + 1) = n + b /\ b * q = q * b
    BY <1>1, <1>2
  <1>4. q * b >= 2 * b
    OBVIOUS
  <1>. QED
    BY <1>3, <1>4

\* A block with a prefix, and the address that was reached in it, if any.
Block(c) ==
    /\ c \in [kind : {"cidr"}, net : Space, ones : 1..Bits, ip : Space \cup {-1},
             mask : setRandomMask(c.ones)]
    /\ c.net % BlockSize(c) = 0
    /\ c.ip # -1 => c.ip \in c.net..bcst(c)

\* Contains is to be between the network and the broadcast address; the mask
\* permutes the block.
LEMMA BlockIs ==
    ASSUME NEW c, Block(c)
    PROVE  /\ BlockSize(c) \in Nat \ {0} /\ c.net \in Space /\ c.mask \in Space
           /\ c.net + BlockSize(c) <= 2^Bits
           /\ c.net + BlockSize(c) = 2^Bits => c.net > 0
           /\ bcst(c) \in Space /\ c.net..bcst(c) \subseteq Space
           /\ \A z \in Space : Contains(c, z) <=> z \in c.net..bcst(c)
           /\ \A z \in Space :
                 /\ xormask(z, c.mask) \in Space
                 /\ xormask(xormask(z, c.mask), c.mask) = z
                 /\ xormask(z, c.mask) \in c.net..bcst(c) <=> z \in c.net..bcst(c)
  <1>. DEFINE b == BlockSize(c)
              j == Bits - c.ones
              n == c.net
              N == 2^Bits
              q == 2^c.ones
  <1>1. n \in Space /\ c.ones \in 1..Bits /\ c.mask \in 0..(2^j - 1) /\ n % b = 0
    BY Zenon DEF Block, setRandomMask
  <1>2. j \in 0..Bits
    BY <1>1, RangeOK
  <1>3. b = 2^j /\ b \in Nat \ {0}
    BY <1>2, PowNat, Zenon DEF BlockSize
  <1>4. N = q * b /\ q \in Nat /\ q >= 2
    BY <1>1, <1>3, Blocks, Zenon
  <1>5. Space = 0..(N - 1) /\ Space \subseteq Nat /\ N \in Nat
    BY SpaceIs, Zenon DEF Space
  <1>6. c.mask \in Space
    BY <1>1, <1>2, XorBlock, Zenon
  <1>. HIDE DEF b, j, n, N, q
  <1>7. n + b <= N /\ (n + b = N => n > 0)
    BY <1>1, <1>3, <1>4, <1>5, BlockEnd, Zenon
  <1>8. n + b - 1 \in Space /\ n..(n + b - 1) \subseteq Space
    <2>1. n \in Nat /\ b \in Nat \ {0}
      BY <1>1, <1>3, <1>5, Zenon
    <2>2. n + b - 1 \in 0..(N - 1)
      BY <1>5, <1>7, <2>1
    <2>3. ASSUME NEW z \in n..(n + b - 1) PROVE z \in 0..(N - 1)
      BY <1>5, <1>7, <2>1
    <2>. QED
      BY <1>5, <2>2, <2>3, Zenon
  <1>9. \A z \in Space : z \div b = n \div b <=> z \in n..(n + b - 1)
    BY <1>1, <1>3, <1>5, InBlock, Zenon
  <1>10. ASSUME NEW z \in Space
         PROVE  /\ xormask(z, c.mask) \in Space
                /\ xormask(xormask(z, c.mask), c.mask) = z
                /\ xormask(z, c.mask) \in n..(n + b - 1) <=> z \in n..(n + b - 1)
    <2>1. xormask(z, c.mask) \in Space /\ xormask(xormask(z, c.mask), c.mask) = z
      BY <1>6, XorIs, XorTwice, Zenon
    <2>2. xormask(z, c.mask) \div 2^j = z \div 2^j
      BY <1>1, <1>2, XorBlock, Zenon
    <2>. QED
      BY <1>3, <1>9, <2>1, <2>2, Zenon
  <1>. QED
    BY <1>1, <1>3, <1>6, <1>7, <1>8, <1>9, <1>10, Zenon DEF b, n, N, bcst, Contains

\* Counting past the largest number.
LEMMA Wrap ==
    ASSUME NEW N \in Nat \ {0}, NEW a \in 0..(2 * N - 1)
    PROVE  /\ a < N => a % N = a
           /\ a >= N => a % N = a - N
  <1>1. ASSUME a < N PROVE a % N = a
    BY <1>1
  <1>2. ASSUME a >= N PROVE a % N = a - N
    <2>1. a - N \in 0..(N - 1) /\ N * 1 + (a - N) = a /\ 1 \in Nat
      BY <1>2
    <2>2. (N * 1 + (a - N)) % N = a - N
      BY <2>1, DivIs, Zenon
    <2>. QED
      BY <2>1, <2>2, Zenon
  <1>. QED
    BY <1>1, <1>2, Zenon

\* Where nextIP looks first, before the number is cut to its width.
start(c) == IF c.ip = -1 THEN c.net ELSE c.ip + 1

\* It is in the block, or right behind it.
LEMMA startIs ==
    ASSUME NEW c, Block(c)
    PROVE  start(c) \in c.net..(bcst(c) + 1) /\ start(c) \in 0..2^Bits
  <1>. DEFINE b == BlockSize(c)
              n == c.net
              N == 2^Bits
  <1>1. b \in Nat \ {0} /\ n \in Nat /\ n + b <= N /\ N \in Nat
    BY BlockIs, SpaceIs, Zenon
  <1>2. c.ip # -1 => c.ip \in n..(n + b - 1)
    BY Zenon DEF Block, bcst
  <1>. HIDE DEF b, n, N
  <1>3. ASSUME c.ip = -1 PROVE n \in n..(n + b - 1 + 1) /\ n \in 0..N
    BY <1>1
  <1>4. ASSUME c.ip # -1 PROVE c.ip + 1 \in n..(n + b - 1 + 1) /\ c.ip + 1 \in 0..N
    BY <1>1, <1>2, <1>4
  <1>. QED
    BY <1>3, <1>4, Zenon DEF start, bcst, b, n, N

\* The address after the block is out of it, and not skipped.
LEMMA PastEnd ==
    ASSUME NEW c, Block(c)
    PROVE  LET e == (bcst(c) + 1) % 2^Bits
           IN e \in Space /\ ~Contains(c, e) /\ ~skip(c, e)
  <1>. DEFINE b == BlockSize(c)
              n == c.net
              N == 2^Bits
              e == (bcst(c) + 1) % N
  <1>1. b \in Nat \ {0} /\ n \in Nat /\ n + b <= N /\ (n + b = N => n > 0) /\ N \in Nat \ {0}
    BY BlockIs, SpaceIs, Zenon
  <1>2. bcst(c) = n + b - 1
    BY Zenon DEF bcst
  <1>3. Space = 0..(N - 1)
    BY Zenon DEF Space
  <1>. HIDE DEF b, n, N
  <1>4. n + b \in 0..(2 * N - 1) /\ bcst(c) + 1 = n + b /\ {n, bcst(c)} \subseteq n..bcst(c)
    BY <1>1, <1>2
  <1>5. (n + b < N => e = n + b) /\ (n + b >= N => e = (n + b) - N)
    <2>1. /\ n + b < N => (n + b) % N = n + b
          /\ n + b >= N => (n + b) % N = (n + b) - N
      BY <1>1, <1>4, Wrap, Zenon
    <2>. QED
      BY <1>4, <2>1, Zenon
  <1>. HIDE DEF e
  <1>6. e \in Space /\ e \notin n..bcst(c)
    BY <1>1, <1>2, <1>3, <1>5
  <1>7. ~Contains(c, e)
    BY <1>6, BlockIs, Zenon DEF n
  <1>8. xormask(e, c.mask) \notin n..bcst(c)
    BY <1>6, BlockIs, Zenon DEF n
  <1>9. ~skip(c, e)
    BY <1>4, <1>8 DEF skip, n
  <1>. QED
    BY <1>6, <1>7, <1>9, Zenon DEF e, N

\* No more than two addresses are skipped.
LEMMA TwoSkipped ==
    ASSUME NEW c, Block(c), NEW x \in Space, NEW y \in Space, NEW z \in Space,
           x # y, y # z, x # z
    PROVE  ~(skip(c, x) /\ skip(c, y) /\ skip(c, z))
  <1>1. \A a, d \in Space : xormask(a, c.mask) = xormask(d, c.mask) => a = d
    <2>1. \A a \in Space : xormask(xormask(a, c.mask), c.mask) = a
      BY BlockIs, Zenon
    <2>. QED
      BY <2>1, Zenon
  <1>. QED
    BY <1>1, Zenon DEF skip

\* nextIP passes over skipped addresses only, and goes no further than one past
\* the block, although it counts on from the largest address to the smallest.
LEMMA nextIPIs ==
    ASSUME NEW c, Block(c)
    PROVE  \E v \in start(c)..(bcst(c) + 1) :
              /\ nextIP(c) = [c EXCEPT !.ip = v % 2^Bits]
              /\ \A x \in start(c)..(v - 1) : skip(c, x)
              /\ ~skip(c, v % 2^Bits)
  <1>. DEFINE u == start(c)
              N == 2^Bits
              from == IF c.ip = -1 THEN c.net ELSE incrIP(c.ip)
              at == [k \in 0..2 |-> (from + k) % N]
              w(k) == (u + k) % N
              First(k) == ~skip(c, at[k]) /\ \A j \in 0..(k - 1) : skip(c, at[j])
              n == CHOOSE k \in 0..2 : First(k)
  <1>1. nextIP(c) = [c EXCEPT !.ip = at[n]]
    BY Zenon DEF nextIP
  <1>2. N \in Nat \ {0} /\ N >= 4 /\ Space = 0..(N - 1)
    <2>1. 2^(0 + 1) = 2 * 2^0 /\ 2^(1 + 1) = 2 * 2^1 /\ 2^0 = 1
      BY RangeOK, PowersOK
    <2>2. 2^2 = 4
      BY <2>1
    <2>3. Bits \in 0..Bits /\ 2 \in 0..Bits
      BY RangeOK
    <2>4. 2^2 <= 2^Bits
      BY <2>3, PowMono, Zenon
    <2>. QED
      BY <2>2, <2>4, SpaceIs DEF Space
  <1>3. u \in 0..N /\ u \in c.net..(bcst(c) + 1)
    BY startIs, Zenon
  <1>4. bcst(c) \in 0..(N - 1) /\ c.net \in 0..(N - 1)
    BY <1>2, BlockIs, Zenon
  <1>5. from = u % N
    <2>1. ASSUME c.ip = -1 PROVE c.net = c.net % N
      BY <1>2, <1>4
    <2>. QED
      BY <2>1, Zenon DEF start, incrIP
  <1>. HIDE DEF N, u, from
  <1>6. ASSUME NEW a \in 0..(N + 2)
        PROVE  /\ a < N => a % N = a
               /\ a >= N => a % N = a - N
    <2>1. a \in 0..(2 * N - 1)
      BY <1>2
    <2>. QED
      BY <1>2, <2>1, Wrap, Zenon
  <1>7. ASSUME NEW k \in 0..2
        PROVE  /\ at[k] = w(k) /\ w(k) \in Space
               /\ u + k < N => w(k) = u + k
               /\ u + k >= N => w(k) = (u + k) - N
    <2>1. at[k] = (from + k) % N
      BY Zenon
    <2>2. u \in 0..(N + 2) /\ u + k \in 0..(N + 2) /\ k \in 0..(N + 2) /\ k < N
      BY <1>2, <1>3
    <2>3. (u < N => from = u) /\ (u >= N => from = u - N)
      BY <1>5, <1>6, <2>2, Zenon
    <2>4. (u + k < N => w(k) = u + k) /\ (u + k >= N => w(k) = (u + k) - N)
      BY <1>6, <2>2, Zenon
    <2>5. CASE u < N
      BY <1>2, <1>3, <2>1, <2>3, <2>4, <2>5
    <2>6. CASE u = N
      <3>1. from = 0
        BY <1>2, <2>3, <2>6
      <3>2. (0 + k) % N = k
        BY <1>6, <2>2
      <3>. QED
        BY <1>2, <2>1, <2>2, <2>4, <2>6, <3>1, <3>2
    <2>. QED
      BY <1>2, <1>3, <2>5, <2>6
  <1>. HIDE DEF at, w
  <1>8. w(0) # w(1) /\ w(1) # w(2) /\ w(0) # w(2)
    BY <1>2, <1>3, <1>7
  <1>9. \E k \in 0..2 : First(k)
    <2>1. ~(skip(c, at[0]) /\ skip(c, at[1]) /\ skip(c, at[2]))
      BY <1>7, <1>8, TwoSkipped
    <2>2. 0..(0 - 1) = {} /\ 0..(1 - 1) = {0} /\ 0..(2 - 1) = {0, 1} /\ 0..2 = {0, 1, 2}
      OBVIOUS
    <2>3. CASE ~skip(c, at[0])
      BY <2>2, <2>3, Zenon
    <2>4. CASE skip(c, at[0]) /\ ~skip(c, at[1])
      <3>1. First(1)
        BY <2>2, <2>4, Zenon
      <3>. QED
        BY <2>2, <3>1, Zenon
    <2>5. CASE skip(c, at[0]) /\ skip(c, at[1]) /\ ~skip(c, at[2])
      <3>1. First(2)
        BY <2>2, <2>5, Zenon
      <3>. QED
        BY <2>2, <3>1, Zenon
    <2>. QED
      BY <2>1, <2>3, <2>4, <2>5, Zenon
  <1>10. n \in 0..2 /\ First(n)
    BY <1>9, Zenon
  <1>. HIDE DEF n
  <1>11. ~skip(c, w(n)) /\ \A j \in 0..(n - 1) : skip(c, w(j))
    <2>1. \A j \in 0..(n - 1) : j \in 0..2
      BY <1>10
    <2>. QED
      BY <1>7, <1>10, <2>1, Zenon
  <1>12. u + n <= bcst(c) + 1
    <2>1. SUFFICES ASSUME u + n > bcst(c) + 1 PROVE FALSE
      BY <1>3, <1>4, <1>10
    <2>. DEFINE d == bcst(c) + 1 - u
    <2>2. d \in 0..(n - 1) /\ u + d = bcst(c) + 1
      BY <1>3, <1>4, <1>10, <2>1
    <2>3. skip(c, w(d))
      BY <1>11, <2>2, Zenon
    <2>. QED
      BY <2>2, <2>3, PastEnd, Zenon DEF w, N
  <1>13. ASSUME NEW x \in u..((u + n) - 1) PROVE skip(c, x)
    <2>1. x - u \in 0..(n - 1) /\ u + (x - u) = x /\ x \in 0..(N + 2) /\ x < N
      BY <1>2, <1>3, <1>4, <1>10, <1>12
    <2>2. x % N = x
      BY <1>6, <2>1, Zenon
    <2>. QED
      BY <1>11, <2>1, <2>2, Zenon DEF w
  <1>14. u + n \in u..(bcst(c) + 1)
    BY <1>3, <1>4, <1>10, <1>12
  <1>15. nextIP(c) = [c EXCEPT !.ip = (u + n) % N] /\ ~skip(c, (u + n) % N)
    BY <1>1, <1>7, <1>10, <1>11, Zenon DEF w
  <1>. HIDE DEF First
  <1>16. \E v \in u..(bcst(c) + 1) :
            /\ nextIP(c) = [c EXCEPT !.ip = v % N]
            /\ \A x \in u..(v - 1) : skip(c, x)
            /\ ~skip(c, v % N)
    <2>. DEFINE v == u + n
    <2>1. \A x \in u..(v - 1) : skip(c, x)
      BY <1>13, Zenon
    <2>2. v \in u..(bcst(c) + 1) /\ nextIP(c) = [c EXCEPT !.ip = v % N] /\ ~skip(c, v % N)
      BY <1>14, <1>15, Zenon
    <2>. HIDE DEF v
    <2>. QED
      BY <2>1, <2>2, Zenon
  <1>. QED
    BY <1>16, Zenon DEF u, N

\* What NextAddr does to ports,
LEMMA NextPort ==
    ASSUME NEW r, r.kind = "ports"
    PROVE  /\ NextAddr(r).range = nextPort(r)
           /\ NextAddr(r).addr = port(r)
           /\ NextAddr(r).ok <=> morePorts(r)
  BY Zenon DEF NextAddr, morePorts

\* and to a block.
LEMMA NextIP ==
    ASSUME NEW r, r.kind = "cidr"
    PROVE  /\ NextAddr(r).range = nextIP(r)
           /\ NextAddr(r).addr = bind(nextIP(r))
           /\ NextAddr(r).ok <=> more(nextIP(r))
  BY Zenon DEF NextAddr, more, Contains

\* What a block yields next, or that nothing is left but skipped addresses.
LEMMA NextOf ==
    ASSUME NEW c, Block(c)
    PROVE  /\ NextAddr(c).ok =>
                 \E v \in start(c)..bcst(c) :
                    /\ NextAddr(c).range = [c EXCEPT !.ip = v]
                    /\ NextAddr(c).addr = xormask(v, c.mask)
                    /\ ~skip(c, v)
                    /\ \A x \in start(c)..(v - 1) : skip(c, x)
           /\ ~NextAddr(c).ok => \A x \in start(c)..bcst(c) : skip(c, x)
  <1>. DEFINE N == 2^Bits
  <1>1. PICK v \in start(c)..(bcst(c) + 1) :
            /\ nextIP(c) = [c EXCEPT !.ip = v % N]
            /\ \A x \in start(c)..(v - 1) : skip(c, x)
            /\ ~skip(c, v % N)
    BY nextIPIs, Zenon
  <1>. DEFINE e == v % N
              d == [c EXCEPT !.ip = e]
  <1>2. d.ip = e /\ d.mask = c.mask /\ d.net = c.net /\ d.ones = c.ones /\ c.kind = "cidr"
    BY Zenon DEF Block
  <1>3. Contains(d, e) <=> Contains(c, e)
    BY <1>2, Zenon DEF Contains, BlockSize
  <1>. HIDE DEF d, e
  <1>4. /\ NextAddr(c).range = nextIP(c)
        /\ NextAddr(c).addr = bind(nextIP(c))
        /\ NextAddr(c).ok <=> more(nextIP(c))
    BY <1>2, NextIP, Zenon
  <1>5. NextAddr(c).range = d /\ NextAddr(c).addr = xormask(e, c.mask)
    <2>1. nextIP(c) = d
      BY <1>1, Zenon DEF d, e
    <2>. QED
      BY <1>2, <1>4, <2>1, Zenon DEF bind
  <1>6. NextAddr(c).ok <=> Contains(d, e)
    <2>1. nextIP(c) = d
      BY <1>1, Zenon DEF d, e
    <2>. QED
      BY <1>2, <1>4, <2>1, Zenon DEF more
  <1>7. /\ bcst(c) \in 0..(N - 1) /\ c.net \in Nat /\ N \in Nat \ {0}
        /\ start(c) \in c.net..(bcst(c) + 1)
    BY BlockIs, SpaceIs, startIs, Zenon DEF Space
  <1>8. v \in Nat
    BY <1>7
  <1>9. CASE v = bcst(c) + 1
    <2>1. ~Contains(c, e)
      BY <1>9, PastEnd, Zenon DEF e
    <2>2. v - 1 = bcst(c)
      BY <1>7, <1>9
    <2>. QED
      BY <1>1, <1>3, <1>6, <2>1, <2>2, Zenon
  <1>10. CASE v # bcst(c) + 1
    <2>1. v \in start(c)..bcst(c) /\ v \in c.net..bcst(c) /\ e = v
      BY <1>7, <1>8, <1>10 DEF e
    <2>2. v \in Space
      BY <2>1, BlockIs, Zenon
    <2>3. Contains(c, v)
      BY <2>1, <2>2, BlockIs, Zenon
    <2>4. d = [c EXCEPT !.ip = v] /\ ~skip(c, v)
      BY <1>1, <2>1, Zenon DEF d, e
    <2>. QED
      BY <1>1, <1>3, <1>5, <1>6, <2>1, <2>3, <2>4, Zenon
  <1>. QED
    BY <1>9, <1>10, Zenon
-----------------------------------------------------------------------------
(***************************************************************************)
(* The range of a Crawler, and what was asked.                             *)
(***************************************************************************)

\* How far a range got, and what it yielded until then.
Ports(p, a) ==
    /\ p \in [kind : {"ports"}, low : Space \ {0}, high : Space, index : Space]
    /\ a \in Seq(Space)
    /\ \A i \in DOMAIN a : a[i] = p.low + (i - 1) /\ a[i] <= p.high
    /\ p.low + Len(a) <= 2^Bits
    /\ p.index = (p.low + Len(a)) % 2^Bits

Addrs(c, a) ==
    /\ Block(c)
    /\ a \in Seq(Space)
    /\ \A i \in DOMAIN a :
          a[i] \notin {c.net, bcst(c)} /\ xormask(a[i], c.mask) \in c.net..c.ip
    /\ \A i, j \in DOMAIN a : a[i] = a[j] => i = j
    /\ \A x \in c.net..c.ip : skip(c, x) \/ InSeq(xormask(x, c.mask), a)

\* What Append does.
LEMMA AppendIs ==
    ASSUME NEW a \in Seq(Space), NEW x \in Space
    PROVE  /\ Append(a, x) \in Seq(Space) /\ Len(Append(a, x)) = Len(a) + 1
           /\ \A i \in DOMAIN a : i \in DOMAIN Append(a, x) /\ Append(a, x)[i] = a[i]
           /\ Len(a) + 1 \in DOMAIN Append(a, x) /\ Append(a, x)[Len(a) + 1] = x
           /\ \A i \in DOMAIN Append(a, x) : i \in DOMAIN a \/ i = Len(a) + 1
  OBVIOUS

\* Next on ports: the index has not passed the bound, nor come around to zero.
LEMMA PortsNext ==
    ASSUME NEW p, NEW a, Ports(p, a), NextAddr(p).ok
    PROVE  Ports(NextAddr(p).range, Append(a, NextAddr(p).addr))
  <1>. DEFINE N == 2^Bits
              x == p.index
              b == Append(a, x)
              r == [p EXCEPT !.index = (x + 1) % N]
  <1>1. /\ p \in [kind : {"ports"}, low : Space \ {0}, high : Space, index : Space]
        /\ a \in Seq(Space) /\ p.low + Len(a) <= N /\ x = (p.low + Len(a)) % N
        /\ \A i \in DOMAIN a : a[i] = p.low + (i - 1) /\ a[i] <= p.high
    BY Zenon DEF Ports
  <1>2. p.kind = "ports" /\ p.low \in Space \ {0} /\ p.high \in Space /\ x \in Space
    BY <1>1, Zenon
  <1>3. nextPort(p) = r
    BY Zenon DEF nextPort
  <1>4. NextAddr(p).range = r /\ NextAddr(p).addr = x /\ x # 0 /\ x <= p.high
    <2>1. NextAddr(p).range = nextPort(p) /\ NextAddr(p).addr = port(p) /\ morePorts(p)
      BY <1>2, NextPort, Zenon
    <2>. QED
      BY <1>3, <2>1, Zenon DEF port, morePorts
  <1>5. N \in Nat \ {0} /\ Space = 0..(N - 1)
    BY SpaceIs, Zenon DEF Space
  <1>6. Len(a) \in Nat
    BY <1>1
  <1>. HIDE DEF N
  <1>7. x = p.low + Len(a) /\ p.low + (Len(a) + 1) <= N /\ x + 1 = p.low + (Len(a) + 1)
    <2>. DEFINE l == p.low
                k == Len(a)
    <2>1. l \in Nat /\ k \in Nat /\ l + k <= N /\ x = (l + k) % N /\ x # 0
      BY <1>1, <1>2, <1>4, <1>5, <1>6
    <2>. HIDE DEF l, k, x
    <2>2. l + k # N
      BY <1>5, <2>1
    <2>3. x = l + k
      BY <1>5, <2>1, <2>2
    <2>4. l + (k + 1) <= N /\ x + 1 = l + (k + 1)
      BY <1>5, <2>1, <2>2, <2>3
    <2>. QED
      BY <2>3, <2>4, Zenon DEF l, k
  <1>8. (x + 1) % N \in Space
    BY <1>2, <1>5
  <1>9. /\ r \in [kind : {"ports"}, low : Space \ {0}, high : Space, index : Space]
        /\ r.low = p.low /\ r.high = p.high /\ r.index = (x + 1) % N
    <2>. HIDE DEF x
    <2>. QED
      BY <1>1, <1>8, Zenon
  <1>10. /\ b \in Seq(Space) /\ Len(b) = Len(a) + 1
         /\ \A i \in DOMAIN a : i \in DOMAIN b /\ b[i] = a[i]
         /\ b[Len(a) + 1] = x
         /\ \A i \in DOMAIN b : i \in DOMAIN a \/ i = Len(a) + 1
    <2>1. a \in Seq(Space) /\ x \in Space
      BY <1>1, <1>2, Zenon
    <2>. HIDE DEF x
    <2>. QED
      BY <2>1, AppendIs, Zenon
  <1>11. (Len(a) + 1) - 1 = Len(a)
    BY <1>6
  <1>. HIDE DEF b, x, r
  <1>12. \A i \in DOMAIN b : b[i] = p.low + (i - 1) /\ b[i] <= p.high
    BY <1>1, <1>4, <1>7, <1>10, <1>11, Zenon
  <1>13. Ports(r, b)
    BY <1>7, <1>9, <1>10, <1>12, Zenon DEF Ports, N
  <1>. QED
    BY <1>4, <1>13, Zenon DEF b

\* The ports so far are those from low on, and all when there is no next one.
LEMMA PortsExact ==
    ASSUME NEW p, NEW a, Ports(p, a)
    PROVE  /\ \A i \in DOMAIN a : a[i] \in Visits(p)
           /\ \A i, j \in DOMAIN a : a[i] = a[j] => i = j
           /\ ~NextAddr(p).ok => \A x \in Visits(p) : InSeq(x, a)
  <1>. DEFINE N == 2^Bits
              l == p.low
              k == Len(a)
  <1>1. /\ p \in [kind : {"ports"}, low : Space \ {0}, high : Space, index : Space]
        /\ a \in Seq(Space) /\ l + k <= N /\ p.index = (l + k) % N
        /\ \A i \in DOMAIN a : a[i] = l + (i - 1) /\ a[i] <= p.high
    BY Zenon DEF Ports
  <1>2. p.kind = "ports" /\ l \in Space \ {0} /\ p.high \in Space
    BY <1>1
  <1>3. N \in Nat \ {0} /\ Space = 0..(N - 1)
    BY SpaceIs, Zenon DEF Space
  <1>4. k \in Nat /\ DOMAIN a = 1..k
    BY <1>1
  <1>5. l \in 1..(N - 1) /\ p.high \in 0..(N - 1)
    BY <1>2, <1>3
  <1>6. Visits(p) = (l..p.high) \ {0}
    BY <1>2, Zenon DEF Visits
  <1>7. NextAddr(p).ok <=> p.index # 0 /\ p.index <= p.high
    BY <1>2, Zenon DEF NextAddr, morePorts
  <1>. HIDE DEF N, l, k
  <1>8. ASSUME NEW i \in DOMAIN a PROVE a[i] \in Visits(p)
    <2>1. a[i] = l + (i - 1) /\ a[i] <= p.high /\ i \in 1..k
      BY <1>1, <1>4, Zenon
    <2>. QED
      BY <1>4, <1>5, <1>6, <2>1
  <1>9. ASSUME NEW i \in DOMAIN a, NEW j \in DOMAIN a, a[i] = a[j] PROVE i = j
    <2>1. a[i] = l + (i - 1) /\ a[j] = l + (j - 1) /\ i \in 1..k /\ j \in 1..k
      BY <1>1, <1>4, Zenon
    <2>2. l + (i - 1) = l + (j - 1)
      BY <1>9, <2>1, Zenon
    <2>. QED
      BY <1>4, <1>5, <2>1, <2>2
  <1>10. ASSUME ~NextAddr(p).ok, NEW x \in Visits(p) PROVE InSeq(x, a)
    <2>1. x \in l..p.high
      BY <1>6, Zenon
    <2>2. x < l + k
      <3>1. CASE l + k < N
        <4>1. (l + k) % N = l + k
          BY <1>3, <1>4, <1>5, <3>1
        <4>2. l + k > p.high
          <5>1. ~(l + k # 0 /\ l + k <= p.high)
            BY <1>1, <1>7, <1>10, <4>1, Zenon
          <5>. QED
            BY <1>4, <1>5, <5>1
        <4>. QED
          BY <1>4, <1>5, <2>1, <4>2
      <3>2. CASE l + k = N
        BY <1>3, <1>5, <2>1, <3>2
      <3>. QED
        BY <1>1, <1>3, <1>4, <1>5, <3>1, <3>2
    <2>. DEFINE i == (x - l) + 1
    <2>3. i \in 1..k /\ l + (i - 1) = x
      BY <1>4, <1>5, <2>1, <2>2
    <2>4. i \in DOMAIN a /\ a[i] = x
      BY <1>1, <1>4, <2>3, Zenon
    <2>. QED
      BY <2>4, Zenon DEF InSeq
  <1>. QED
    BY <1>8, <1>9, <1>10, Zenon

\* Next on a block: a new address, and nothing but skipped ones before it.
LEMMA AddrsNext ==
    ASSUME NEW c, NEW a, Addrs(c, a), NextAddr(c).ok
    PROVE  Addrs(NextAddr(c).range, Append(a, NextAddr(c).addr))
  <1>0. /\ Block(c) /\ a \in Seq(Space)
        /\ \A i \in DOMAIN a :
              a[i] \notin {c.net, bcst(c)} /\ xormask(a[i], c.mask) \in c.net..c.ip
        /\ \A i, j \in DOMAIN a : a[i] = a[j] => i = j
        /\ \A x \in c.net..c.ip : skip(c, x) \/ InSeq(xormask(x, c.mask), a)
    BY Zenon DEF Addrs
  <1>1. PICK v \in start(c)..bcst(c) :
            /\ NextAddr(c).range = [c EXCEPT !.ip = v]
            /\ NextAddr(c).addr = xormask(v, c.mask)
            /\ ~skip(c, v)
            /\ \A x \in start(c)..(v - 1) : skip(c, x)
    BY <1>0, NextOf, Zenon
  <1>. DEFINE d == [c EXCEPT !.ip = v]
              y == xormask(v, c.mask)
              b == Append(a, y)
  <1>2. /\ c.net \in Nat /\ bcst(c) \in Nat /\ start(c) \in c.net..(bcst(c) + 1)
        /\ c.net..bcst(c) \subseteq Space
    BY <1>0, BlockIs, SpaceIs, startIs, Zenon
  <1>3. v \in c.net..bcst(c) /\ v \in Nat
    BY <1>2
  <1>4. v \in Space /\ y \in Space /\ xormask(y, c.mask) = v
    BY <1>0, <1>2, <1>3, BlockIs, Zenon
  <1>5. c.ip \in Nat \cup {-1} /\ c.ip < v /\ start(c) \in Nat
        /\ \A x \in c.net..v : x \in c.net..c.ip \/ x \in start(c)..(v - 1) \/ x = v
    <2>1. c.ip \in Nat \cup {-1}
      <3>1. c.ip \in Space \cup {-1}
        BY <1>0 DEF Block
      <3>. QED
        BY <3>1, SpaceIs, Zenon
    <2>2. CASE c.ip = -1
      BY <1>2, <1>3, <2>2 DEF start
    <2>3. CASE c.ip # -1
      BY <1>2, <1>3, <2>1, <2>3 DEF start
    <2>. QED
      BY <2>2, <2>3, Zenon
  <1>6. /\ d \in [kind : {"cidr"}, net : Space, ones : 1..Bits, ip : Space \cup {-1},
                 mask : setRandomMask(c.ones)]
        /\ d.ip = v /\ d.net = c.net /\ d.ones = c.ones /\ d.mask = c.mask
    BY <1>0, <1>4, Zenon DEF Block
  <1>. HIDE DEF d
  <1>7. BlockSize(d) = BlockSize(c) /\ bcst(d) = bcst(c)
    BY <1>6, Zenon DEF bcst, BlockSize
  <1>8. \A x : skip(d, x) <=> skip(c, x)
    BY <1>6, <1>7, Zenon DEF skip
  <1>9. Block(d)
    BY <1>0, <1>3, <1>6, <1>7, Zenon DEF Block
  <1>. HIDE DEF y
  <1>11. /\ b \in Seq(Space) /\ Len(a) + 1 \in DOMAIN b /\ b[Len(a) + 1] = y
         /\ \A i \in DOMAIN a : i \in DOMAIN b /\ b[i] = a[i]
         /\ \A i \in DOMAIN b : i \in DOMAIN a \/ i = Len(a) + 1
    BY <1>0, <1>4, AppendIs, Zenon
  <1>. HIDE DEF b
  <1>12. y \notin {c.net, bcst(c)}
    BY <1>1, Zenon DEF skip, y
  <1>13. v \in c.net..v /\ c.net..c.ip \subseteq c.net..v /\ v \notin c.net..c.ip
    BY <1>2, <1>3, <1>5
  <1>14. ASSUME NEW i \in DOMAIN b
         PROVE  b[i] \notin {c.net, bcst(c)} /\ xormask(b[i], c.mask) \in c.net..v
    <2>1. CASE i \in DOMAIN a
      BY <1>0, <1>11, <1>13, <2>1, Zenon
    <2>2. CASE i = Len(a) + 1
      BY <1>4, <1>11, <1>12, <1>13, <2>2, Zenon
    <2>. QED
      BY <1>11, <2>1, <2>2, Zenon
  <1>15. \A i \in DOMAIN a : a[i] # y
    BY <1>0, <1>4, <1>13, Zenon
  <1>16. \A i, j \in DOMAIN b : b[i] = b[j] => i = j
    BY <1>0, <1>11, <1>15, Zenon
  <1>17. \A x : InSeq(x, a) => InSeq(x, b)
    BY <1>11, Zenon DEF InSeq
  <1>18. InSeq(y, b)
    BY <1>11, Zenon DEF InSeq
  <1>19. ASSUME NEW x \in c.net..v PROVE skip(c, x) \/ InSeq(xormask(x, c.mask), b)
    BY <1>0, <1>1, <1>5, <1>17, <1>18, Zenon DEF y
  <1>20. Addrs(d, b)
    BY <1>6, <1>7, <1>8, <1>9, <1>11, <1>14, <1>16, <1>19, Zenon DEF Addrs
  <1>. QED
    BY <1>1, <1>20, Zenon DEF d, y, b

\* The addresses so far are of the block, and all when there is no next one.
LEMMA AddrsExact ==
    ASSUME NEW c, NEW a, Addrs(c, a)
    PROVE  /\ \A i \in DOMAIN a : a[i] \in Visits(c)
           /\ \A i, j \in DOMAIN a : a[i] = a[j] => i = j
           /\ ~NextAddr(c).ok => \A x \in Visits(c) : InSeq(x, a)
  <1>0. /\ Block(c) /\ a \in Seq(Space)
        /\ \A i \in DOMAIN a :
              a[i] \notin {c.net, bcst(c)} /\ xormask(a[i], c.mask) \in c.net..c.ip
        /\ \A i, j \in DOMAIN a : a[i] = a[j] => i = j
        /\ \A x \in c.net..c.ip : skip(c, x) \/ InSeq(xormask(x, c.mask), a)
    BY Zenon DEF Addrs
  <1>1. c.kind = "cidr" /\ c.ip \in Space \cup {-1} /\ (c.ip # -1 => c.ip \in c.net..bcst(c))
    BY <1>0, Zenon DEF Block
  <1>2. Visits(c) = (c.net + 1)..(bcst(c) - 1)
    BY <1>1 DEF Visits
  <1>3. /\ c.net \in Nat /\ bcst(c) \in Nat /\ start(c) \in c.net..(bcst(c) + 1)
        /\ c.net..bcst(c) \subseteq Space
    BY <1>0, BlockIs, SpaceIs, startIs, Zenon
  <1>4. \A x : x \in Visits(c) <=> x \in c.net..bcst(c) /\ x \notin {c.net, bcst(c)}
    BY <1>2, <1>3
  <1>5. /\ c.net..c.ip \subseteq c.net..bcst(c)
        /\ \A x \in c.net..bcst(c) : x \in c.net..c.ip \/ x \in start(c)..bcst(c)
    <2>1. CASE c.ip = -1
      BY <1>3, <2>1 DEF start
    <2>2. CASE c.ip # -1
      <3>1. c.ip \in c.net..bcst(c)
        BY <1>1, <2>2, Zenon
      <3>. QED
        BY <1>3, <2>2, <3>1 DEF start
    <2>. QED
      BY <2>1, <2>2, Zenon
  <1>6. ASSUME NEW i \in DOMAIN a PROVE a[i] \in Visits(c)
    <2>1. a[i] \in Space
      BY <1>0
    <2>2. xormask(a[i], c.mask) \in c.net..bcst(c)
      BY <1>0, <1>5, Zenon
    <2>3. a[i] \in c.net..bcst(c)
      BY <1>0, <2>1, <2>2, BlockIs, Zenon
    <2>. QED
      BY <1>0, <1>4, <2>3, Zenon
  <1>7. ASSUME ~NextAddr(c).ok, NEW y \in Visits(c) PROVE InSeq(y, a)
    <2>. DEFINE x == xormask(y, c.mask)
    <2>1. y \in c.net..bcst(c) /\ y \notin {c.net, bcst(c)} /\ y \in Space
      BY <1>3, <1>4, Zenon
    <2>2. x \in c.net..bcst(c) /\ xormask(x, c.mask) = y
      BY <1>0, <2>1, BlockIs, Zenon
    <2>. HIDE DEF x
    <2>3. ~skip(c, x)
      BY <2>1, <2>2 DEF skip
    <2>4. \A z \in start(c)..bcst(c) : skip(c, z)
      BY <1>0, <1>7, NextOf, Zenon
    <2>. QED
      BY <1>0, <1>5, <2>2, <2>3, <2>4, Zenon
  <1>. QED
    BY <1>0, <1>6, <1>7, Zenon
-----------------------------------------------------------------------------
(***************************************************************************)
(* The Crawler.                                                            *)
(***************************************************************************)

\* What has been asked is what the range yielded; a Crawler that waits has
\* nothing left to ask.
Asked == Ports(range, asked) \/ Addrs(range, asked)
CrawlInv ==
    /\ \E c \in Calls : maddr = c.maddr
    /\ call = "no" => range = nil /\ asked = <<>>
    /\ range # nil \/ call = "crawl" => Asked
    /\ call = "wait" /\ active /\ range # nil => ~NextAddr(range).ok

\* A range that was just made has asked for nothing.
LEMMA NewPorts ==
    ASSUME NEW m, m.val \in Space, NEW r \in DialPortRange(m)
    PROVE  Ports(r, <<>>)
  <1>. DEFINE N == 2^Bits
              lo == m.val % N
  <1>1. N \in Nat \ {0} /\ Space = 0..(N - 1) /\ Reserved \in 1..(N - 1)
    BY SpaceIs, RangeOK, Zenon DEF Space
  <1>. DEFINE l == IF lo = 0 THEN Reserved ELSE lo
              h == IF lo = 0 THEN N - 1 ELSE lo
  <1>2. r = [kind |-> "ports", low |-> l, high |-> h, index |-> l]
    BY Zenon DEF DialPortRange, NewPortRange
  <1>. HIDE DEF N
  <1>3. lo \in Space
    BY <1>1
  <1>. HIDE DEF lo
  <1>4. l \in Space \ {0} /\ h \in Space
    BY <1>1, <1>3
  <1>. HIDE DEF l, h
  <1>5. (l + 0) % N = l /\ l + 0 <= N
    BY <1>1, <1>4
  <1>6. /\ r \in [kind : {"ports"}, low : Space \ {0}, high : Space, index : Space]
        /\ r.low = l /\ r.index = l
    BY <1>2, <1>4, Zenon
  <1>7. <<>> \in Seq(Space) /\ Len(<<>>) = 0 /\ DOMAIN <<>> = {}
    OBVIOUS
  <1>. QED
    BY <1>5, <1>6, <1>7, Zenon DEF Ports, N

\* The same of a block: the network address is a multiple of the size.
LEMMA NewAddrs ==
    ASSUME NEW m, m.val \in Space, m.ones \in 1..Bits, NEW r \in ParseCIDR(m)
    PROVE  Addrs(r, <<>>)
  <1>. DEFINE j == Bits - m.ones
              b == 2^j
              n == m.val - (m.val % b)
  <1>1. PICK k \in setRandomMask(m.ones) :
            r = [kind |-> "cidr", net |-> n, ones |-> m.ones, ip |-> -1, mask |-> k]
    BY Zenon DEF ParseCIDR, NewCIDR
  <1>2. j \in 0..Bits
    BY RangeOK
  <1>3. b \in Nat \ {0}
    BY <1>2, PowNat, Zenon
  <1>4. m.val \in Nat /\ Space = 0..(2^Bits - 1) /\ 2^Bits \in Nat
    BY SpaceIs, Zenon DEF Space
  <1>. HIDE DEF b
  <1>5. n \in Space /\ n % b = 0
    <2>. DEFINE v == m.val
                q == v \div b
                t == v % b
    <2>1. q \in Nat /\ t \in 0..(b - 1) /\ v = b * q + t
      BY <1>3, <1>4, DivMod, Zenon
    <2>. HIDE DEF v, q, t
    <2>2. v - t = b * q + 0 /\ 0 \in 0..(b - 1) /\ b * q \in Nat
      BY <1>3, <2>1
    <2>3. (b * q + 0) % b = 0
      BY <1>3, <2>1, <2>2, DivIs, Zenon
    <2>4. v \in Space /\ v - t \in 0..v
      <3>1. v \in Space /\ v \in Nat
        BY <1>4, Zenon DEF v
      <3>. HIDE DEF v
      <3>2. b * q <= v
        BY <2>1, <2>2, <3>1
      <3>. QED
        BY <2>2, <3>1, <3>2
    <2>5. v - t \in Space
      BY <1>4, <2>4
    <2>. QED
      BY <2>2, <2>3, <2>5, Zenon DEF v, t
  <1>. HIDE DEF n
  <1>6. /\ r \in [kind : {"cidr"}, net : Space, ones : 1..Bits, ip : Space \cup {-1},
                 mask : setRandomMask(r.ones)]
        /\ r.ip = -1 /\ r.net = n /\ r.ones = m.ones
    BY <1>1, <1>5, Zenon
  <1>7. BlockSize(r) = b
    BY <1>6, Zenon DEF BlockSize, b
  <1>8. Block(r)
    BY <1>5, <1>6, <1>7, Zenon DEF Block
  <1>9. <<>> \in Seq(Space) /\ DOMAIN <<>> = {}
    OBVIOUS
  <1>10. n..(-1) = {}
    BY <1>4, <1>5
  <1>. QED
    BY <1>6, <1>8, <1>9, <1>10, Zenon DEF Addrs

\* What FindPeers starts with.
LEMMA NewRange ==
    ASSUME NEW c \in Calls, DialString(c.maddr) = "crawl", NEW r \in Strategy(c.maddr)
    PROVE  Ports(r, <<>>) \/ Addrs(r, <<>>)
  <1>. DEFINE m == c.maddr
  <1>1. m.val \in Space
    BY DiscoveryOK, Zenon
  <1>. HIDE DEF m
  <1>2. CASE hasBootProto(m, "cidr")
    <2>1. m.ones \in Nat /\ m.ones >= MinOnes
      BY <1>2, DiscoveryOK, Zenon DEF hasBootProto, m
    <2>2. ValidateBytes(m)
      <3>1. Err # "crawl"
        BY DiscoveryOK, Zenon
      <3>. QED
        BY <3>1, Zenon DEF DialString, m
    <2>3. m.ones <= Bits
      BY <1>2, <2>2, Zenon DEF ValidateBytes
    <2>4. m.ones \in 1..Bits
      BY <2>1, <2>3, RangeOK
    <2>5. r \in ParseCIDR(m)
      BY <1>2, Zenon DEF Strategy, m
    <2>. QED
      BY <1>1, <2>4, <2>5, NewAddrs, Zenon
  <1>3. CASE ~hasBootProto(m, "cidr")
    <2>1. r \in DialPortRange(m)
      BY <1>3, Zenon DEF Strategy, m
    <2>. QED
      BY <1>1, <2>1, NewPorts, Zenon
  <1>. QED
    BY <1>2, <1>3, Zenon

\* No range yet.
LEMMA CrawlInit == Init => CrawlInv
  BY Zenon DEF Init, CrawlInv

\* Most steps leave the Crawler alone, or end it.
LEMMA CrawlSame ==
    ASSUME CrawlInv, UNCHANGED <<maddr, range, asked>>,
           call' = call \/ (call # "no" /\ call' = "done"), ctx' => ctx, open' => open
    PROVE  CrawlInv'
  <1>. USE DEF CrawlInv
  <1>1. Asked' <=> Asked
    BY Zenon DEF Asked
  <1>2. active' => active
    BY Zenon DEF active
  <1>3. call' \in {"no", "crawl", "wait"} => call' = call
    BY Zenon
  <1>4. \E c \in Calls : maddr' = c.maddr
    BY Zenon
  <1>5. call' = "no" => range' = nil /\ asked' = <<>>
    BY <1>3
  <1>6. range' # nil \/ call' = "crawl" => Asked'
    BY <1>1, <1>3
  <1>7. call' = "wait" /\ active' /\ range' # nil => ~NextAddr(range').ok
    BY <1>2, <1>3, Zenon
  <1>. QED
    BY <1>4, <1>5, <1>6, <1>7, Zenon

\* FindPeers begins the range.
LEMMA CrawlFind == CrawlInv /\ FindPeers => CrawlInv'
  <1>1. SUFFICES ASSUME CrawlInv, FindPeers PROVE CrawlInv'
    BY Zenon
  <1>2. /\ call = "no" /\ range = nil /\ asked = <<>> /\ UNCHANGED <<maddr, asked>>
        /\ \E c \in Calls : maddr = c.maddr
    BY <1>1, Zenon DEF FindPeers, CrawlInv
  <1>3. CASE FindStatic \/ FindSurvey
    <2>1. range' = nil /\ call' \notin {"no", "crawl"}
      <3>1. CASE FindStatic
        BY <1>2, <3>1, Zenon DEF FindStatic
      <3>2. CASE FindSurvey
        BY <1>2, <3>2 DEF FindSurvey
      <3>. QED
        BY <1>3, <3>1, <3>2, Zenon
    <2>. QED
      BY <1>2, <2>1 DEF CrawlInv
  <1>4. CASE FindCrawl
    <2>1. PICK c \in Calls : maddr = c.maddr
      BY <1>2, Zenon
    <2>2. DialString(c.maddr) = "crawl" /\ range' \in Strategy(c.maddr) /\ call' = "crawl"
      BY <1>4, <2>1, Zenon DEF FindCrawl
    <2>3. Ports(range', <<>>) \/ Addrs(range', <<>>)
      BY <2>2, NewRange, Zenon
    <2>4. Asked' /\ maddr' = c.maddr /\ call' # "no" /\ call' # "wait"
      BY <1>2, <2>1, <2>2, <2>3, Zenon DEF Asked
    <2>. QED
      BY <2>4, Zenon DEF CrawlInv
  <1>. QED
    BY <1>1, <1>3, <1>4, Zenon DEF FindPeers

\* One more address is asked.
LEMMA CrawlSend == CrawlInv /\ crawlSend => CrawlInv'
  <1>1. SUFFICES ASSUME CrawlInv, crawlSend PROVE CrawlInv'
    BY Zenon
  <1>2. /\ NextAddr(range).ok /\ range' = NextAddr(range).range
        /\ asked' = Append(asked, NextAddr(range).addr)
        /\ maddr' = maddr /\ call = "crawl" /\ (call' = call \/ call' = "done")
    BY <1>1, Zenon DEF crawlSend
  <1>3. Asked
    BY <1>1, <1>2, Zenon DEF CrawlInv
  <1>4. Asked'
    BY <1>2, <1>3, PortsNext, AddrsNext, Zenon DEF Asked
  <1>5. call' # "no" /\ call' # "wait"
    BY <1>2, Zenon
  <1>. QED
    BY <1>1, <1>2, <1>4, <1>5, Zenon DEF CrawlInv

\* The range is used up, or the caller is gone.
LEMMA CrawlEnd == CrawlInv /\ crawlEnd => CrawlInv'
  <1>1. SUFFICES ASSUME CrawlInv, crawlEnd PROVE CrawlInv'
    BY Zenon
  <1>2. /\ call = "crawl" /\ call' = "wait" /\ (active => ~NextAddr(range).ok)
        /\ UNCHANGED <<maddr, range, asked, ctx, open>>
    BY <1>1, Zenon DEF crawlEnd
  <1>3. Asked /\ (Asked' <=> Asked) /\ (active' <=> active)
    BY <1>1, <1>2, Zenon DEF CrawlInv, Asked, active
  <1>4. call' # "no"
    BY <1>2
  <1>. QED
    BY <1>1, <1>2, <1>3, <1>4, Zenon DEF CrawlInv

\* Every step keeps the invariant.
LEMMA CrawlStep == CrawlInv /\ [Next]_vars => CrawlInv'
  <1>1. SUFFICES ASSUME CrawlInv, [Next]_vars PROVE CrawlInv'
    BY Zenon
  <1>. DEFINE Same == /\ UNCHANGED <<maddr, range, asked>>
                      /\ call' = call \/ (call # "no" /\ call' = "done")
                      /\ ctx' => ctx
                      /\ open' => open
  <1>2. CASE Same
    BY <1>1, <1>2, CrawlSame, Zenon
  <1>3. CASE FindPeers \/ crawlSend \/ crawlEnd
    BY <1>1, <1>3, CrawlFind, CrawlSend, CrawlEnd, Zenon
  <1>4. CASE wait \/ gradualDone
    <2>1. call # "no" /\ call' = "done" /\ UNCHANGED <<maddr, range, asked, ctx, open>>
      <3>1. CASE wait
        BY <3>1, Zenon DEF wait
      <3>2. CASE gradualDone
        BY <3>2 DEF gradualDone
      <3>. QED
        BY <1>4, <3>1, <3>2, Zenon
    <2>. QED
      BY <1>2, <2>1, Zenon
  <1>5. CASE retry \/ retryFails \/ found \/ surveyEnd
    <2>1. UNCHANGED <<maddr, range, asked, call, ctx, open>>
      BY <1>5, Zenon DEF retry, retryFails, found, surveyEnd
    <2>. QED
      BY <1>2, <2>1, Zenon
  <1>6. CASE Receive \/ CtxDone \/ Close
    <2>1. UNCHANGED <<maddr, range, asked, call>> /\ (ctx' => ctx) /\ (open' => open)
      <3>1. CASE Receive
        BY <3>1, Zenon DEF Receive, finder
      <3>2. CASE CtxDone
        BY <3>2 DEF CtxDone, finder
      <3>3. CASE Close
        BY <3>3 DEF Close, finder
      <3>. QED
        BY <1>6, <3>1, <3>2, <3>3, Zenon
    <2>. QED
      BY <1>2, <2>1, Zenon
  <1>7. ASSUME NEW h \in Hosts, Advertise(h) \/ Expire(h) \/ Answer(h)
        PROVE  CrawlInv'
    <2>1. UNCHANGED <<maddr, range, asked, call, ctx, open>>
      BY <1>7, Zenon DEF Advertise, crawlAdvertise, surveyAdvertise, Track, Expire, Answer,
                         handleRequest, finder
    <2>. QED
      BY <1>2, <2>1, Zenon
  <1>8. CASE Handle \/ Drop
    <2>1. UNCHANGED <<maddr, range, asked, call, ctx, open>>
      BY <1>8, Zenon DEF Handle, handleResponse, Drop, Lose, finder
    <2>. QED
      BY <1>2, <2>1, Zenon
  <1>9. CASE UNCHANGED vars
    <2>1. UNCHANGED <<maddr, range, asked, call, ctx, open>>
      BY <1>9, Zenon DEF vars
    <2>. QED
      BY <1>2, <2>1, Zenon
  <1>. HIDE DEF Same
  <1>. QED
    BY <1>1, <1>3, <1>4, <1>5, <1>6, <1>7, <1>8, <1>9, Zenon DEF Next

(***************************************************************************)
(* A Crawler asks addresses of its range only, none twice, and all of them *)
(* before it goes over to waiting: for every width of addresses, every     *)
(* block with a prefix, every random mask and every port.                  *)
(***************************************************************************)
THEOREM CrawlsExactly == Spec => []CrawlExact
  <1>1. CrawlInv => CrawlExact
    <2>1. SUFFICES ASSUME CrawlInv, range # nil
                   PROVE  /\ \A i \in DOMAIN asked : asked[i] \in Visits(range)
                          /\ \A i, j \in DOMAIN asked : asked[i] = asked[j] => i = j
                          /\ (call = "wait" /\ ctx /\ open) =>
                                \A a \in Visits(range) : InSeq(a, asked)
      BY Zenon DEF CrawlExact
    <2>2. Asked /\ (call = "wait" /\ ctx /\ open => ~NextAddr(range).ok)
      BY <2>1, Zenon DEF CrawlInv, active
    <2>3. CASE Ports(range, asked)
      BY <2>2, <2>3, PortsExact, Zenon
    <2>4. CASE Addrs(range, asked)
      BY <2>2, <2>4, AddrsExact, Zenon
    <2>. QED
      BY <2>2, <2>3, <2>4, Zenon DEF Asked
  <1>. QED
    BY CrawlInit, CrawlStep, <1>1, PTL DEF Spec
=============================================================================
