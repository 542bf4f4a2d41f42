---------------------------- MODULE PexExchange ----------------------------
(***************************************************************************)
(* pkg/pex/pex.go and discovery.go: the PeerExchange service.  One         *)
(* goroutine, the loop that New starts, owns the advertisers; callers      *)
(* reach them by sending it thunks over a channel of capacity one.  A      *)
(* caller of Advertise or Bootstrap then gossips with the gossiper it was  *)
(* given; FindPeers reads cached peers.  Advertise and FindPeers fall back *)
(* on the discovery service, whose trackers run in goroutines of their own.*)
(*                                                                         *)
(* Times are counted from now, in units of which nothing that the loop or  *)
(* a caller has to do takes one: time passes (Pass) while calls wait for   *)
(* their peers.                                                            *)
(***************************************************************************)
EXTENDS Integers, Sequences

CONSTANTS
    Namespaces,
    Callers,     \* goroutines that call Advertise, Bootstrap and FindPeers
    Gossipers,   \* gossiper objects
    Tick,        \* GossipConfig.Tick
    Timeout,     \* GossipConfig.Timeout
    MaxPeers,    \* bound on the peers passed to Bootstrap
    MaxCalls,    \* bound on the calls that all callers make
    None         \* no advertiser, no gossiper

ASSUME ConstantsOK ==
    /\ Tick \in Nat \ {0}
    /\ Timeout \in Nat \ {0}
    /\ MaxPeers \in Nat
    /\ MaxCalls \in Nat
    /\ Namespaces # {}
    /\ None # "nil" /\ {None, "nil"} \cap Gossipers = {}
    /\ None \notin Callers
    /\ None \notin [gossiper : Gossipers, deadline : Int]

\* The rounds that one Bootstrap may try fit into the life of an advertiser.
ASSUME BootstrapFits == MaxPeers * Timeout <= Tick + Timeout

VARIABLES
    closed,       \* the event subscription is closed: Close was called
    loop,         \* where the loop is: "select", "stop" (its defer), "ended"
    advertisers,  \* PeerExchange.advertisers, with the time left to deadlines
    handlers,     \* the host's stream handlers, by the gossiper that set them
    thunk,        \* PeerExchange.thunk
    pc,           \* where each caller is
    op, ns,       \* what it called, and for which namespace
    ch,           \* the gossiper in the caller's reply channel
    g,            \* the gossiper it works with
    until,        \* the time left until the context of its rounds ends
    left,         \* peers that Bootstrap has not tried yet
    cancelled,    \* callers whose context has ended
    calls,        \* how many calls were made
    advertising,  \* discover.advertising: whose tracker a namespace has
    tpc,          \* where each tracker is; one is named by who started it
    tdone         \* trackers whose context has ended

cvars == <<pc, op, ns, ch, g, until, left, cancelled, calls>>
tvars == <<advertising, tpc, tdone>>
vars == <<closed, loop, advertisers, handlers, thunk, cvars, tvars>>

Advertiser == [gossiper : Gossipers, deadline : Int]
Ops == {"Advertise", "Bootstrap", "FindPeers"}
Trackers == Callers \X Namespaces

\* A thunk; by is None once its caller has stopped waiting.
Thunk == [by : Callers \cup {None}, op : Ops, ns : Namespaces]

\* FindPeers has no gossiper at hand once it has read the cached peers.
Gossiping(c) == pc[c] \in {"round", "boot", "peers"} /\ op[c] # "FindPeers"

\* The channel has room for one thunk.
Queue == {<<>>} \cup {<<f>> : f \in Thunk}

TypeOK ==
    /\ closed \in BOOLEAN
    /\ loop \in {"select", "stop", "ended"}
    /\ advertisers \in [Namespaces -> Advertiser \cup {None}]
    /\ handlers \in [Namespaces -> Gossipers \cup {None}]
    /\ thunk \in Queue
    /\ pc \in [Callers -> {"idle", "send", "reply", "round", "boot", "peers"}]
    /\ op \in [Callers -> Ops \cup {None}]
    /\ ns \in [Callers -> Namespaces]
    /\ ch \in [Callers -> Gossipers \cup {None, "nil"}]
    /\ g \in [Callers -> Gossipers \cup {None}]
    /\ until \in [Callers -> Nat]
    /\ left \in [Callers -> Nat]
    /\ cancelled \subseteq Callers
    /\ calls \in 0..MaxCalls
    /\ advertising \in [Namespaces -> Callers \cup {None}]
    /\ tpc \in [Trackers -> {"none", "run", "end"}]
    /\ tdone \subseteq Trackers

Init ==
    /\ closed = FALSE
    /\ loop = "select"
    /\ advertisers = [n \in Namespaces |-> None]
    /\ handlers = [n \in Namespaces |-> None]
    /\ thunk = <<>>
    /\ pc = [c \in Callers |-> "idle"]
    /\ op = [c \in Callers |-> None]
    /\ ns = [c \in Callers |-> CHOOSE n \in Namespaces : TRUE]
    /\ ch = [c \in Callers |-> None]
    /\ g = [c \in Callers |-> None]
    /\ until = [c \in Callers |-> 0]
    /\ left = [c \in Callers |-> 0]
    /\ cancelled = {}
    /\ calls = 0
    /\ advertising = [n \in Namespaces |-> None]
    /\ tpc = [t \in Trackers |-> "none"]
    /\ tdone = {}

\* PeerExchange.done is closed.
done == loop # "select"
-----------------------------------------------------------------------------
\* advertiser.Expired.
Expired(ad) == ad.deadline < 0

\* Fault: no grace period for the rounds of a call.
ResetTTLShort(gossiper) == [gossiper |-> gossiper, deadline |-> Tick]

\* advertiser.ResetTTL.
ResetTTL(gossiper) ==
    [gossiper |-> gossiper, deadline |-> Tick + Timeout]

\* Fault: a stopped tracker loses its entry at once.
StopTrackingDelete(N) ==
    /\ tdone' = tdone \cup {t \in Trackers : t[2] \in N /\ advertising[t[2]] = t[1]}
    /\ advertising' = [n \in Namespaces |-> IF n \in N THEN None ELSE advertising[n]]
    /\ UNCHANGED tpc

\* discover.StopTracking, for each namespace in N: the entry stays until the
\* tracker has seen that its context ended.
StopTracking(N) ==
    /\ tdone' = tdone \cup {t \in Trackers : t[2] \in N /\ advertising[t[2]] = t[1]}
    /\ UNCHANGED <<advertising, tpc>>

\* What the loop does to the advertisers of N on expiry and at its end:
\* gossiper.Stop, StopTracking, delete.
drop(N) ==
    /\ advertisers' = [n \in Namespaces |-> IF n \in N THEN None ELSE advertisers[n]]
    /\ handlers' = [n \in Namespaces |-> IF n \in N THEN None ELSE handlers[n]]
    /\ StopTracking(N)
-----------------------------------------------------------------------------
\* The loop of New.

expire ==
    /\ loop = "select"
    /\ drop({n \in Namespaces : advertisers[n] # None /\ Expired(advertisers[n])})
    /\ UNCHANGED <<closed, loop, thunk, cvars>>

\* A gossiper that nobody refers to.
newGossiper(h) ==
    /\ \A n \in Namespaces : advertisers[n] # None => advertisers[n].gossiper # h
    /\ \A c \in Callers : g[c] # h /\ ch[c] # h

\* The thunk of getOrCreateGossiper.
advertise(f, h) ==
    /\ IF advertisers[f.ns] = None THEN newGossiper(h)
                                   ELSE h = advertisers[f.ns].gossiper
    /\ advertisers' = [advertisers EXCEPT ![f.ns] = ResetTTL(h)]
    /\ handlers' = [handlers EXCEPT ![f.ns] = h]
    /\ ch' = [ch EXCEPT ![f.by] = h]

\* The thunk of getGossiper.
lookup(f) ==
    /\ ch' = [c \in Callers |->
                 IF c # f.by THEN ch[c]
                 ELSE IF advertisers[f.ns] = None THEN "nil"
                 ELSE advertisers[f.ns].gossiper]
    /\ UNCHANGED <<advertisers, handlers>>

runThunk ==
    /\ loop = "select"
    /\ thunk # <<>>
    /\ LET f == Head(thunk) IN
       IF f.op = "FindPeers" THEN lookup(f)
                             ELSE \E h \in Gossipers : advertise(f, h)
    /\ thunk' = <<>>
    /\ UNCHANGED <<closed, loop, pc, op, ns, g, until, left, cancelled, tvars, calls>>

\* The subscription is closed: return, and close done.
loopReturn ==
    /\ loop = "select"
    /\ closed
    /\ loop' = "stop"
    /\ UNCHANGED <<closed, advertisers, handlers, thunk, cvars, tvars>>

\* Fault: the deferred function stops only what has expired.
loopDeferExpired ==
    /\ loop = "stop"
    /\ drop({n \in Namespaces : advertisers[n] # None /\ Expired(advertisers[n])})
    /\ loop' = "ended"
    /\ UNCHANGED <<closed, thunk, cvars>>

\* The rest of the deferred function.
loopDefer ==
    /\ loop = "stop"
    /\ drop({n \in Namespaces : advertisers[n] # None})
    /\ loop' = "ended"
    /\ UNCHANGED <<closed, thunk, cvars>>

Close ==
    /\ ~closed
    /\ closed' = TRUE
    /\ UNCHANGED <<loop, advertisers, handlers, thunk, cvars, tvars>>
-----------------------------------------------------------------------------
\* The callers.

Call(c, o, n, k) ==
    /\ pc[c] = "idle"
    /\ calls < MaxCalls
    /\ calls' = calls + 1
    /\ pc' = [pc EXCEPT ![c] = "send"]
    /\ op' = [op EXCEPT ![c] = o]
    /\ ns' = [ns EXCEPT ![c] = n]
    /\ left' = [left EXCEPT ![c] = IF o = "Bootstrap" THEN k ELSE 0]
    /\ UNCHANGED <<closed, loop, advertisers, handlers, thunk, ch, g, until,
                   cancelled, tvars>>

\* The context that the caller passed ends.
CtxDone(c) ==
    /\ pc[c] # "idle"
    /\ cancelled' = cancelled \cup {c}
    /\ tdone' = tdone \cup {t \in Trackers : t[1] = c /\ tpc[t] # "none"}
    /\ UNCHANGED <<closed, loop, advertisers, handlers, thunk, pc, op, ns, ch, g,
                   until, left, advertising, tpc, calls>>

\* The call returns, and its deferred cancel ends the context that its
\* tracker, if it started one, was given.
return(c) ==
    /\ pc' = [pc EXCEPT ![c] = "idle"]
    /\ op' = [op EXCEPT ![c] = None]
    /\ ch' = [ch EXCEPT ![c] = None]
    /\ g' = [g EXCEPT ![c] = None]
    /\ until' = [until EXCEPT ![c] = 0]
    /\ left' = [left EXCEPT ![c] = 0]
    /\ cancelled' = cancelled \ {c}
    /\ tdone' = tdone \cup {t \in Trackers : t[1] = c /\ tpc[t] # "none"}
    /\ UNCHANGED <<closed, loop, advertisers, handlers, ns, advertising, tpc, calls>>

\* The first select of getOrCreateGossiper and of getGossiper.
sendThunk(c) ==
    /\ pc[c] = "send"
    /\ thunk = <<>>
    /\ thunk' = <<[by |-> c, op |-> op[c], ns |-> ns[c]]>>
    /\ pc' = [pc EXCEPT ![c] = "reply"]
    /\ UNCHANGED <<closed, loop, advertisers, handlers, op, ns, ch, g, until, left,
                   cancelled, tvars, calls>>

sendGivesUp(c) ==
    /\ pc[c] = "send"
    /\ done \/ c \in cancelled
    /\ return(c)
    /\ UNCHANGED thunk

\* The answer to Advertise or Bootstrap: on to the first round.
gotGossiper(c) ==
    /\ pc[c] = "reply"
    /\ op[c] # "FindPeers"
    /\ ch[c] # None
    /\ op[c] = "Bootstrap" => left[c] > 0
    /\ pc' = [pc EXCEPT ![c] = "round"]
    /\ g' = [g EXCEPT ![c] = ch[c]]
    /\ ch' = [ch EXCEPT ![c] = None]
    /\ until' = [until EXCEPT ![c] = Timeout]
    /\ left' = [left EXCEPT ![c] = IF @ > 0 THEN @ - 1 ELSE 0]
    /\ UNCHANGED <<closed, loop, advertisers, handlers, thunk, op, ns, cancelled,
                   tvars, calls>>

\* Bootstrap was given no peers.
noPeers(c) ==
    /\ pc[c] = "reply"
    /\ op[c] = "Bootstrap"
    /\ ch[c] # None
    /\ left[c] = 0
    /\ return(c)
    /\ UNCHANGED thunk

\* The answer to FindPeers: on to the cached peers, or ErrNotFound.
gotCache(c) ==
    /\ pc[c] = "reply"
    /\ op[c] = "FindPeers"
    /\ ch[c] \notin {None, "nil"}
    /\ pc' = [pc EXCEPT ![c] = "round"]
    /\ ch' = [ch EXCEPT ![c] = None]
    /\ UNCHANGED <<closed, loop, advertisers, handlers, thunk, op, ns, g, until, left,
                   cancelled, tvars, calls>>

notFound(c) ==
    /\ pc[c] = "reply"
    /\ ch[c] = "nil"
    /\ return(c)
    /\ UNCHANGED thunk

\* Fault: only the context ends the wait.
replyGivesUpCtx(c) ==
    /\ pc[c] = "reply"
    /\ op[c] = "FindPeers"
    /\ c \in cancelled
    /\ return(c)
    /\ thunk' = [i \in DOMAIN thunk |->
                    IF thunk[i].by = c THEN [thunk[i] EXCEPT !.by = None] ELSE thunk[i]]

\* The second select of getGossiper, which getOrCreateGossiper lacks.
replyGivesUp(c) ==
    /\ pc[c] = "reply"
    /\ op[c] = "FindPeers"
    /\ done \/ c \in cancelled
    /\ return(c)
    /\ thunk' = [i \in DOMAIN thunk |->
                    IF thunk[i].by = c THEN [thunk[i] EXCEPT !.by = None] ELSE thunk[i]]

\* A round succeeds: Advertise and Bootstrap return.
roundOK(c) ==
    /\ Gossiping(c)
    /\ pc[c] # "boot"
    /\ return(c)
    /\ UNCHANGED thunk

\* A round of Bootstrap fails and it has another peer to try.
nextRound(c) ==
    /\ pc[c] = "round"
    /\ op[c] = "Bootstrap"
    /\ left[c] > 0
    /\ until' = [until EXCEPT ![c] = Timeout]
    /\ left' = [left EXCEPT ![c] = @ - 1]
    /\ UNCHANGED <<closed, loop, advertisers, handlers, thunk, pc, op, ns, ch, g,
                   cancelled, tvars, calls>>

\* There are no more peers: Bootstrap returns, the others ask discovery.
noMorePeers(c) ==
    /\ pc[c] = "round"
    /\ op[c] = "Bootstrap" => left[c] = 0
    /\ UNCHANGED thunk
    /\ IF op[c] = "Bootstrap"
       THEN return(c)
       ELSE /\ pc' = [pc EXCEPT ![c] = "boot"]
            /\ UNCHANGED <<closed, loop, advertisers, handlers, op, ns, ch, g, until,
                           left, cancelled, tvars, calls>>

\* discover.Bootstrap, under its lock: start a tracker unless there is one.
startTracking(c) ==
    /\ pc[c] = "boot"
    /\ pc' = [pc EXCEPT ![c] = "peers"]
    /\ IF advertising[ns[c]] = None
       THEN /\ advertising' = [advertising EXCEPT ![ns[c]] = c]
            /\ tpc' = [tpc EXCEPT ![<<c, ns[c]>>] = "run"]
            /\ tdone' = IF c \in cancelled THEN tdone \cup {<<c, ns[c]>>} ELSE tdone
       ELSE UNCHANGED tvars
    /\ UNCHANGED <<closed, loop, advertisers, handlers, thunk, op, ns, ch, g, until,
                   left, cancelled, calls>>

\* The channel that discovery returned is closed (it may be after an error).
peersEnd(c) ==
    /\ pc[c] = "peers"
    /\ return(c)
    /\ UNCHANGED thunk

\* FindPeers has a peer to pass on, and finds the exchange closed.
findClosed(c) ==
    /\ pc[c] \in {"round", "peers"}
    /\ op[c] = "FindPeers"
    /\ done
    /\ return(c)
    /\ UNCHANGED thunk
-----------------------------------------------------------------------------
\* The goroutine of a tracker: it advertises at intervals, until its context
\* ends.
tDone(t) ==
    /\ tpc[t] = "run"
    /\ t \in tdone
    /\ tpc' = [tpc EXCEPT ![t] = "end"]
    /\ UNCHANGED <<closed, loop, advertisers, handlers, thunk, cvars, advertising, tdone>>

\* The deferred function: delete the entry, under the lock.
tEnd(t) ==
    /\ tpc[t] = "end"
    /\ advertising' = [advertising EXCEPT ![t[2]] = None]
    /\ tpc' = [tpc EXCEPT ![t] = "none"]
    /\ tdone' = tdone \ {t}
    /\ UNCHANGED <<closed, loop, advertisers, handlers, thunk, cvars>>

\* Time passes, while no answer is waiting to be picked up and no context of
\* a round has run out.  How long ago a deadline passed does not matter.
Pass ==
    /\ \A c \in Callers : ch[c] \in {None, "nil"} \/ op[c] = "FindPeers"
    /\ \A c \in Callers : Gossiping(c) => until[c] > 0
    /\ until' = [c \in Callers |-> IF Gossiping(c) THEN until[c] - 1 ELSE until[c]]
    /\ advertisers' = [n \in Namespaces |->
          IF advertisers[n] = None \/ Expired(advertisers[n]) THEN advertisers[n]
          ELSE [advertisers[n] EXCEPT !.deadline = @ - 1]]
    /\ UNCHANGED <<closed, loop, handlers, thunk, pc, op, ns, ch, g, left, cancelled, tvars, calls>>

CallStep(c) ==
    \/ sendThunk(c) \/ sendGivesUp(c) \/ gotGossiper(c) \/ noPeers(c) \/ gotCache(c)
    \/ notFound(c) \/ replyGivesUp(c)

Next ==
    \/ expire \/ runThunk \/ loopReturn \/ loopDefer
    \/ Close \/ Pass
    \/ \E c \in Callers :
          \/ \E o \in Ops, n \in Namespaces, k \in 0..MaxPeers : Call(c, o, n, k)
          \/ CtxDone(c)
          \/ CallStep(c)
          \/ roundOK(c) \/ nextRound(c) \/ noMorePeers(c)
          \/ startTracking(c) \/ peersEnd(c) \/ findClosed(c)
    \/ \E t \in Trackers : tDone(t) \/ tEnd(t)

Spec == Init /\ [][Next]_vars

\* Goroutines run.  select does not pass over a ready thunk for ever, nor the
\* thunk channel over a waiting caller.  Rounds, and calls of the discovery
\* service, end; its channel is closed when the context has ended.
Fairness ==
    /\ SF_vars(runThunk) /\ WF_vars(loopReturn) /\ WF_vars(loopDefer)
    /\ \A c \in Callers :
          /\ SF_vars(sendThunk(c))
          /\ WF_vars(CallStep(c))
          /\ WF_vars(noMorePeers(c)) /\ WF_vars(nextRound(c)) /\ WF_vars(startTracking(c))
          /\ WF_vars((op[c] = "FindPeers" => c \in cancelled) /\ peersEnd(c))
    /\ \A t \in Trackers : WF_vars(tDone(t)) /\ WF_vars(tEnd(t))

FairSpec == Spec /\ Fairness
-----------------------------------------------------------------------------
(***************************************************************************)
(* Types, and what the loop keeps in step: a namespace has a stream        *)
(* handler exactly while it has an advertiser, and of the same gossiper.   *)
(***************************************************************************)
ExchangeInv ==
    /\ TypeOK
    /\ \A n \in Namespaces :
          handlers[n] = IF advertisers[n] = None THEN None
                                                 ELSE advertisers[n].gossiper

(***************************************************************************)
(* "This prevents advertisers from being garbage-collected during a gossip *)
(* round" (advertiser.Expired): callers that gossip in one namespace at    *)
(* the same time share one gossiper, whose mutex orders their merges, and  *)
(* until the exchange is closed it is the one that answers streams.        *)
(***************************************************************************)
RoundsShareGossiper ==
    \A c \in Callers : Gossiping(c) =>
        /\ ~done => handlers[ns[c]] = g[c]
        /\ \A d \in Callers : Gossiping(d) /\ ns[d] = ns[c] => g[d] = g[c]

(***************************************************************************)
(* The discovery service is asked to advertise a namespace by one tracker  *)
(* at a time, although StopTracking does not wait for the tracker to end   *)
(* and each tracker deletes the entry of its namespace by name.            *)
(***************************************************************************)
OneTracker ==
    \A t \in Trackers : tpc[t] # "none" => advertising[t[2]] = t[1]

(***************************************************************************)
(* Once its context has ended, or the exchange is closed, getGossiper      *)
(* returns to FindPeers, wherever the loop is when it ends.                *)
(***************************************************************************)
FindReturns ==
    \A c \in Callers :
        pc[c] \in {"send", "reply"} /\ op[c] = "FindPeers"
            ~> pc[c] \notin {"send", "reply"}

(***************************************************************************)
(* Close stops gossip for good: every stream handler is removed, although  *)
(* thunks that would set one may be queued, and every tracker ends that    *)
(* was running then.                                                       *)
(***************************************************************************)
CloseStops ==
    /\ closed ~> [](\A n \in Namespaces : handlers[n] = None)
    /\ \A t \in Trackers : t \in tdone ~> tpc[t] = "none"

(***************************************************************************)
(* "ErrClosed is returned from an operation performed against a closed     *)
(* PeerExchange" (errors.go): a call of Advertise or Bootstrap does not    *)
(* wait for ever for the gossiper it asked for.                            *)
(***************************************************************************)
AdvertiseReturns ==
    \A c \in Callers : pc[c] = "reply" ~> pc[c] # "reply"
=============================================================================
