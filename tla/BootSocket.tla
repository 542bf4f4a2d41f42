----------------------------- MODULE BootSocket -----------------------------
(***************************************************************************)
(* The bootstrap socket (pkg/boot/socket/socket.go) and the calls that     *)
(* survey.Surveyor and crawl.Crawler make on it.  One goroutine, serve,    *)
(* reads packets and dispatches responses to the subscriptions of their    *)
(* namespace; another, tickloop, expires advertisements; any number of     *)
(* FindPeers callers subscribe, read and cancel.                           *)
(*                                                                         *)
(* Socket.mu is a reader/writer lock.  The sections that hold it for       *)
(* writing contain no blocking call, so each is one step; only dispatch    *)
(* holds it for reading across several steps, and while it does no writer  *)
(* may run (Unlocked).                                                     *)
(***************************************************************************)
EXTENDS Integers, Sequences

CONSTANTS
    Namespaces,
    Subs,         \* subscriptions: one for each call of Subscribe
    Limits,       \* limits that callers pass; 0 is "no limit"
    BufSize,      \* capacity of a subscription's channel (16 in the code)
    TTLs,         \* durations for which namespaces are tracked, in ticks
    MaxTime,      \* bound on the wall clock, in ticks
    None

ASSUME ConstantsOK ==
    /\ Limits \subseteq Nat
    /\ TTLs \subseteq Nat
    /\ BufSize \in Nat
    /\ MaxTime \in Nat
    /\ None \notin Subs
    /\ None \notin Nat
    /\ None \notin Namespaces

Packets == [kind : {"response", "request", "invalid"}, ns : Namespaces]

VARIABLES
    done,       \* Socket.done is closed
    subs,       \* Socket.subs: the subscriber set that each namespace maps to
    members,    \* content of a subscriber set, named by the subscription that made it
    advt,       \* Socket.advt: deadlines of the tracked namespaces
    time,       \* Socket.time
    wall,       \* the wall clock
    tickC,      \* what the ticker's channel holds, 0 for nothing
    st,         \* life of a subscription, and so of the Once in its cancel
    ns,         \* the namespace of a subscription
    ss,         \* the subscriber set that a subscription's cancel captured
    limit,      \* the limit of a subscription
    remaining,  \* resultLimiter.remaining
    buf,        \* number of results in the channel of a subscription
    ctx,        \* whether the context of the FindPeers call is done
    spc,        \* where serve is
    pkt,        \* the packet that serve is handling
    visit,      \* the subscribers that dispatch has yet to visit
    release,    \* the cancel functions that dispatch has yet to call
    sent        \* history: number of results sent to a subscription that has a limit

setvars == <<subs, members>>
advtvars == <<advt, time, wall, tickC>>
regvars == <<ns, ss, limit>>
resvars == <<remaining, buf, sent>>
subvars == <<st, ctx, regvars, resvars>>
servevars == <<spc, pkt, visit, release>>
vars == <<done, setvars, advtvars, subvars, servevars>>

TypeOK ==
    /\ done \in BOOLEAN
    /\ subs \in [Namespaces -> Subs \cup {None}]
    /\ members \in [Subs -> SUBSET Subs]
    /\ advt \in [Namespaces -> Nat \cup {None}]
    /\ time \in Nat /\ wall \in Nat /\ tickC \in Nat
    /\ st \in [Subs -> {"new", "open", "entered", "removed", "closed", "rejected"}]
    /\ ns \in [Subs -> Namespaces \cup {None}]
    /\ ss \in [Subs -> Subs \cup {None}]
    /\ limit \in [Subs -> Nat]
    /\ remaining \in [Subs -> Int]
    /\ buf \in [Subs -> 0..BufSize]
    /\ ctx \in [Subs -> BOOLEAN]
    /\ spc \in {"scan", "handle", "dispatch", "release", "closing", "exit"}
    /\ pkt \in Packets \cup {None}
    /\ visit \subseteq Subs
    /\ release \in Seq(Subs)
    /\ sent \in [Subs -> Nat]

\* New, then Bind: the socket is open, serve and tickloop run.
Init ==
    /\ done = FALSE
    /\ subs = [n \in Namespaces |-> None]
    /\ members = [c \in Subs |-> {}]
    /\ advt = [n \in Namespaces |-> None]
    /\ time = 0 /\ wall = 0 /\ tickC = 0
    /\ st = [c \in Subs |-> "new"]
    /\ ns = [c \in Subs |-> None]
    /\ ss = [c \in Subs |-> None]
    /\ limit = [c \in Subs |-> 0]
    /\ remaining = [c \in Subs |-> 0]
    /\ buf = [c \in Subs |-> 0]
    /\ ctx = [c \in Subs |-> FALSE]
    /\ spc = "scan"
    /\ pkt = None
    /\ visit = {}
    /\ release = <<>>
    /\ sent = [c \in Subs |-> 0]

\* Definitions marked "Fault" are plausible mistakes in the code of the
\* definition that follows, which one of the properties below rules out.

\* Fault: dispatch still holds the lock when it releases subscriptions.
UnlockedLate == spc \notin {"dispatch", "release"}

\* mu can be locked for writing.
Unlocked == spc # "dispatch"
-----------------------------------------------------------------------------
(***************************************************************************)
(* Callers.                                                                *)
(***************************************************************************)

\* Subscribe on a closed socket returns a closed channel and a cancel that
\* does nothing.
SubscribeClosed(c) ==
    /\ Unlocked
    /\ st[c] = "new"
    /\ done
    /\ st' = [st EXCEPT ![c] = "rejected"]
    /\ UNCHANGED <<done, setvars, advtvars, servevars, ctx, regvars, resvars>>

\* Subscribe joins the subscriber set of the namespace, or makes one.
Subscribe(c, n, lim) ==
    LET set == IF subs[n] = None THEN c ELSE subs[n] IN
    /\ Unlocked
    /\ st[c] = "new"
    /\ ~done
    /\ subs' = [subs EXCEPT ![n] = set]
    /\ members' = [members EXCEPT ![set] = @ \cup {c}]
    /\ st' = [st EXCEPT ![c] = "open"]
    /\ ns' = [ns EXCEPT ![c] = n]
    /\ ss' = [ss EXCEPT ![c] = set]
    /\ limit' = [limit EXCEPT ![c] = lim]
    /\ remaining' = [remaining EXCEPT ![c] = lim]
    /\ UNCHANGED <<done, advtvars, servevars, ctx, buf, sent>>

\* cancel: only the first caller enters the Once; any other one waits for it
\* to finish.
cancel(c) == st' = [st EXCEPT ![c] = IF @ = "open" THEN "entered" ELSE @]

\* Fault: cancel does not take the lock.
cancelRemoveUnlocked(c) ==
    LET left == members[ss[c]] \ {c} IN
    /\ st[c] = "entered"
    /\ members' = [members EXCEPT ![ss[c]] = left]
    /\ subs' = [subs EXCEPT ![ns[c]] = IF left = {} THEN None ELSE @]
    /\ st' = [st EXCEPT ![c] = "removed"]
    /\ UNCHANGED <<done, advtvars, servevars, ctx, regvars, resvars>>

\* Fault: the entry of the namespace goes with the first subscriber.
cancelRemoveAll(c) ==
    /\ Unlocked
    /\ st[c] = "entered"
    /\ members' = [members EXCEPT ![ss[c]] = @ \ {c}]
    /\ subs' = [subs EXCEPT ![ns[c]] = None]
    /\ st' = [st EXCEPT ![c] = "removed"]
    /\ UNCHANGED <<done, advtvars, servevars, ctx, regvars, resvars>>

\* The section of cancel that holds the lock.  If the set is now empty, the
\* entry of the namespace goes.
cancelRemove(c) ==
    LET left == members[ss[c]] \ {c} IN
    /\ Unlocked
    /\ st[c] = "entered"
    /\ members' = [members EXCEPT ![ss[c]] = left]
    /\ subs' = [subs EXCEPT ![ns[c]] = IF left = {} THEN None ELSE @]
    /\ st' = [st EXCEPT ![c] = "removed"]
    /\ UNCHANGED <<done, advtvars, servevars, ctx, regvars, resvars>>

\* The deferred close(ch), after the lock is released.
cancelClose(c) ==
    /\ st[c] = "removed"
    /\ st' = [st EXCEPT ![c] = "closed"]
    /\ UNCHANGED <<done, setvars, advtvars, servevars, ctx, regvars, resvars>>

\* FindPeers fails to send a request: the Surveyor before it returns, the
\* Crawler in the goroutine that goes through the addresses.
RequestFails(c) ==
    /\ st[c] = "open"
    /\ cancel(c)
    /\ UNCHANGED <<done, setvars, advtvars, servevars, ctx, regvars, resvars>>

\* The context of the FindPeers call is cancelled, or expires.
CtxDone(c) ==
    /\ st[c] # "new"
    /\ ~ctx[c]
    /\ ctx' = [ctx EXCEPT ![c] = TRUE]
    /\ UNCHANGED <<done, setvars, advtvars, servevars, st, regvars, resvars>>

\* Fault: the goroutine does not wait for the end of the socket.
WatchCtx(c) ==
    /\ st[c] = "open"
    /\ ctx[c]
    /\ cancel(c)
    /\ UNCHANGED <<done, setvars, advtvars, servevars, ctx, regvars, resvars>>

\* The goroutine that FindPeers starts sees the end of the context or of the
\* socket.
Watch(c) ==
    /\ st[c] = "open"
    /\ ctx[c] \/ done
    /\ cancel(c)
    /\ UNCHANGED <<done, setvars, advtvars, servevars, ctx, regvars, resvars>>

\* The caller of FindPeers takes a result.
Receive(c) ==
    /\ buf[c] > 0
    /\ buf' = [buf EXCEPT ![c] = @ - 1]
    /\ UNCHANGED <<done, setvars, advtvars, servevars,
                   st, ctx, regvars, remaining, sent>>

Close ==
    /\ Unlocked
    /\ ~done
    /\ done' = TRUE
    /\ UNCHANGED <<setvars, advtvars, subvars, servevars>>

\* Track, which Advertise calls.
Track(n, ttl) ==
    /\ Unlocked
    /\ ~done
    /\ advt' = [advt EXCEPT ![n] = time + ttl]
    /\ UNCHANGED <<done, setvars, time, wall, tickC, subvars, servevars>>
-----------------------------------------------------------------------------
(***************************************************************************)
(* The ticker and tickloop.                                                *)
(***************************************************************************)

\* time.Ticker: a channel of capacity one, ticks that do not fit are dropped.
\* Close stops the ticker, but not the tick that is in the channel.
Fire ==
    /\ ~done
    /\ wall < MaxTime
    /\ wall' = wall + 1
    /\ tickC' = IF tickC = 0 THEN wall' ELSE tickC
    /\ UNCHANGED <<done, setvars, advt, time, subvars, servevars>>

\* Fault: a deadline has passed when it is reached.
tickloopEarly ==
    /\ Unlocked
    /\ tickC # 0
    /\ tickC' = 0
    /\ time' = tickC
    /\ advt' = [n \in Namespaces |->
                   IF advt[n] # None /\ tickC >= advt[n] THEN None ELSE advt[n]]
    /\ UNCHANGED <<done, setvars, wall, subvars, servevars>>

tickloop ==
    /\ Unlocked
    /\ tickC # 0
    /\ tickC' = 0
    /\ time' = tickC
    /\ advt' = [n \in Namespaces |->
                   IF advt[n] # None /\ tickC > advt[n] THEN None ELSE advt[n]]
    /\ UNCHANGED <<done, setvars, wall, subvars, servevars>>
-----------------------------------------------------------------------------
(***************************************************************************)
(* serve.                                                                  *)
(***************************************************************************)

\* What serve does with an error, which may be a net.Error other than a
\* timeout.
Fail(fatal) ==
    spc' = IF done THEN "exit" ELSE IF fatal THEN "closing" ELSE "scan"

\* Scan reads a packet.
Scan(p) ==
    /\ spc = "scan"
    /\ ~done
    /\ spc' = "handle"
    /\ pkt' = p
    /\ UNCHANGED <<done, setvars, advtvars, subvars, visit, release>>

\* ReadFrom fails: always once the connection is closed.
ScanFails(fatal) ==
    /\ spc = "scan"
    /\ Fail(fatal)
    /\ UNCHANGED <<done, setvars, advtvars, subvars, pkt, visit, release>>

\* The deferred Close of serve.
ServeClose ==
    /\ spc = "closing"
    /\ done' = TRUE
    /\ spc' = "exit"
    /\ UNCHANGED <<setvars, advtvars, subvars, pkt, visit, release>>

\* A packet that Scan or handle rejects with an error.
Reject ==
    /\ spc = "handle"
    /\ pkt.kind = "invalid"
    /\ pkt' = None
    /\ Fail(FALSE)
    /\ UNCHANGED <<done, setvars, advtvars, subvars, visit, release>>

\* A request for a namespace that is not tracked, or that the handler
\* answers or ignores.
Answer ==
    /\ spc = "handle"
    /\ pkt.kind = "request"
    /\ pkt' = None
    /\ spc' = "scan"
    /\ UNCHANGED <<done, setvars, advtvars, subvars, visit, release>>

\* The handler fails to send the response; WriteTo returns a net.Error.
AnswerFails(fatal) ==
    /\ spc = "handle"
    /\ pkt.kind = "request"
    /\ advt[pkt.ns] # None
    /\ pkt' = None
    /\ Fail(fatal)
    /\ UNCHANGED <<done, setvars, advtvars, subvars, visit, release>>

\* dispatch takes the lock for reading and looks up the subscribers.
dispatch ==
    /\ spc = "handle"
    /\ pkt.kind = "response"
    /\ spc' = "dispatch"
    /\ visit' = IF subs[pkt.ns] = None THEN {} ELSE members[subs[pkt.ns]]
    /\ release' = <<>>
    /\ UNCHANGED <<done, setvars, advtvars, subvars, pkt>>

\* A subscriber whose channel has room gets the result; Decr tells whether
\* that was the last one it wants.
Send(c) ==
    /\ spc = "dispatch"
    /\ c \in visit
    /\ visit' = visit \ {c}
    /\ buf[c] < BufSize
    /\ buf' = [buf EXCEPT ![c] = @ + 1]
    /\ \/ limit[c] = 0 /\ UNCHANGED <<remaining, release, sent>>
       \/ /\ limit[c] # 0
          /\ remaining' = [remaining EXCEPT ![c] = @ - 1]
          /\ sent' = [sent EXCEPT ![c] = @ + 1]
          /\ release' = IF remaining[c] = 1 THEN Append(release, c) ELSE release
    /\ UNCHANGED <<done, setvars, advtvars, spc, pkt, st, ctx, regvars>>

\* Fault: a result that is dropped counts.
DropCounts(c) ==
    /\ spc = "dispatch"
    /\ c \in visit
    /\ visit' = visit \ {c}
    /\ buf[c] = BufSize
    /\ \/ limit[c] = 0 /\ UNCHANGED <<remaining, release>>
       \/ /\ limit[c] # 0
          /\ remaining' = [remaining EXCEPT ![c] = @ - 1]
          /\ release' = IF remaining[c] = 1 THEN Append(release, c) ELSE release
    /\ UNCHANGED <<done, setvars, advtvars, spc, pkt, st, ctx, regvars, buf, sent>>

\* One whose channel is full misses it.
Drop(c) ==
    /\ spc = "dispatch"
    /\ c \in visit
    /\ visit' = visit \ {c}
    /\ buf[c] = BufSize
    /\ UNCHANGED <<done, setvars, advtvars, subvars, spc, pkt, release>>

\* Fault: dispatch forgets the subscriptions that are to be released.
dispatchForget ==
    /\ spc = "dispatch"
    /\ visit = {}
    /\ spc' = "release"
    /\ release' = <<>>
    /\ UNCHANGED <<done, setvars, advtvars, subvars, pkt, visit>>

\* The deferred RUnlock runs before the deferred calls of release.
dispatchUnlock ==
    /\ spc = "dispatch"
    /\ visit = {}
    /\ spc' = "release"
    /\ UNCHANGED <<done, setvars, advtvars, subvars, pkt, visit, release>>

\* dispatch calls the cancel of a subscription that reached its limit ...
releaseEnter ==
    /\ spc = "release"
    /\ release # <<>>
    /\ st[Head(release)] = "open"
    /\ cancel(Head(release))
    /\ UNCHANGED <<done, setvars, advtvars, servevars, ctx, regvars, resvars>>

\* ... and waits until it, or the call it lost the race to, is done.
releaseReturn ==
    /\ spc = "release"
    /\ release # <<>>
    /\ st[Head(release)] = "closed"
    /\ release' = Tail(release)
    /\ UNCHANGED <<done, setvars, advtvars, subvars, spc, pkt, visit>>

dispatchReturn ==
    /\ spc = "release"
    /\ release = <<>>
    /\ spc' = "scan"
    /\ pkt' = None
    /\ UNCHANGED <<done, setvars, advtvars, subvars, visit, release>>
-----------------------------------------------------------------------------
CallerStep(c) ==
    \/ SubscribeClosed(c)
    \/ \E n \in Namespaces, lim \in Limits : Subscribe(c, n, lim)
    \/ cancelRemove(c)
    \/ cancelClose(c)
    \/ RequestFails(c)
    \/ CtxDone(c)
    \/ Watch(c)
    \/ Receive(c)

ServeStep ==
    \/ ServeClose
    \/ Reject
    \/ Answer
    \/ dispatch
    \/ \E c \in Subs : Send(c) \/ Drop(c)
    \/ dispatchUnlock
    \/ releaseEnter
    \/ releaseReturn
    \/ dispatchReturn

Environment ==
    \/ Close
    \/ \E n \in Namespaces, ttl \in TTLs : Track(n, ttl)
    \/ Fire
    \/ \E p \in Packets : Scan(p)
    \/ \E fatal \in BOOLEAN : ScanFails(fatal) \/ AnswerFails(fatal)

Next ==
    \/ \E c \in Subs : CallerStep(c)
    \/ ServeStep
    \/ tickloop
    \/ Environment

Spec == Init /\ [][Next]_vars

(***************************************************************************)
(* serve runs, and reads from a closed connection fail; a goroutine that   *)
(* was started, or that entered cancel, runs; and a goroutine waiting for  *)
(* the lock gets it between two calls of dispatch, which is what           *)
(* sync.RWMutex gives a waiting writer.  Nothing is assumed about callers, *)
(* packets or the ticker.                                                  *)
(***************************************************************************)
Fairness ==
    /\ WF_vars(ServeStep)
    /\ WF_vars(done /\ ScanFails(TRUE))
    /\ \A c \in Subs :
          WF_vars(Watch(c)) /\ SF_vars(cancelRemove(c)) /\ WF_vars(cancelClose(c))

FairSpec == Spec /\ Fairness
-----------------------------------------------------------------------------
\* Not yet removed by cancel.
Live(c) == st[c] \in {"open", "entered"}

(***************************************************************************)
(* Whoever waits for results is in the subscriber set that dispatch will   *)
(* look up: no cancel removes the entry of a namespace that still has a    *)
(* subscriber, and no subscriber is left behind in a set that was dropped. *)
(***************************************************************************)
Registered ==
    \A c \in Subs : Live(c) => subs[ns[c]] = ss[c] /\ c \in members[ss[c]]

(***************************************************************************)
(* dispatch never sends on a closed channel, which would panic: cancel     *)
(* closes the channel after it released the lock, possibly while dispatch  *)
(* is iterating over subscribers.                                          *)
(***************************************************************************)
NoSendOnClosed == \A c \in visit : st[c] # "closed"

(***************************************************************************)
(* A subscription with a limit gets no more results than that, although it *)
(* is cancelled only after dispatch has released the lock.                 *)
(***************************************************************************)
LimitRespected == \A c \in Subs : limit[c] > 0 => sent[c] <= limit[c]

(***************************************************************************)
(* dispatch cancels a subscription only when it was sent as many results   *)
(* as its limit: the ones dropped for want of room do not count.           *)
(***************************************************************************)
ReleasedAtLimit ==
    [][releaseEnter => sent[Head(release)] = limit[Head(release)]]_vars

(***************************************************************************)
(* A namespace whose deadline lies before the socket's time is not tracked *)
(* any more, so requests for it are not answered.                          *)
(***************************************************************************)
AdvertFresh == \A n \in Namespaces : advt[n] # None => time <= advt[n]

(***************************************************************************)
(* tickloop stops tracking a namespace only after its deadline, whatever   *)
(* ticks were dropped because it had to wait for the lock.                 *)
(***************************************************************************)
AdvertKept ==
    [][\A n \in Namespaces : advt[n] # None /\ advt'[n] = None => advt[n] < wall]_vars

\* The inductive strengthening of the properties above.
SetsOK ==
    /\ \A n \in Namespaces : subs[n] # None => members[subs[n]] # {}
    /\ \A s, c \in Subs : c \in members[s] => Live(c) /\ ss[c] = s
    /\ \A c, d \in Subs : st[c] = "new" => members[c] = {} /\ ss[d] # c
    /\ \A c \in Subs : Live(c) => ns[c] \in Namespaces /\ ss[c] \in Subs
    /\ \A n \in Namespaces, c \in Subs :
          subs[n] # None /\ c \in members[subs[n]] => ns[c] = n

ServeOK ==
    /\ spc \in {"handle", "dispatch", "release"} => pkt \in Packets
    /\ spc = "dispatch" \/ visit = {}
    /\ spc \in {"dispatch", "release"} \/ release = <<>>
    /\ \A c \in visit : Live(c) /\ (limit[c] > 0 => remaining[c] > 0)

LimitOK ==
    /\ \A c \in Subs : st[c] = "new" => sent[c] = 0 /\ limit[c] = 0
    /\ \A c \in Subs : limit[c] > 0 =>
          /\ remaining[c] >= 0
          /\ sent[c] = limit[c] - remaining[c]
          /\ Live(c) /\ remaining[c] = 0 =>
                 \E i \in 1..Len(release) : release[i] = c
    /\ \A i \in 1..Len(release) :
          limit[release[i]] > 0 /\ remaining[release[i]] = 0

TicksOK == AdvertFresh /\ tickC <= wall

(***************************************************************************)
(* What Subscribe, cancel and dispatch keep true of the maps they share:   *)
(* whoever waits is registered, empty sets are dropped, whom dispatch has  *)
(* yet to visit may be sent to, results are counted exactly and never      *)
(* exceed a limit, and no namespace is tracked past its deadline.          *)
(***************************************************************************)
SocketInv == TypeOK /\ Registered /\ SetsOK /\ ServeOK /\ LimitOK /\ TicksOK

(***************************************************************************)
(* When the context of FindPeers is done, or the socket is closed, every   *)
(* channel it returned is closed, whoever else is cancelling it.           *)
(***************************************************************************)
SubscriptionEnds ==
    \A c \in Subs :
        st[c] # "new" /\ (ctx[c] \/ done) ~> st[c] \in {"closed", "rejected"}

(***************************************************************************)
(* A subscription that was sent its last result is closed.                 *)
(***************************************************************************)
LimitEnds ==
    \A c \in Subs : limit[c] > 0 /\ sent[c] = limit[c] ~> st[c] = "closed"

(***************************************************************************)
(* After Close, serve returns: dispatch does not wait for itself when it   *)
(* cancels subscriptions, nor for a caller that is cancelling the same one.*)
(***************************************************************************)
ServeStops == done ~> spc = "exit"
=============================================================================
