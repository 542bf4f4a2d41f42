------------------------- MODULE PexExchangeProofs -------------------------
(***************************************************************************)
(* The peer exchange of PexExchange, for any callers, namespaces and       *)
(* gossipers, and any Tick and Timeout for which the rounds of a Bootstrap *)
(* fit into the life of an advertiser: the inductive invariant, that the   *)
(* loop and the trackers keep it, and that callers do.                     *)
(***************************************************************************)
EXTENDS PexExchange, TLAPS

\* The loop has answered the caller, which has not picked the answer up.
Pending(c) == pc[c] = "reply" /\ op[c] # "FindPeers" /\ ch[c] # None

\* Callers that have been given a gossiper, and which.
Holds(c) == Pending(c) \/ Gossiping(c)
Held(c) == IF Pending(c) THEN ch[c] ELSE g[c]

\* The time that k rounds may take.
Budget(k) == k * Timeout

\* The longest that its rounds may still take.
Due(c) == IF Pending(c) THEN Tick + Timeout ELSE until[c] + Budget(left[c])

\* A queued thunk is of a caller that waits for it, or of a FindPeers that
\* has given up.
ThunkOK ==
    thunk # <<>> =>
        LET f == Head(thunk) IN
        /\ f.by = None => f.op = "FindPeers"
        /\ f.by # None => /\ pc[f.by] = "reply" /\ ch[f.by] = None
                          /\ op[f.by] = f.op /\ ns[f.by] = f.ns

\* Where the answer and the remaining peers of a call are.
CallOK ==
    \A c \in Callers :
        /\ pc[c] # "idle" => op[c] \in Ops
        /\ pc[c] # "reply" => ch[c] = None
        /\ pc[c] = "reply" /\ op[c] # "FindPeers" => ch[c] \in Gossipers \cup {None}
        /\ op[c] # "Bootstrap" => left[c] = 0
        /\ left[c] <= MaxPeers

\* Who holds a gossiper in one namespace holds the same one, and while the
\* loop runs it is the advertiser's, whose deadline is past all their rounds.
ShareOK ==
    \A c \in Callers : Holds(c) =>
        /\ Held(c) \in Gossipers
        /\ ~done => /\ advertisers[ns[c]] # None
                    /\ advertisers[ns[c]].gossiper = Held(c)
                    /\ advertisers[ns[c]].deadline >= Due(c)
        /\ \A d \in Callers : Holds(d) /\ ns[d] = ns[c] => Held(d) = Held(c)

\* ResetTTL is the only way to a later deadline.
DeadlineOK ==
    \A n \in Namespaces :
        advertisers[n] # None => advertisers[n].deadline <= Tick + Timeout

\* The inductive invariant.
IInv == ExchangeInv /\ OneTracker /\ ThunkOK /\ CallOK /\ ShareOK /\ DeadlineOK
-----------------------------------------------------------------------------
\* The arithmetic of ResetTTL: what a round takes from the peers left.
LEMMA Rounds ==
    /\ \A k \in Nat : Budget(k) \in Nat
    /\ \A k \in Nat \ {0} : Budget(k - 1) + Timeout = Budget(k)
    /\ \A k \in 0..MaxPeers : Budget(k) <= Tick + Timeout
    /\ Budget(0) = 0
  <1>. USE ConstantsOK, BootstrapFits DEF Budget
  <1>1. \A k \in Nat : k * Timeout \in Nat
    OBVIOUS
  <1>2. \A k \in Nat \ {0} : (k - 1) * Timeout + Timeout = k * Timeout
    OBVIOUS
  <1>3. \A k \in 0..MaxPeers : k * Timeout <= MaxPeers * Timeout
    OBVIOUS
  <1>. QED
    BY <1>1, <1>2, <1>3

\* Rounds take no negative time, before a step or after it.
LEMMA DueNat == ExchangeInv => \A c \in Callers : Due(c) \in Nat
  <1>. SUFFICES ASSUME ExchangeInv, NEW c \in Callers PROVE Due(c) \in Nat
    BY Zenon
  <1>1. left[c] \in Nat /\ until[c] \in Nat
    BY Zenon DEF ExchangeInv, TypeOK
  <1>2. Budget(left[c]) \in Nat
    BY <1>1, Rounds, Zenon
  <1>. QED
    BY <1>1, <1>2, ConstantsOK DEF Due

\* Due after a step, of the values after it.
LEMMA DueNext ==
    \A c \in Callers :
        Due(c)' = IF Pending(c)' THEN Tick + Timeout ELSE until'[c] + Budget(left'[c])
  BY Zenon DEF Due, Budget

\* The same after a step.
LEMMA DueNatNext == ExchangeInv' => \A c \in Callers : Due(c)' \in Nat
  <1>. SUFFICES ASSUME ExchangeInv', NEW c \in Callers PROVE Due(c)' \in Nat
    BY Zenon
  <1>1. left'[c] \in Nat /\ until'[c] \in Nat
    BY Zenon DEF ExchangeInv, TypeOK
  <1>2. Budget(left'[c]) \in Nat
    BY <1>1, Rounds, Zenon
  <1>. QED
    BY <1>1, <1>2, DueNext, ConstantsOK

\* A step that gives no caller a gossiper keeps ShareOK if those who have one
\* keep it, and their advertiser, for as long as they need it.
LEMMA ShareKept ==
    ASSUME ShareOK,
           \A d \in Callers : Holds(d)' =>
               /\ Holds(d) /\ Held(d)' = Held(d) /\ ns'[d] = ns[d]
               /\ ~done' =>
                     /\ ~done
                     /\ /\ advertisers[ns[d]] # None
                        /\ advertisers[ns[d]].deadline >= Due(d)
                        => /\ advertisers'[ns[d]] # None
                           /\ advertisers'[ns[d]].gossiper = advertisers[ns[d]].gossiper
                           /\ advertisers'[ns[d]].deadline >= Due(d)'
    PROVE  ShareOK'
  BY DEF ShareOK

\* The arithmetic of deadlines.
LEMMA Earlier == \A a, b, x \in Int : a >= x /\ a <= b => x <= b
  OBVIOUS

\* Orders of times.
LEMMA Later == \A a, b, x \in Int : a >= b /\ x <= b => a >= x
  OBVIOUS

\* A deadline that is late enough for a call stays so when the call needs
\* less time.
LEMMA DeadlineKept ==
    ASSUME ExchangeInv, NEW c \in Callers,
           Due(c) \in Int, Due(c)' \in Int, Due(c)' <= Due(c),
           \A d \in Callers : d # c => Due(d)' = Due(d),
           NEW d \in Callers,
           advertisers[ns[d]] # None, advertisers[ns[d]].deadline >= Due(d)
    PROVE  advertisers[ns[d]].deadline >= Due(d)'
  <1>1. CASE d # c
    BY <1>1, Zenon
  <1>2. CASE d = c
    <2>1. ns[d] \in Namespaces /\ advertisers[ns[d]] \in Advertiser \cup {None}
      BY Zenon DEF ExchangeInv, TypeOK
    <2>2. advertisers[ns[d]].deadline \in Int
      BY <2>1, Zenon DEF Advertiser
    <2>. QED
      BY <1>2, <2>2, Later, Zenon
  <1>. QED
    BY <1>1, <1>2, Zenon

\* What is queued is a thunk.
LEMMA QueueHead == \A q \in Queue : q # <<>> => Head(q) \in Thunk
  BY DEF Queue

\* What callers hold does not change with what is not theirs.
LEMMA CallerFrame ==
    ASSUME NEW d \in Callers,
           /\ pc'[d] = pc[d] /\ op'[d] = op[d] /\ ch'[d] = ch[d] /\ g'[d] = g[d]
           /\ until'[d] = until[d] /\ left'[d] = left[d]
    PROVE  (Holds(d)' <=> Holds(d)) /\ Held(d)' = Held(d) /\ Due(d)' = Due(d)
  BY DueNext, Zenon DEF Holds, Held, Due, Pending, Gossiping

\* The invariant holds before the first call.
LEMMA Initially == Init => IInv
  <1>. SUFFICES ASSUME Init PROVE IInv
    BY Zenon
  <1>. USE ConstantsOK DEF Init
  <1>1. TypeOK
    <2>1. ns \in [Callers -> Namespaces]
      <3>1. (CHOOSE n \in Namespaces : TRUE) \in Namespaces
        BY Zenon
      <3>. QED
        BY <3>1, Zenon
    <2>2. closed \in BOOLEAN
      BY Zenon
    <2>3. tdone \subseteq Trackers /\ cancelled \subseteq Callers
      BY Zenon
    <2>4. thunk \in Queue
      BY Zenon DEF Queue
    <2>5. /\ advertisers \in [Namespaces -> Advertiser \cup {None}]
          /\ handlers \in [Namespaces -> Gossipers \cup {None}]
          /\ advertising \in [Namespaces -> Callers \cup {None}]
          /\ tpc \in [Trackers -> {"none", "run", "end"}]
      BY Zenon
    <2>6. /\ pc \in [Callers -> {"idle", "send", "reply", "round", "boot", "peers"}]
          /\ op \in [Callers -> Ops \cup {None}]
          /\ ch \in [Callers -> Gossipers \cup {None, "nil"}]
          /\ g \in [Callers -> Gossipers \cup {None}]
          /\ until \in [Callers -> Nat]
          /\ left \in [Callers -> Nat]
      BY Zenon
    <2>7. loop \in {"select", "stop", "ended"} /\ calls \in 0..MaxCalls
      OBVIOUS
    <2>. QED
      BY <2>1, <2>2, <2>3, <2>4, <2>5, <2>6, <2>7, Zenon DEF TypeOK
  <1>. QED
    BY <1>1 DEF IInv, ExchangeInv, OneTracker, ThunkOK, CallOK, ShareOK, DeadlineOK,
                Holds, Pending, Gossiping

\* Expiry keeps the invariant.
LEMMA expireKeeps ==
    ASSUME IInv, expire PROVE IInv'
  <1>. USE ConstantsOK DEF IInv
  <1>1. ExchangeInv'
    BY Zenon DEF expire, drop, StopTracking, cvars, ExchangeInv, TypeOK
  <1>2. OneTracker'
    BY Zenon DEF expire, drop, StopTracking, OneTracker
  <1>3. ThunkOK'
    BY Zenon DEF expire, drop, StopTracking, cvars, ThunkOK
  <1>4. CallOK'
    BY Zenon DEF expire, drop, StopTracking, cvars, CallOK
  <1>5. ShareOK'
    <2>1. \A d \in Callers : Due(d) \in Nat
      BY DueNat, Zenon
    <2>2. \A d \in Callers : /\ Holds(d)' <=> Holds(d)
                             /\ Held(d)' = Held(d) /\ Due(d)' = Due(d)
      BY CallerFrame, Zenon DEF expire, cvars
    <2>. QED
      BY <2>1, <2>2, ShareKept
         DEF expire, drop, Expired, cvars, done, Advertiser, TypeOK, ExchangeInv
  <1>6. DeadlineOK'
    BY Zenon DEF expire, drop, DeadlineOK, ExchangeInv, TypeOK
  <1>. QED
    BY <1>1, <1>2, <1>3, <1>4, <1>5, <1>6, Zenon DEF IInv

\* So does the end of the loop,
LEMMA loopReturnKeeps ==
    ASSUME IInv, loopReturn PROVE IInv'
  <1>. USE ConstantsOK DEF IInv
  <1>1. ExchangeInv'
    BY Zenon DEF loopReturn, tvars, cvars, ExchangeInv, TypeOK
  <1>2. OneTracker'
    BY Zenon DEF loopReturn, tvars, OneTracker
  <1>3. ThunkOK'
    BY Zenon DEF loopReturn, cvars, ThunkOK
  <1>4. CallOK'
    BY Zenon DEF loopReturn, cvars, CallOK
  <1>5. ShareOK'
    <2>1. \A d \in Callers : /\ Holds(d)' <=> Holds(d)
                             /\ Held(d)' = Held(d) /\ Due(d)' = Due(d)
      BY CallerFrame, Zenon DEF loopReturn, cvars
    <2>. QED
      BY <2>1, ShareKept, Zenon DEF loopReturn, cvars, done
  <1>6. DeadlineOK'
    BY Zenon DEF loopReturn, cvars, DeadlineOK
  <1>. QED
    BY <1>1, <1>2, <1>3, <1>4, <1>5, <1>6, Zenon DEF IInv

\* the deferred calls of the loop,
LEMMA loopDeferKeeps ==
    ASSUME IInv, loopDefer PROVE IInv'
  <1>. USE ConstantsOK DEF IInv
  <1>1. ExchangeInv'
    BY Zenon DEF loopDefer, drop, StopTracking, cvars, ExchangeInv, TypeOK
  <1>2. OneTracker'
    BY Zenon DEF loopDefer, drop, StopTracking, OneTracker
  <1>3. ThunkOK'
    BY Zenon DEF loopDefer, drop, StopTracking, cvars, ThunkOK
  <1>4. CallOK'
    BY Zenon DEF loopDefer, drop, StopTracking, cvars, CallOK
  <1>5. ShareOK'
    <2>1. \A d \in Callers : /\ Holds(d)' <=> Holds(d)
                             /\ Held(d)' = Held(d) /\ Due(d)' = Due(d)
      BY CallerFrame, Zenon DEF loopDefer, cvars
    <2>. QED
      BY <2>1, ShareKept, Zenon DEF loopDefer, cvars, done
  <1>6. DeadlineOK'
    BY Zenon DEF loopDefer, drop, DeadlineOK, ExchangeInv, TypeOK
  <1>. QED
    BY <1>1, <1>2, <1>3, <1>4, <1>5, <1>6, Zenon DEF IInv

\* Close,
LEMMA CloseKeeps ==
    ASSUME IInv, Close PROVE IInv'
  <1>. USE ConstantsOK DEF IInv
  <1>1. ExchangeInv'
    BY Zenon DEF Close, tvars, cvars, ExchangeInv, TypeOK
  <1>2. OneTracker'
    BY Zenon DEF Close, tvars, OneTracker
  <1>3. ThunkOK'
    BY Zenon DEF Close, cvars, ThunkOK
  <1>4. CallOK'
    BY Zenon DEF Close, cvars, CallOK
  <1>5. ShareOK'
    <2>1. \A d \in Callers : /\ Holds(d)' <=> Holds(d)
                             /\ Held(d)' = Held(d) /\ Due(d)' = Due(d)
      BY CallerFrame, Zenon DEF Close, cvars
    <2>. QED
      BY <2>1, ShareKept, Zenon DEF Close, cvars, done
  <1>6. DeadlineOK'
    BY Zenon DEF Close, cvars, DeadlineOK
  <1>. QED
    BY <1>1, <1>2, <1>3, <1>4, <1>5, <1>6, Zenon DEF IInv

\* and the passing of time.
LEMMA PassKeeps ==
    ASSUME IInv, Pass PROVE IInv'
  <1>. USE ConstantsOK DEF IInv
  <1>1. ExchangeInv'
    <2>1. \A n \in Namespaces :
             /\ advertisers'[n] \in Advertiser \cup {None}
             /\ advertisers'[n] = None <=> advertisers[n] = None
             /\ advertisers[n] # None => advertisers'[n].gossiper = advertisers[n].gossiper
      BY DEF Pass, Advertiser, ExchangeInv, TypeOK
    <2>2. advertisers' \in [Namespaces -> Advertiser \cup {None}]
      BY <2>1, Zenon DEF Pass
    <2>3. until' \in [Callers -> Nat]
      BY DEF Pass, ExchangeInv, TypeOK
    <2>. QED
      BY <2>1, <2>2, <2>3, Zenon DEF Pass, tvars, ExchangeInv, TypeOK
  <1>2. OneTracker'
    BY Zenon DEF Pass, tvars, OneTracker
  <1>3. ThunkOK'
    BY Zenon DEF Pass, ThunkOK
  <1>4. CallOK'
    BY Zenon DEF Pass, CallOK
  <1>5. ShareOK'
    <2>. SUFFICES ASSUME NEW d \in Callers, Holds(d)'
                  PROVE  /\ Holds(d) /\ Held(d)' = Held(d) /\ ns'[d] = ns[d]
                         /\ ~done' =>
                              /\ ~done
                              /\ /\ advertisers[ns[d]] # None
                                 /\ advertisers[ns[d]].deadline >= Due(d)
                                 => /\ advertisers'[ns[d]] # None
                                    /\ advertisers'[ns[d]].gossiper = advertisers[ns[d]].gossiper
                                    /\ advertisers'[ns[d]].deadline >= Due(d)'
      BY ShareKept, Zenon
    <2>1. ~Pending(d)
      BY Zenon DEF Pass, Pending, CallOK
    <2>2. Gossiping(d) /\ ~Pending(d)'
      BY <2>1, Zenon DEF Pass, Holds, Pending, Gossiping
    <2>3. until'[d] = until[d] - 1 /\ until[d] \in Nat \ {0} /\ left'[d] = left[d]
      BY <2>2 DEF Pass, ExchangeInv, TypeOK
    <2>4. Budget(left[d]) \in Nat
      BY Rounds, Zenon DEF ExchangeInv, TypeOK
    <2>5. Due(d)' = Due(d) - 1 /\ Due(d) \in Nat \ {0}
      BY <2>1, <2>2, <2>3, <2>4, DueNext DEF Due
    <2>6. advertisers[ns[d]] \in Advertiser \cup {None}
      BY Zenon DEF ExchangeInv, TypeOK
    <2>7. ns[d] \in Namespaces
      BY Zenon DEF ExchangeInv, TypeOK
    <2>8. ASSUME advertisers[ns[d]] # None, advertisers[ns[d]].deadline >= Due(d)
          PROVE  /\ advertisers'[ns[d]] # None
                 /\ advertisers'[ns[d]].gossiper = advertisers[ns[d]].gossiper
                 /\ advertisers'[ns[d]].deadline >= Due(d)'
      <3>1. advertisers'[ns[d]] =
               [advertisers[ns[d]] EXCEPT !.deadline = advertisers[ns[d]].deadline - 1]
        BY <2>5, <2>6, <2>7, <2>8 DEF Pass, Expired, Advertiser
      <3>. QED
        BY <2>5, <2>6, <2>8, <3>1 DEF Advertiser
    <2>. QED
      BY <2>1, <2>2, <2>8, Zenon DEF Pass, Holds, Held, done
  <1>6. DeadlineOK'
    BY DEF Pass, DeadlineOK, Advertiser, ExchangeInv, TypeOK
  <1>. QED
    BY <1>1, <1>2, <1>3, <1>4, <1>5, <1>6, Zenon DEF IInv

\* Steps of the loop and of time keep the invariant.
LEMMA LoopKeeps ==
    ASSUME IInv, expire \/ loopReturn \/ loopDefer \/ Close \/ Pass
    PROVE  IInv'
  BY expireKeeps, loopReturnKeeps, loopDeferKeeps, CloseKeeps, PassKeeps, Zenon

\* So does a tracker's step.
LEMMA TrackerKeeps ==
    ASSUME NEW t \in Trackers, IInv, tDone(t) \/ tEnd(t)
    PROVE  IInv'
  <1>. USE ConstantsOK DEF IInv
  <1>1. CASE tDone(t)
    <2>1. ExchangeInv'
      BY <1>1, Zenon DEF tDone, cvars, ExchangeInv, TypeOK
    <2>2. OneTracker'
      BY <1>1, Zenon DEF tDone, OneTracker, ExchangeInv, TypeOK, Trackers
    <2>3. ThunkOK'
      BY <1>1, Zenon DEF tDone, cvars, ThunkOK
    <2>4. CallOK'
      BY <1>1, Zenon DEF tDone, cvars, CallOK
    <2>5. ShareOK'
      <3>1. \A d \in Callers : /\ Holds(d)' <=> Holds(d)
                               /\ Held(d)' = Held(d) /\ Due(d)' = Due(d)
        BY <1>1, CallerFrame, Zenon DEF tDone, cvars
      <3>. QED
        BY <1>1, <3>1, ShareKept, Zenon DEF tDone, cvars, done
    <2>6. DeadlineOK'
      BY <1>1, Zenon DEF tDone, cvars, DeadlineOK
    <2>. QED
      BY <2>1, <2>2, <2>3, <2>4, <2>5, <2>6, Zenon DEF IInv
  <1>2. CASE tEnd(t)
    <2>1. ExchangeInv'
      BY <1>2, Zenon DEF tEnd, cvars, ExchangeInv, TypeOK
    <2>2. OneTracker'
      <3>1. /\ \A u \in Trackers : u[2] = t[2] /\ u[1] = t[1] => u = t
            /\ \A u \in Trackers : u[2] \in Namespaces
        BY DEF Trackers
      <3>2. \A u \in Trackers : tpc'[u] # "none" => u # t /\ tpc[u] # "none"
        BY <1>2, Zenon DEF tEnd, ExchangeInv, TypeOK
      <3>3. \A u \in Trackers : tpc[u] # "none" /\ u # t => u[2] # t[2]
        BY <1>2, <3>1, Zenon DEF tEnd, OneTracker
      <3>4. \A u \in Trackers : u[2] # t[2] => advertising'[u[2]] = advertising[u[2]]
        BY <1>2, <3>1, Zenon DEF tEnd, ExchangeInv, TypeOK
      <3>. QED
        BY <3>2, <3>3, <3>4, Zenon DEF OneTracker
    <2>3. ThunkOK'
      BY <1>2, Zenon DEF tEnd, cvars, ThunkOK
    <2>4. CallOK'
      BY <1>2, Zenon DEF tEnd, cvars, CallOK
    <2>5. ShareOK'
      <3>1. \A d \in Callers : /\ Holds(d)' <=> Holds(d)
                               /\ Held(d)' = Held(d) /\ Due(d)' = Due(d)
        BY <1>2, CallerFrame, Zenon DEF tEnd, cvars
      <3>. QED
        BY <1>2, <3>1, ShareKept, Zenon DEF tEnd, cvars, done
    <2>6. DeadlineOK'
      BY <1>2, Zenon DEF tEnd, cvars, DeadlineOK
    <2>. QED
      BY <2>1, <2>2, <2>3, <2>4, <2>5, <2>6, Zenon DEF IInv
  <1>. QED
    BY <1>1, <1>2, Zenon

\* So does a lookup the loop runs for FindPeers.
LEMMA lookupKeeps ==
    ASSUME IInv, NEW f \in Thunk, f = Head(thunk), thunk # <<>>, f.op = "FindPeers",
           lookup(f), thunk' = <<>>,
           UNCHANGED <<closed, loop, pc, op, ns, g, until, left, cancelled, tvars, calls>>
    PROVE  IInv'
  <1>. USE ConstantsOK DEF IInv
  <1>1. ExchangeInv'
    <2>1. thunk' \in Queue
      BY Zenon DEF Queue
    <2>2. advertisers[f.ns] # None => advertisers[f.ns].gossiper \in Gossipers
      BY DEF Thunk, Advertiser, ExchangeInv, TypeOK
    <2>3. ch' \in [Callers -> Gossipers \cup {None, "nil"}]
      BY <2>2, Zenon DEF lookup, ExchangeInv, TypeOK
    <2>. QED
      BY <2>1, <2>3, Zenon DEF lookup, tvars, ExchangeInv, TypeOK
  <1>2. OneTracker'
    BY Zenon DEF tvars, OneTracker
  <1>3. ThunkOK'
    BY Zenon DEF ThunkOK
  <1>4. CallOK'
    <2>1. \A d \in Callers : d = f.by => pc[d] = "reply" /\ op[d] = "FindPeers"
      BY Zenon DEF ThunkOK
    <2>2. \A d \in Callers : d # f.by => ch'[d] = ch[d]
      BY Zenon DEF lookup
    <2>. QED
      BY <2>1, <2>2, Zenon DEF CallOK
  <1>5. ShareOK'
    <2>1. \A d \in Callers : op[d] # "FindPeers" => ch'[d] = ch[d]
      BY Zenon DEF lookup, ThunkOK, Thunk
    <2>2. \A d \in Callers : /\ Holds(d)' = Holds(d)
                             /\ Holds(d) => Held(d)' = Held(d) /\ Due(d)' = Due(d)
      BY <2>1, DueNext, Zenon DEF Holds, Held, Due, Pending, Gossiping
    <2>. QED
      BY <2>2, ShareKept, Zenon DEF lookup, done
  <1>6. DeadlineOK'
    BY Zenon DEF lookup, DeadlineOK
  <1>. QED
    BY <1>1, <1>2, <1>3, <1>4, <1>5, <1>6, Zenon

\* An advertisement keeps advertisers and handlers in step,
LEMMA advertiseInStep ==
    ASSUME IInv, NEW f \in Thunk, NEW h \in Gossipers, NEW c \in Callers, c = f.by,
           f.ns \in Namespaces, advertise(f, h), thunk' = <<>>,
           UNCHANGED <<closed, loop, pc, op, ns, g, until, left, cancelled, tvars, calls>>
    PROVE  ExchangeInv'
  <1>. USE ConstantsOK DEF IInv
  <1>1. [gossiper |-> h, deadline |-> Tick + Timeout] \in Advertiser
    BY DEF Advertiser
  <1>2. /\ advertisers' \in [Namespaces -> Advertiser \cup {None}]
        /\ handlers' \in [Namespaces -> Gossipers \cup {None}]
        /\ ch' \in [Callers -> Gossipers \cup {None, "nil"}]
    BY <1>1, Zenon DEF advertise, ResetTTL, ExchangeInv, TypeOK
  <1>3. \A n \in Namespaces :
           handlers'[n] = IF advertisers'[n] = None THEN None
                                                    ELSE advertisers'[n].gossiper
    <2>1. advertisers'[f.ns] # None /\ advertisers'[f.ns].gossiper = h
      BY <1>1, Zenon DEF advertise, ResetTTL, Advertiser, ExchangeInv, TypeOK
    <2>. QED
      BY <2>1, Zenon DEF advertise, ExchangeInv, TypeOK
  <1>4. thunk' \in Queue
    BY Zenon DEF Queue
  <1>5. TypeOK'
    BY <1>2, <1>4, Zenon DEF tvars, ExchangeInv, TypeOK
  <1>. QED
    BY <1>3, <1>5, Zenon DEF ExchangeInv

\* and whoever holds a gossiper in its namespace holds the one it returns.
LEMMA advertiseShares ==
    ASSUME IInv, NEW f \in Thunk, NEW h \in Gossipers, NEW c \in Callers, c = f.by,
           f.ns \in Namespaces, advertise(f, h), loop = "select",
           pc[c] = "reply", ns[c] = f.ns, op[c] # "FindPeers",
           UNCHANGED <<closed, loop, pc, op, ns, g, until, left>>
    PROVE  ShareOK'
  <1>. USE ConstantsOK DEF IInv
  <1>1. /\ advertisers'[f.ns] = [gossiper |-> h, deadline |-> Tick + Timeout]
        /\ \A n \in Namespaces : n # f.ns => advertisers'[n] = advertisers[n]
        /\ ch'[c] = h
        /\ \A d \in Callers : d # c => ch'[d] = ch[d]
    BY Zenon DEF advertise, ResetTTL, ExchangeInv, TypeOK
  <1>2. \A d \in Callers : d # c => /\ Holds(d)' = Holds(d) /\ Held(d)' = Held(d)
                                    /\ Due(d)' = Due(d)
    BY <1>1, DueNext, Zenon DEF Holds, Held, Due, Pending, Gossiping
  <1>3. Held(c)' = h /\ Due(c)' = Tick + Timeout
    BY <1>1, DueNext, Zenon DEF Held, Pending
  <1>4. \A d \in Callers : Holds(d) /\ ns[d] = f.ns => Held(d) = h
    BY Zenon DEF advertise, ShareOK, done
  <1>5. \A d \in Callers : Holds(d) => Due(d) <= Tick + Timeout
    <2>. SUFFICES ASSUME NEW d \in Callers, Holds(d) PROVE Due(d) <= Tick + Timeout
      BY Zenon
    <2>1. advertisers[ns[d]] # None /\ advertisers[ns[d]].deadline >= Due(d)
      BY Zenon DEF ShareOK, done
    <2>2. ns[d] \in Namespaces /\ advertisers[ns[d]] \in Advertiser \cup {None}
      BY Zenon DEF ExchangeInv, TypeOK
    <2>3. advertisers[ns[d]].deadline <= Tick + Timeout
      BY <2>1, <2>2, Zenon DEF DeadlineOK
    <2>4. advertisers[ns[d]].deadline \in Int
      BY <2>1, <2>2, Zenon DEF Advertiser
    <2>5. Due(d) \in Int /\ Tick + Timeout \in Int
      BY DueNat
    <2>. QED
      BY <2>1, <2>3, <2>4, <2>5, Earlier, Zenon
  <1>6. \A d \in Callers : Holds(d)' => Held(d)' \in Gossipers
    BY <1>2, <1>3, Zenon DEF ShareOK
  <1>7. \A d \in Callers : Holds(d)' /\ ns[d] = f.ns => Held(d)' = h
    BY <1>2, <1>3, <1>4, Zenon
  <1>8. \A d \in Callers : Holds(d)' /\ ns[d] = f.ns => Due(d)' <= Tick + Timeout
    <2>1. Due(c)' <= Tick + Timeout
      BY <1>3
    <2>. QED
      BY <1>2, <1>5, <2>1, Zenon
  <1>9. \A d \in Callers : Holds(d)' /\ ns[d] # f.ns =>
           /\ d # c /\ Holds(d) /\ ns[d] \in Namespaces
           /\ advertisers'[ns[d]] = advertisers[ns[d]]
    BY <1>1, <1>2, Zenon DEF ExchangeInv, TypeOK
  <1>10. \A d \in Callers : Holds(d)' =>
           /\ advertisers'[ns[d]] # None
           /\ advertisers'[ns[d]].gossiper = Held(d)'
           /\ advertisers'[ns[d]].deadline >= Due(d)'
    <2>. TAKE d \in Callers
    <2>1. CASE ns[d] = f.ns
      <3>1. h = advertisers'[f.ns].gossiper /\ Tick + Timeout = advertisers'[f.ns].deadline
        BY <1>1
      <3>2. advertisers'[f.ns] # None
        BY <1>1 DEF Advertiser
      <3>. QED
        BY <2>1, <3>1, <3>2, <1>7, <1>8, Zenon
    <2>2. CASE ns[d] # f.ns
      <3>1. Holds(d)' => /\ Holds(d) /\ Held(d)' = Held(d) /\ Due(d)' = Due(d)
                         /\ advertisers'[ns[d]] = advertisers[ns[d]]
        BY <1>2, <1>9, <2>2, Zenon
      <3>2. ~done
        BY Zenon DEF done
      <3>. QED
        BY <3>1, <3>2, Zenon DEF ShareOK
    <2>. QED
      BY <2>1, <2>2, Zenon
  <1>11. \A d, e \in Callers : Holds(d)' /\ Holds(e)' /\ ns[d] = ns[e] => Held(e)' = Held(d)'
    <2>. SUFFICES ASSUME NEW d \in Callers, NEW e \in Callers, Holds(d)', Holds(e)', ns[d] = ns[e]
                  PROVE  Held(e)' = Held(d)'
      BY Zenon
    <2>1. CASE ns[d] = f.ns
      BY <1>7, <2>1, Zenon
    <2>2. CASE ns[d] # f.ns
      <3>1. /\ Holds(d) /\ Holds(e) /\ Held(d)' = Held(d) /\ Held(e)' = Held(e)
        BY <1>2, <1>9, <2>2, Zenon
      <3>. QED
        BY <3>1, Zenon DEF ShareOK
    <2>. QED
      BY <2>1, <2>2, Zenon
  <1>. QED
    BY <1>6, <1>10, <1>11, Zenon DEF ShareOK

\* So the loop keeps the invariant when it runs a thunk.
LEMMA ThunkKeeps == IInv /\ runThunk => IInv'
  <1>. SUFFICES ASSUME IInv, runThunk PROVE IInv'
    BY Zenon
  <1>. USE ConstantsOK DEF IInv
  <1>. DEFINE f == Head(thunk)
  <1>1. f \in Thunk /\ thunk # <<>>
    BY QueueHead, Zenon DEF runThunk, ExchangeInv, TypeOK
  <1>0. /\ loop = "select" /\ thunk' = <<>>
        /\ UNCHANGED <<closed, loop, pc, op, ns, g, until, left, cancelled, tvars, calls>>
    BY Zenon DEF runThunk
  <1>2. CASE f.op = "FindPeers"
    <2>1. lookup(f)
      BY <1>2, Zenon DEF runThunk
    <2>. QED
      BY <1>0, <1>1, <1>2, <2>1, lookupKeeps, Zenon
  <1>3. CASE f.op # "FindPeers"
    <2>1. PICK h \in Gossipers : advertise(f, h)
      BY <1>3, Zenon DEF runThunk
    <2>2. PICK c \in Callers :
              /\ c = f.by /\ f.ns \in Namespaces
              /\ pc[c] = "reply" /\ ch[c] = None /\ ns[c] = f.ns
              /\ op[c] # "FindPeers"
      BY <1>1, <1>3, Zenon DEF ThunkOK, Thunk
    <2>3. ExchangeInv'
      BY <1>0, <1>1, <2>1, <2>2, advertiseInStep, Zenon
    <2>4. OneTracker'
      BY <1>0, Zenon DEF tvars, OneTracker
    <2>5. ThunkOK'
      BY <1>0, Zenon DEF ThunkOK
    <2>6. CallOK'
      <3>1. /\ ch'[c] = h
            /\ \A d \in Callers : d # c => ch'[d] = ch[d]
        BY <2>1, <2>2 DEF advertise, ExchangeInv, TypeOK
      <3>. QED
        BY <1>0, <2>2, <3>1, Zenon DEF CallOK
    <2>7. ShareOK'
      BY <1>0, <1>1, <2>1, <2>2, advertiseShares, Zenon
    <2>8. DeadlineOK'
      <3>1. \A n \in Namespaces :
               advertisers'[n].deadline = Tick + Timeout \/ advertisers'[n] = advertisers[n]
        <4>1. /\ DOMAIN advertisers = Namespaces
              /\ advertisers' = [advertisers EXCEPT ![f.ns] = ResetTTL(h)]
          BY <2>1, Zenon DEF advertise, ExchangeInv, TypeOK
        <4>. QED
          BY <4>1, Zenon DEF ResetTTL
      <3>2. Tick + Timeout <= Tick + Timeout
        OBVIOUS
      <3>. QED
        BY <3>1, <3>2, Zenon DEF DeadlineOK
    <2>. QED
      BY <2>3, <2>4, <2>5, <2>6, <2>7, <2>8, Zenon
  <1>. QED
    BY <1>2, <1>3, Zenon
-----------------------------------------------------------------------------

\* So do a caller's steps.
LEMMA CallKeeps ==
    ASSUME NEW c \in Callers, IInv, NEW o \in Ops, NEW n \in Namespaces, NEW k \in 0..MaxPeers,
           Call(c, o, n, k)
    PROVE  IInv'
  <1>. USE ConstantsOK DEF IInv
  <1>1. ExchangeInv'
    <2>1. pc' \in [Callers -> {"idle", "send", "reply", "round", "boot", "peers"}]
      BY Zenon DEF Call, ExchangeInv, TypeOK
    <2>2. op' \in [Callers -> Ops \cup {None}] /\ ns' \in [Callers -> Namespaces]
      BY Zenon DEF Call, ExchangeInv, TypeOK
    <2>3. left' \in [Callers -> Nat] /\ calls' \in 0..MaxCalls
      BY DEF Call, ExchangeInv, TypeOK
    <2>. QED
      BY <2>1, <2>2, <2>3, Zenon DEF Call, tvars, ExchangeInv, TypeOK
  <1>2. OneTracker'
    BY Zenon DEF Call, tvars, OneTracker
  <1>3. ThunkOK'
    BY DEF Call, ThunkOK, Thunk, ExchangeInv, TypeOK
  <1>4. CallOK'
    BY DEF Call, CallOK, ExchangeInv, TypeOK, Ops
  <1>5. ShareOK'
    <2>1. ~Holds(c)'
      BY Zenon DEF Call, Holds, Pending, Gossiping, ExchangeInv, TypeOK
    <2>2. \A d \in Callers : d # c => /\ Holds(d)' <=> Holds(d)
                                      /\ Held(d)' = Held(d) /\ Due(d)' = Due(d)
                                      /\ ns'[d] = ns[d]
      BY CallerFrame, Zenon DEF Call, ExchangeInv, TypeOK
    <2>. QED
      BY <2>1, <2>2, ShareKept, Zenon DEF Call, done
  <1>6. DeadlineOK'
    BY Zenon DEF Call, cvars, DeadlineOK
  <1>. QED
    BY <1>1, <1>2, <1>3, <1>4, <1>5, <1>6, Zenon DEF IInv

\* The context of a call ends.
LEMMA CtxDoneKeeps ==
    ASSUME NEW c \in Callers, IInv, CtxDone(c)
    PROVE  IInv'
  <1>. USE ConstantsOK DEF IInv
  <1>1. ExchangeInv'
    BY Zenon DEF CtxDone, ExchangeInv, TypeOK
  <1>2. OneTracker'
    BY Zenon DEF CtxDone, OneTracker
  <1>3. ThunkOK'
    BY Zenon DEF CtxDone, ThunkOK
  <1>4. CallOK'
    BY Zenon DEF CtxDone, CallOK
  <1>5. ShareOK'
    <2>1. \A d \in Callers : /\ Holds(d)' <=> Holds(d)
                             /\ Held(d)' = Held(d) /\ Due(d)' = Due(d)
      BY CallerFrame, Zenon DEF CtxDone
    <2>2. UNCHANGED <<advertisers, loop, ns>> /\ (done' <=> done)
      BY Zenon DEF CtxDone, done
    <2>. QED
      BY <2>1, <2>2, ShareKept, Zenon
  <1>6. DeadlineOK'
    BY Zenon DEF CtxDone, cvars, DeadlineOK
  <1>. QED
    BY <1>1, <1>2, <1>3, <1>4, <1>5, <1>6, Zenon DEF IInv

\* A call hands its thunk to the loop.
LEMMA sendThunkKeeps ==
    ASSUME NEW c \in Callers, IInv, sendThunk(c)
    PROVE  IInv'
  <1>. USE ConstantsOK DEF IInv
  <1>1. ExchangeInv'
    <2>1. pc' \in [Callers -> {"idle", "send", "reply", "round", "boot", "peers"}]
      BY Zenon DEF sendThunk, ExchangeInv, TypeOK
    <2>2. [by |-> c, op |-> op[c], ns |-> ns[c]] \in Thunk
      BY Zenon DEF sendThunk, CallOK, Thunk, ExchangeInv, TypeOK
    <2>3. thunk' \in Queue
      BY <2>2, Zenon DEF sendThunk, Queue
    <2>. QED
      BY <2>1, <2>3, Zenon DEF sendThunk, tvars, ExchangeInv, TypeOK
  <1>2. OneTracker'
    BY Zenon DEF sendThunk, tvars, OneTracker
  <1>3. ThunkOK'
    <2>1. Head(thunk') = [by |-> c, op |-> op[c], ns |-> ns[c]]
      BY DEF sendThunk
    <2>2. pc'[c] = "reply" /\ ch'[c] = None /\ op'[c] = op[c] /\ ns'[c] = ns[c]
      BY Zenon DEF sendThunk, ExchangeInv, TypeOK, CallOK
    <2>. QED
      BY <2>1, <2>2 DEF ThunkOK
  <1>4. CallOK'
    <2>1. \A d \in Callers : pc'[d] = IF d = c THEN "reply" ELSE pc[d]
      BY Zenon DEF sendThunk, ExchangeInv, TypeOK
    <2>2. op' = op /\ ch' = ch /\ left' = left
      BY Zenon DEF sendThunk
    <2>3. pc[c] = "send"
      BY Zenon DEF sendThunk
    <2>. QED
      BY <2>1, <2>2, <2>3, Zenon DEF CallOK
  <1>5. ShareOK'
    <2>1. ~Holds(c)'
      BY Zenon DEF sendThunk, Holds, Pending, Gossiping, ExchangeInv, TypeOK, CallOK
    <2>2. \A d \in Callers : d # c => /\ Holds(d)' <=> Holds(d)
                                      /\ Held(d)' = Held(d) /\ Due(d)' = Due(d)
                                      /\ ns'[d] = ns[d]
      BY CallerFrame, Zenon DEF sendThunk, ExchangeInv, TypeOK
    <2>. QED
      BY <2>1, <2>2, ShareKept, Zenon DEF sendThunk, done
  <1>6. DeadlineOK'
    BY Zenon DEF sendThunk, cvars, DeadlineOK
  <1>. QED
    BY <1>1, <1>2, <1>3, <1>4, <1>5, <1>6, Zenon DEF IInv

\* Advertise or Bootstrap gets its gossiper, whose life covers the rounds.
LEMMA gotGossiperKeeps ==
    ASSUME NEW c \in Callers, IInv, gotGossiper(c)
    PROVE  IInv'
  <1>. USE ConstantsOK DEF IInv
  <1>1. ExchangeInv'
    <2>1. /\ pc' \in [Callers -> {"idle", "send", "reply", "round", "boot", "peers"}]
          /\ op' \in [Callers -> Ops \cup {None}]
      BY Zenon DEF gotGossiper, ExchangeInv, TypeOK
    <2>2. /\ ch' \in [Callers -> Gossipers \cup {None, "nil"}]
          /\ g' \in [Callers -> Gossipers \cup {None}]
      BY Zenon DEF gotGossiper, CallOK, ExchangeInv, TypeOK
    <2>3. until' \in [Callers -> Nat] /\ left' \in [Callers -> Nat]
      BY DEF gotGossiper, ExchangeInv, TypeOK
    <2>. QED
      BY <2>1, <2>2, <2>3, Zenon DEF gotGossiper, tvars, ExchangeInv, TypeOK
  <1>2. OneTracker'
    BY Zenon DEF gotGossiper, tvars, OneTracker
  <1>3. ThunkOK'
    <2>1. thunk' = thunk /\ (thunk # <<>> => Head(thunk) \in Thunk)
      BY QueueHead, Zenon DEF gotGossiper, ExchangeInv, TypeOK
    <2>2. \A d \in Callers : ch[d] = None => /\ pc'[d] = pc[d] /\ ch'[d] = ch[d]
                                            /\ op'[d] = op[d] /\ ns'[d] = ns[d]
      BY Zenon DEF gotGossiper, ExchangeInv, TypeOK
    <2>. QED
      BY <2>1, <2>2, Zenon DEF ThunkOK, Thunk
  <1>4. CallOK'
    <2>1. \A d \in Callers : d # c =>
            pc'[d] = pc[d] /\ ch'[d] = ch[d] /\ left'[d] = left[d]
      BY Zenon DEF gotGossiper, ExchangeInv, TypeOK
    <2>2. pc'[c] = "round" /\ ch'[c] = None /\ op' = op /\ pc[c] = "reply"
      BY Zenon DEF gotGossiper, ExchangeInv, TypeOK
    <2>3. left'[c] = (IF left[c] > 0 THEN left[c] - 1 ELSE 0) /\ left[c] \in Nat
      BY Zenon DEF gotGossiper, ExchangeInv, TypeOK
    <2>. QED
      BY <2>1, <2>2, <2>3 DEF CallOK
  <1>5. ShareOK'
    <2>1. Timeout + Budget(left'[c]) <= Tick + Timeout
      <3>1. CASE left[c] > 0
        <4>1. left[c] \in 1..MaxPeers /\ left'[c] = left[c] - 1
          BY <3>1 DEF gotGossiper, CallOK, ExchangeInv, TypeOK
        <4>2. Budget(left[c] - 1) + Timeout = Budget(left[c]) /\ Budget(left[c] - 1) \in Nat
          BY <4>1, Rounds, SMTT(30)
        <4>3. Budget(left[c]) <= Tick + Timeout
          BY <4>1, Rounds, SMTT(30)
        <4>. QED
          BY <4>1, <4>2, <4>3
      <3>2. CASE left[c] = 0
        BY <3>2, Rounds DEF gotGossiper, ExchangeInv, TypeOK
      <3>. QED
        BY <3>1, <3>2 DEF ExchangeInv, TypeOK
    <2>2. Budget(left'[c]) \in Nat
      BY Rounds, <1>1, Zenon DEF ExchangeInv, TypeOK
    <2>3. Due(c)' <= Due(c)
      BY <2>1, <2>2, DueNext, Zenon DEF gotGossiper, Due, Pending, ExchangeInv, TypeOK
    <2>5. \A d \in Callers : Holds(d)' =>
             Holds(d) /\ Held(d)' = Held(d) /\ ns'[d] = ns[d]
      BY Zenon DEF gotGossiper, Holds, Held, Pending, Gossiping, ExchangeInv, TypeOK
    <2>6. \A d \in Callers : d # c => Due(d)' = Due(d)
      BY CallerFrame, Zenon DEF gotGossiper, ExchangeInv, TypeOK
    <2>7. Due(c) \in Int /\ Due(c)' \in Int
      BY <1>1, DueNat, DueNatNext
    <2>8. \A d \in Callers : advertisers[ns[d]] # None /\ advertisers[ns[d]].deadline >= Due(d)
             => advertisers[ns[d]].deadline >= Due(d)'
      BY <2>3, <2>6, <2>7, DeadlineKept, Zenon
    <2>9. UNCHANGED <<advertisers, loop>> /\ (done' <=> done)
      BY Zenon DEF gotGossiper, done
    <2>. QED
      BY <2>5, <2>8, <2>9, ShareKept, Zenon
  <1>6. DeadlineOK'
    BY Zenon DEF gotGossiper, cvars, DeadlineOK
  <1>. QED
    BY <1>1, <1>2, <1>3, <1>4, <1>5, <1>6, Zenon DEF IInv

\* FindPeers gets its answer.
LEMMA gotCacheKeeps ==
    ASSUME NEW c \in Callers, IInv, gotCache(c)
    PROVE  IInv'
  <1>. USE ConstantsOK DEF IInv
  <1>1. ExchangeInv'
    BY Zenon DEF gotCache, tvars, ExchangeInv, TypeOK
  <1>2. OneTracker'
    BY Zenon DEF gotCache, tvars, OneTracker
  <1>3. ThunkOK'
    <2>1. thunk' = thunk /\ (thunk # <<>> => Head(thunk) \in Thunk)
      BY QueueHead, Zenon DEF gotCache, ExchangeInv, TypeOK
    <2>2. \A d \in Callers : ch[d] = None => /\ pc'[d] = pc[d] /\ ch'[d] = ch[d]
                                            /\ op'[d] = op[d] /\ ns'[d] = ns[d]
      BY Zenon DEF gotCache, ExchangeInv, TypeOK
    <2>. QED
      BY <2>1, <2>2, Zenon DEF ThunkOK, Thunk
  <1>4. CallOK'
    <2>1. \A d \in Callers : d # c => pc'[d] = pc[d] /\ ch'[d] = ch[d]
      BY Zenon DEF gotCache, ExchangeInv, TypeOK
    <2>2. /\ pc'[c] = "round" /\ ch'[c] = None /\ pc[c] = "reply"
          /\ op' = op /\ left' = left
      BY Zenon DEF gotCache, ExchangeInv, TypeOK
    <2>. QED
      BY <2>1, <2>2, Zenon DEF CallOK
  <1>5. ShareOK'
    <2>1. ~Holds(c)'
      BY Zenon DEF gotCache, Holds, Pending, Gossiping, ExchangeInv, TypeOK
    <2>2. \A d \in Callers : d # c => /\ Holds(d)' <=> Holds(d)
                                      /\ Held(d)' = Held(d) /\ Due(d)' = Due(d)
                                      /\ ns'[d] = ns[d]
      BY CallerFrame, Zenon DEF gotCache, ExchangeInv, TypeOK
    <2>. QED
      BY <2>1, <2>2, ShareKept, Zenon DEF gotCache, done
  <1>6. DeadlineOK'
    BY Zenon DEF gotCache, cvars, DeadlineOK
  <1>. QED
    BY <1>1, <1>2, <1>3, <1>4, <1>5, <1>6, Zenon DEF IInv

\* A round ends; the rest needs less time.
LEMMA nextRoundKeeps ==
    ASSUME NEW c \in Callers, IInv, nextRound(c)
    PROVE  IInv'
  <1>. USE ConstantsOK DEF IInv
  <1>1. ExchangeInv'
    <2>1. until' \in [Callers -> Nat] /\ left' \in [Callers -> Nat]
      BY DEF nextRound, ExchangeInv, TypeOK
    <2>. QED
      BY <2>1, Zenon DEF nextRound, tvars, ExchangeInv, TypeOK
  <1>2. OneTracker'
    BY Zenon DEF nextRound, tvars, OneTracker
  <1>3. ThunkOK'
    BY Zenon DEF nextRound, ThunkOK, Thunk, ExchangeInv, TypeOK
  <1>4. CallOK'
    BY DEF nextRound, CallOK, ExchangeInv, TypeOK
  <1>5. ShareOK'
    <2>0. left[c] \in Nat \ {0} /\ left[c] - 1 \in Nat
      BY DEF nextRound, ExchangeInv, TypeOK
    <2>1. Budget(left[c] - 1) + Timeout = Budget(left[c]) /\ Budget(left[c]) \in Nat
      BY <2>0, Rounds, Zenon
    <2>2. until[c] \in Nat
      BY Zenon DEF ExchangeInv, TypeOK
    <2>3. Due(c)' = Budget(left[c])
      <3>1. pc'[c] # "reply" /\ until'[c] = Timeout /\ left'[c] = left[c] - 1
        BY Zenon DEF nextRound, ExchangeInv, TypeOK
      <3>2. Budget(left[c] - 1) \in Nat
        BY <2>0, Rounds, Zenon
      <3>3. Due(c)' = Timeout + Budget(left[c] - 1)
        BY <3>1, DueNext, Zenon DEF Pending
      <3>. QED
        BY <2>1, <3>2, <3>3, ConstantsOK
    <2>4. Due(c)' <= Due(c) /\ Due(c) \in Int
      <3>1. Due(c) = until[c] + Budget(left[c])
        BY Zenon DEF nextRound, Due, Pending
      <3>. QED
        BY <2>1, <2>2, <2>3, <3>1
    <2>5. \A d \in Callers : Holds(d)' =>
             Holds(d) /\ Held(d)' = Held(d) /\ ns'[d] = ns[d]
      BY Zenon DEF nextRound, Holds, Held, Pending, Gossiping, ExchangeInv, TypeOK
    <2>6. \A d \in Callers : d # c => Due(d)' = Due(d)
      BY CallerFrame, Zenon DEF nextRound, ExchangeInv, TypeOK
    <2>7. Due(c) \in Int /\ Due(c)' \in Int
      BY <1>1, DueNat, DueNatNext
    <2>8. \A d \in Callers : advertisers[ns[d]] # None /\ advertisers[ns[d]].deadline >= Due(d)
             => advertisers[ns[d]].deadline >= Due(d)'
      BY <2>4, <2>6, <2>7, DeadlineKept, Zenon
    <2>9. UNCHANGED <<advertisers, loop>> /\ (done' <=> done)
      BY Zenon DEF nextRound, done
    <2>. QED
      BY <2>5, <2>8, <2>9, ShareKept, Zenon
  <1>6. DeadlineOK'
    BY Zenon DEF nextRound, cvars, DeadlineOK
  <1>. QED
    BY <1>1, <1>2, <1>3, <1>4, <1>5, <1>6, Zenon DEF IInv

\* A tracker is started, unless the namespace has one.
LEMMA startTrackingKeeps ==
    ASSUME NEW c \in Callers, IInv, startTracking(c)
    PROVE  IInv'
  <1>. USE ConstantsOK DEF IInv
  <1>0. /\ pc[c] = "boot" /\ pc' = [pc EXCEPT ![c] = "peers"]
        /\ UNCHANGED <<closed, loop, advertisers, handlers, thunk, op, ns, ch, g, until,
                       left, cancelled, calls>>
    BY Zenon DEF startTracking
  <1>1. ExchangeInv'
    <2>0. <<c, ns[c]>> \in Trackers
      BY Zenon DEF Trackers, ExchangeInv, TypeOK
    <2>1. /\ advertising' \in [Namespaces -> Callers \cup {None}]
          /\ tpc' \in [Trackers -> {"none", "run", "end"}]
          /\ tdone' \subseteq Trackers
      <3>1. CASE advertising[ns[c]] = None
        <4>1. /\ advertising' = [advertising EXCEPT ![ns[c]] = c]
              /\ tpc' = [tpc EXCEPT ![<<c, ns[c]>>] = "run"]
              /\ tdone' \subseteq tdone \cup {<<c, ns[c]>>}
          BY <3>1, Zenon DEF startTracking
        <4>. QED
          BY <2>0, <4>1, ZenonT(30) DEF ExchangeInv, TypeOK
      <3>2. CASE advertising[ns[c]] # None
        <4>1. UNCHANGED tvars
          BY <3>2, Zenon DEF startTracking
        <4>. QED
          BY <4>1, Zenon DEF tvars, ExchangeInv, TypeOK
      <3>. QED
        BY <3>1, <3>2, Zenon
    <2>. QED
      BY <1>0, <2>1, Zenon DEF ExchangeInv, TypeOK
  <1>2. OneTracker'
    <2>1. CASE advertising[ns[c]] = None
      <3>1. /\ advertising' = [advertising EXCEPT ![ns[c]] = c]
            /\ tpc' = [tpc EXCEPT ![<<c, ns[c]>>] = "run"]
        BY <2>1, Zenon DEF startTracking
      <3>2. \A t \in Trackers : t # <<c, ns[c]>> /\ tpc[t] # "none" =>
               t[2] \in Namespaces /\ t[2] # ns[c]
        BY <2>1, Zenon DEF OneTracker, Trackers
      <3>3. ns[c] \in Namespaces /\ <<c, ns[c]>> \in Trackers
        BY Zenon DEF Trackers, ExchangeInv, TypeOK
      <3>. QED
        BY <3>1, <3>2, <3>3, SMTT(30) DEF OneTracker, ExchangeInv, TypeOK
    <2>2. CASE advertising[ns[c]] # None
      <3>1. UNCHANGED tvars
        BY <2>2, Zenon DEF startTracking
      <3>. QED
        BY <3>1, Zenon DEF tvars, OneTracker
    <2>. QED
      BY <2>1, <2>2, Zenon
  <1>3. ThunkOK'
    <2>1. thunk' = thunk /\ (thunk # <<>> => Head(thunk) \in Thunk)
      BY <1>0, QueueHead, Zenon DEF ExchangeInv, TypeOK
    <2>2. \A d \in Callers : pc[d] = "reply" => /\ pc'[d] = pc[d] /\ ch'[d] = ch[d]
                                               /\ op'[d] = op[d] /\ ns'[d] = ns[d]
      BY <1>0, Zenon DEF ExchangeInv, TypeOK
    <2>. QED
      BY <2>1, <2>2, Zenon DEF ThunkOK, Thunk
  <1>4. CallOK'
    BY <1>0, Zenon DEF CallOK, ExchangeInv, TypeOK
  <1>5. ShareOK'
    <2>1. \A d \in Callers : /\ Holds(d)' <=> Holds(d)
                             /\ Held(d)' = Held(d) /\ Due(d)' = Due(d)
      BY <1>0, DueNext, Zenon DEF Holds, Held, Due, Pending, Gossiping, ExchangeInv, TypeOK
    <2>. QED
      BY <1>0, <2>1, ShareKept, Zenon DEF done
  <1>6. DeadlineOK'
    BY <1>0, Zenon DEF DeadlineOK
  <1>. QED
    BY <1>1, <1>2, <1>3, <1>4, <1>5, <1>6, Zenon DEF IInv

\* So every step of a caller keeps the invariant.
LEMMA CallerKeeps ==
    ASSUME NEW c \in Callers, IInv,
           \/ \E o \in Ops, n \in Namespaces, k \in 0..MaxPeers : Call(c, o, n, k)
           \/ CtxDone(c) \/ sendThunk(c) \/ gotGossiper(c) \/ gotCache(c)
           \/ nextRound(c) \/ startTracking(c)
    PROVE  IInv'
  BY CallKeeps, CtxDoneKeeps, sendThunkKeeps, gotGossiperKeeps, gotCacheKeeps,
     nextRoundKeeps, startTrackingKeeps, Zenon

\* A return touches no other call.
LEMMA ReturnFrame ==
    ASSUME NEW c \in Callers, IInv, return(c), NEW d \in Callers \ {c}
    PROVE  /\ pc'[d] = pc[d] /\ op'[d] = op[d] /\ ns'[d] = ns[d] /\ ch'[d] = ch[d]
           /\ g'[d] = g[d] /\ until'[d] = until[d] /\ left'[d] = left[d]
  BY Zenon DEF return, IInv, ExchangeInv, TypeOK

\* So does a call's return, when no thunk waits for it any more.
LEMMA ReturnKeeps ==
    ASSUME NEW c \in Callers, IInv, return(c),
           thunk' \in Queue,
           ThunkOK'
    PROVE  IInv'
  <1>. USE ConstantsOK DEF IInv
  <1>1. ExchangeInv'
    <2>1. /\ pc' \in [Callers -> {"idle", "send", "reply", "round", "boot", "peers"}]
          /\ op' \in [Callers -> Ops \cup {None}]
      BY Zenon DEF return, ExchangeInv, TypeOK
    <2>2. /\ ch' \in [Callers -> Gossipers \cup {None, "nil"}]
          /\ g' \in [Callers -> Gossipers \cup {None}]
      BY Zenon DEF return, ExchangeInv, TypeOK
    <2>3. until' \in [Callers -> Nat] /\ left' \in [Callers -> Nat]
      BY Zenon DEF return, ExchangeInv, TypeOK
    <2>4. cancelled' \subseteq Callers /\ tdone' \subseteq Trackers
      BY Zenon DEF return, ExchangeInv, TypeOK
    <2>. QED
      BY <2>1, <2>2, <2>3, <2>4, Zenon DEF return, ExchangeInv, TypeOK
  <1>2. OneTracker'
    BY Zenon DEF return, OneTracker
  <1>3. CallOK'
    <2>1. pc'[c] = "idle" /\ op'[c] = None /\ ch'[c] = None /\ left'[c] = 0
      BY DEF return, ExchangeInv, TypeOK
    <2>. QED
      BY <2>1, ReturnFrame DEF CallOK
  <1>4. ShareOK'
    <2>1. \A d \in Callers : Holds(d)' => d # c
      BY Zenon DEF return, Holds, Pending, Gossiping, ExchangeInv, TypeOK
    <2>2. \A d \in Callers : d # c => /\ (Holds(d)' <=> Holds(d)) /\ Held(d)' = Held(d)
                                      /\ Due(d)' = Due(d)
      BY ReturnFrame, CallerFrame, Zenon
    <2>. QED
      BY <2>1, <2>2, ShareKept, Zenon DEF return, done
  <1>5. DeadlineOK'
    BY Zenon DEF return, DeadlineOK
  <1>. QED
    BY <1>1, <1>2, <1>3, <1>4, <1>5, Zenon

\* It waits for nobody when the call was not, or no longer, waiting for it,
LEMMA PlainReturnKeeps ==
    ASSUME NEW c \in Callers, IInv, return(c), UNCHANGED thunk,
           pc[c] # "reply" \/ ch[c] # None
    PROVE  IInv'
  <1>1. ThunkOK'
    <2>. SUFFICES ASSUME thunk # <<>> PROVE ThunkOK'
      BY Zenon DEF ThunkOK
    <2>. DEFINE f == Head(thunk)
    <2>1. f \in Thunk
      BY QueueHead, Zenon DEF IInv, ExchangeInv, TypeOK
    <2>2. /\ f.by = None => f.op = "FindPeers"
          /\ f.by # None => /\ f.by \in Callers \ {c}
                            /\ pc[f.by] = "reply" /\ ch[f.by] = None
                            /\ op[f.by] = f.op /\ ns[f.by] = f.ns
      BY <2>1, Zenon DEF ThunkOK, Thunk, IInv
    <2>. QED
      BY <2>2, ReturnFrame, Zenon DEF ThunkOK
  <1>2. thunk' \in Queue
    BY Zenon DEF IInv, ExchangeInv, TypeOK
  <1>. QED
    BY <1>1, <1>2, ReturnKeeps, Zenon

\* and when the call gave the reply up.
LEMMA replyGivesUpKeeps ==
    ASSUME NEW c \in Callers, IInv, replyGivesUp(c) PROVE IInv'
  <1>. USE ConstantsOK
  <1>0. return(c)
    BY Zenon DEF replyGivesUp
  <1>1. CASE thunk = <<>>
    <2>1. thunk' = <<>>
      BY <1>1 DEF replyGivesUp
    <2>2. ThunkOK'
      BY <2>1, Zenon DEF ThunkOK
    <2>3. thunk' \in Queue
      BY <2>1, Zenon DEF Queue
    <2>. QED
      BY <1>0, <2>2, <2>3, ReturnKeeps, Zenon
  <1>2. CASE thunk # <<>>
    <2>1. PICK e \in Thunk : thunk = <<e>>
      BY <1>2, Zenon DEF IInv, ExchangeInv, TypeOK, Queue
    <2>. DEFINE e2 == IF e.by = c THEN [e EXCEPT !.by = None] ELSE e
    <2>2. thunk' = <<e2>>
      BY <2>1 DEF replyGivesUp
    <2>3. e2 \in Thunk
      BY Zenon DEF Thunk
    <2>4. /\ e2.by = None => e2.op = "FindPeers"
          /\ e2.by # None => /\ e2.by \in Callers \ {c}
                             /\ pc[e2.by] = "reply" /\ ch[e2.by] = None
                             /\ op[e2.by] = e2.op /\ ns[e2.by] = e2.ns
      BY <2>1 DEF ThunkOK, Thunk, IInv, replyGivesUp
    <2>6. ThunkOK'
      <3>1. Head(thunk') = e2
        BY <2>2
      <3>. HIDE DEF e2
      <3>. QED
        BY <1>0, <2>4, <3>1, ReturnFrame, Zenon DEF ThunkOK
    <2>5. thunk' \in Queue
      BY <2>2, <2>3, Zenon DEF Queue
    <2>. QED
      BY <1>0, <2>5, <2>6, ReturnKeeps, Zenon
  <1>. QED
    BY <1>1, <1>2, Zenon

\* FindPeers goes on to the discovery service when it has no peer left.
LEMMA noMorePeersKeeps ==
    ASSUME NEW c \in Callers, IInv, noMorePeers(c) PROVE IInv'
  <1>1. CASE op[c] = "Bootstrap"
    BY <1>1, PlainReturnKeeps, Zenon DEF noMorePeers
  <1>2. CASE op[c] # "Bootstrap"
    <2>1. /\ pc[c] = "round" /\ pc' = [pc EXCEPT ![c] = "boot"]
          /\ UNCHANGED <<closed, loop, advertisers, handlers, thunk, op, ns, ch, g,
                         until, left, cancelled, tvars, calls>>
      BY <1>2, Zenon DEF noMorePeers
    <2>. USE <2>1 DEF IInv
    <2>2. ExchangeInv'
      BY Zenon DEF tvars, ExchangeInv, TypeOK
    <2>3. OneTracker' /\ DeadlineOK'
      BY Zenon DEF tvars, OneTracker, DeadlineOK
    <2>4. ThunkOK'
      <3>1. \A d \in Callers : pc[d] = "reply" => pc'[d] = "reply"
        BY Zenon DEF ExchangeInv, TypeOK
      <3>2. thunk # <<>> => Head(thunk) \in Thunk
        BY QueueHead, Zenon DEF ExchangeInv, TypeOK
      <3>. QED
        BY <3>1, <3>2, Zenon DEF ThunkOK, Thunk
    <2>5. CallOK'
      BY Zenon DEF CallOK, ExchangeInv, TypeOK
    <2>6. ShareOK'
      <3>1. \A d \in Callers : /\ Holds(d)' = Holds(d) /\ Held(d)' = Held(d)
                               /\ Due(d)' = Due(d)
        BY DueNext, Zenon DEF Holds, Held, Due, Pending, Gossiping, ExchangeInv, TypeOK
      <3>. QED
        BY <3>1, ShareKept, Zenon DEF done
    <2>. QED
      BY <2>2, <2>3, <2>4, <2>5, <2>6, Zenon
  <1>. QED
    BY <1>1, <1>2, Zenon

\* So do the steps that end a call, or send it on to the discovery service.
LEMMA EndKeeps ==
    ASSUME NEW c \in Callers, IInv,
           \/ sendGivesUp(c) \/ noPeers(c) \/ notFound(c) \/ replyGivesUp(c)
           \/ roundOK(c) \/ noMorePeers(c) \/ peersEnd(c) \/ findClosed(c)
    PROVE  IInv'
  <1>1. ASSUME sendGivesUp(c) \/ noPeers(c) PROVE IInv'
    BY <1>1, PlainReturnKeeps, Zenon DEF sendGivesUp, noPeers
  <1>4. ASSUME notFound(c) PROVE IInv'
    <2>1. ch[c] # None
      BY <1>4, ConstantsOK, Zenon DEF notFound
    <2>. QED
      BY <1>4, <2>1, PlainReturnKeeps, Zenon DEF notFound
  <1>2. ASSUME roundOK(c) PROVE IInv'
    BY <1>2, PlainReturnKeeps, Zenon DEF roundOK, Gossiping
  <1>3. ASSUME peersEnd(c) \/ findClosed(c) PROVE IInv'
    BY <1>3, PlainReturnKeeps, Zenon DEF peersEnd, findClosed
  <1>. QED
    BY <1>1, <1>2, <1>3, <1>4, replyGivesUpKeeps, noMorePeersKeeps, Zenon
-----------------------------------------------------------------------------
\* The invariant is inductive.
LEMMA Inductive == Spec => []IInv
  <1>1. Init => IInv
    BY Initially, Zenon
  <1>2. IInv /\ [Next]_vars => IInv'
    <2>. SUFFICES ASSUME IInv, [Next]_vars PROVE IInv'
      BY Zenon
    <2>1. CASE UNCHANGED vars
      <3>. USE <2>1 DEF vars, IInv
      <3>1. ExchangeInv'
        BY Zenon DEF cvars, tvars, ExchangeInv, TypeOK
      <3>2. OneTracker' /\ DeadlineOK'
        BY Zenon DEF tvars, OneTracker, DeadlineOK
      <3>3. ThunkOK' /\ CallOK'
        BY Zenon DEF cvars, ThunkOK, CallOK
      <3>4. ShareOK'
        <4>1. \A d \in Callers : /\ Holds(d)' <=> Holds(d)
                                 /\ Held(d)' = Held(d) /\ Due(d)' = Due(d)
          BY CallerFrame, Zenon DEF cvars
        <4>. QED
          BY <4>1, ShareKept, Zenon DEF cvars, done
      <3>. QED
        BY <3>1, <3>2, <3>3, <3>4, Zenon
    <2>2. CASE expire \/ loopReturn \/ loopDefer \/ Close \/ Pass
      BY <2>2, LoopKeeps, Zenon
    <2>3. CASE runThunk
      BY <2>3, ThunkKeeps, Zenon
    <2>4. ASSUME NEW c \in Callers,
                 \/ \E o \in Ops, n \in Namespaces, k \in 0..MaxPeers : Call(c, o, n, k)
                 \/ CtxDone(c) \/ CallStep(c)
                 \/ roundOK(c) \/ nextRound(c) \/ noMorePeers(c)
                 \/ startTracking(c) \/ peersEnd(c) \/ findClosed(c)
          PROVE  IInv'
      BY <2>4, CallerKeeps, EndKeeps, Zenon DEF CallStep
    <2>5. ASSUME NEW t \in Trackers, tDone(t) \/ tEnd(t)
          PROVE  IInv'
      BY <2>5, TrackerKeeps, Zenon
    <2>. QED
      BY <2>1, <2>2, <2>3, <2>4, <2>5, Zenon DEF Next
  <1>. QED
    BY <1>1, <1>2, PTL DEF Spec

\* The advertisers and the stream handlers of the exchange are kept in step,
\* whatever thunks, expiry and Close do.
THEOREM HandlersInStep == Spec => []ExchangeInv
  <1>1. IInv => ExchangeInv
    BY Zenon DEF IInv
  <1>. QED
    BY <1>1, Inductive, PTL

\* An advertiser outlives the rounds of the calls it was given to: callers in
\* one namespace gossip with one gossiper, which handles its streams.
THEOREM RoundsShare == Spec => []RoundsShareGossiper
  <1>1. IInv => RoundsShareGossiper
    <2>. SUFFICES ASSUME IInv PROVE RoundsShareGossiper
      BY Zenon
    <2>1. \A c \in Callers : Gossiping(c) => Holds(c) /\ Held(c) = g[c]
      BY Zenon DEF Holds, Held, Pending, Gossiping
    <2>2. \A c \in Callers : ns[c] \in Namespaces
      BY Zenon DEF IInv, ExchangeInv, TypeOK
    <2>. QED
      BY <2>1, <2>2, Zenon DEF IInv, ExchangeInv, ShareOK, RoundsShareGossiper
  <1>. QED
    BY <1>1, Inductive, PTL

\* However calls, StopTracking and trackers interleave, one tracker at most
\* advertises a namespace, and the entry of the namespace is its own.
THEOREM TracksOnce == Spec => []OneTracker
  <1>1. IInv => OneTracker
    BY Zenon DEF IInv
  <1>. QED
    BY <1>1, Inductive, PTL
=============================================================================
