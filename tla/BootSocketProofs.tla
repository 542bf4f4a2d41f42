-------------------------- MODULE BootSocketProofs --------------------------
(***************************************************************************)
(* Proofs about the bootstrap socket.                                      *)
(***************************************************************************)
EXTENDS BootSocket, TLAPS

\* The invariant holds of a new socket.
LEMMA InitInv == Init => SocketInv
<1> USE ConstantsOK
<1>1. ASSUME Init PROVE TypeOK
  <2>1. buf \in [Subs -> 0..BufSize]
    BY <1>1 DEF Init
  <2>2. release \in Seq(Subs)
    BY <1>1 DEF Init
  <2>3. limit \in [Subs -> Nat] /\ remaining \in [Subs -> Int] /\ sent \in [Subs -> Nat]
    BY <1>1 DEF Init
  <2> QED
    BY <1>1, <2>1, <2>2, <2>3, Zenon DEF Init, TypeOK
<1>2. Init => Registered /\ SetsOK /\ ServeOK /\ LimitOK /\ TicksOK
  BY DEF Init, Registered, SetsOK, ServeOK, LimitOK, TicksOK, AdvertFresh, Live
<1> QED
  BY <1>1, <1>2, Zenon DEF SocketInv

\* What a result does to the limiter of its subscription.
LEMMA SendLimited ==
  ASSUME NEW c \in Subs, Send(c), limit[c] # 0
  PROVE  /\ remaining' = [remaining EXCEPT ![c] = @ - 1]
         /\ sent' = [sent EXCEPT ![c] = @ + 1]
         /\ release' = IF remaining[c] = 1 THEN Append(release, c) ELSE release
<1>1. remaining' = [remaining EXCEPT ![c] = @ - 1]
  BY Zenon DEF Send
<1>2. sent' = [sent EXCEPT ![c] = @ + 1]
  BY Zenon DEF Send
<1>3. release' = IF remaining[c] = 1 THEN Append(release, c) ELSE release
  BY Zenon DEF Send
<1> QED
  BY <1>1, <1>2, <1>3, Zenon

\* A subscription without a limit counts nothing.
LEMMA SendUnlimited ==
  ASSUME NEW c \in Subs, Send(c), limit[c] = 0
  PROVE  remaining' = remaining /\ sent' = sent /\ release' = release
BY Zenon DEF Send

\* Send keeps the types of what it counts.
LEMMA SendTyped ==
  ASSUME TypeOK, NEW c \in Subs, Send(c)
  PROVE  remaining' \in [Subs -> Int] /\ sent' \in [Subs -> Nat] /\ release' \in Seq(Subs)
<1>1. CASE limit[c] = 0
  BY <1>1, SendUnlimited, Zenon DEF TypeOK
<1>2. CASE limit[c] # 0
  <2>1. remaining' \in [Subs -> Int]
    BY <1>2, SendLimited DEF TypeOK
  <2>2. sent' \in [Subs -> Nat]
    <3>1. sent' = [sent EXCEPT ![c] = @ + 1] /\ sent \in [Subs -> Nat]
      BY <1>2, SendLimited, Zenon DEF TypeOK
    <3> QED
      BY <3>1
  <2>3. release' \in Seq(Subs)
    <3>1. /\ release' = IF remaining[c] = 1 THEN Append(release, c) ELSE release
          /\ release \in Seq(Subs)
      BY <1>2, SendLimited, Zenon DEF TypeOK
    <3> QED
      BY <3>1
  <2> QED
    BY <2>1, <2>2, <2>3, Zenon
<1> QED
  BY <1>1, <1>2, Zenon

\* Every step keeps the types.
LEMMA TypeStep == TypeOK /\ ServeOK /\ SetsOK /\ [Next]_vars => TypeOK'
<1> USE ConstantsOK
<1> SUFFICES ASSUME TypeOK, ServeOK, SetsOK, [Next]_vars PROVE TypeOK'
  BY Zenon
<1>1. ASSUME NEW c \in Subs, CallerStep(c) PROVE TypeOK'
  <2>1. CASE SubscribeClosed(c)
    BY <2>1, Zenon DEF SubscribeClosed, TypeOK, setvars, advtvars, servevars, regvars, resvars
  <2>2. ASSUME NEW n \in Namespaces, NEW lim \in Limits, Subscribe(c, n, lim) PROVE TypeOK'
    <3> DEFINE set == IF subs[n] = None THEN c ELSE subs[n]
    <3>1. set \in Subs
      BY Zenon DEF TypeOK
    <3>2. members' \in [Subs -> SUBSET Subs] /\ subs' \in [Namespaces -> Subs \cup {None}]
      BY <2>2, <3>1 DEF Subscribe, TypeOK
    <3>3. lim \in Nat /\ lim \in Int
      OBVIOUS
    <3>4. limit' \in [Subs -> Nat] /\ remaining' \in [Subs -> Int]
      BY <2>2, <3>3, Zenon DEF Subscribe, TypeOK
    <3>5. ss' \in [Subs -> Subs \cup {None}]
      BY <2>2, <3>1, Zenon DEF Subscribe, TypeOK
    <3> QED
      BY <2>2, <3>2, <3>4, <3>5, Zenon DEF Subscribe, TypeOK, advtvars, servevars
  <2>3. CASE cancelRemove(c)
    <3>1. ns[c] \in Namespaces /\ ss[c] \in Subs
      BY <2>3, Zenon DEF cancelRemove, SetsOK, Live
    <3>2. members' \in [Subs -> SUBSET Subs]
      BY <2>3, <3>1, Zenon DEF cancelRemove, TypeOK
    <3>3. subs' \in [Namespaces -> Subs \cup {None}]
      BY <2>3, <3>1, Zenon DEF cancelRemove, TypeOK
    <3> QED
      BY <2>3, <3>2, <3>3, Zenon DEF cancelRemove, TypeOK, advtvars, servevars, regvars, resvars
  <2>4. CASE cancelClose(c)
    BY <2>4, Zenon DEF cancelClose, TypeOK, setvars, advtvars, servevars, regvars, resvars
  <2>5. CASE RequestFails(c)
    BY <2>5, Zenon DEF RequestFails, cancel, TypeOK, setvars, advtvars, servevars, regvars, resvars
  <2>6. CASE CtxDone(c)
    BY <2>6, Zenon DEF CtxDone, TypeOK, setvars, advtvars, servevars, regvars, resvars
  <2>7. CASE Watch(c)
    BY <2>7, Zenon DEF Watch, cancel, TypeOK, setvars, advtvars, servevars, regvars, resvars
  <2>8. CASE Receive(c)
    <3>1. buf' \in [Subs -> 0..BufSize]
      BY <2>8 DEF Receive, TypeOK
    <3> QED
      BY <2>8, <3>1, Zenon DEF Receive, TypeOK, setvars, advtvars, servevars, regvars
  <2> QED
    BY <1>1, <2>1, <2>2, <2>3, <2>4, <2>5, <2>6, <2>7, <2>8, Zenon DEF CallerStep
<1>2. CASE ServeStep
  <2> USE DEF TypeOK, setvars, advtvars, subvars, regvars, resvars
  <2>1. CASE ServeClose
    BY <2>1, Zenon DEF ServeClose
  <2>2. CASE Reject
    BY <2>2, Zenon DEF Reject, Fail
  <2>3. CASE Answer
    BY <2>3, Zenon DEF Answer
  <2>4. CASE dispatch
    BY <2>4, Zenon DEF dispatch, ServeOK, Packets
  <2>5. ASSUME NEW c \in Subs, Send(c) PROVE TypeOK'
    <3>1. buf' \in [Subs -> 0..BufSize]
      BY <2>5 DEF Send
    <3> QED
      BY <2>5, <3>1, SendTyped, Zenon DEF Send
  <2>6. ASSUME NEW c \in Subs, Drop(c) PROVE TypeOK'
    BY <2>6, Zenon DEF Drop
  <2>7. CASE dispatchUnlock
    BY <2>7, Zenon DEF dispatchUnlock
  <2>8. CASE releaseEnter
    BY <2>8, Zenon DEF releaseEnter, cancel, servevars
  <2>9. CASE releaseReturn
    <3>1. release' \in Seq(Subs)
      BY <2>9 DEF releaseReturn
    <3> QED
      BY <2>9, <3>1, Zenon DEF releaseReturn
  <2>10. CASE dispatchReturn
    BY <2>10, Zenon DEF dispatchReturn
  <2> QED
    BY <1>2, <2>1, <2>2, <2>3, <2>4, <2>5, <2>6, <2>7, <2>8, <2>9, <2>10, Zenon DEF ServeStep
<1>3. CASE tickloop
  BY <1>3, Zenon DEF tickloop, TypeOK, setvars, subvars, regvars, resvars, servevars
<1>4. CASE Environment
  <2> USE DEF TypeOK, setvars, advtvars, subvars, regvars, resvars
  <2>1. CASE Close
    BY <2>1, Zenon DEF Close, servevars
  <2>2. ASSUME NEW n \in Namespaces, NEW ttl \in TTLs, Track(n, ttl) PROVE TypeOK'
    BY <2>2 DEF Track, servevars
  <2>3. CASE Fire
    BY <2>3 DEF Fire, servevars
  <2>4. ASSUME NEW p \in Packets, Scan(p) PROVE TypeOK'
    BY <2>4, Zenon DEF Scan
  <2>5. ASSUME NEW fatal \in BOOLEAN, ScanFails(fatal) PROVE TypeOK'
    BY <2>5, Zenon DEF ScanFails, Fail
  <2>6. ASSUME NEW fatal \in BOOLEAN, AnswerFails(fatal) PROVE TypeOK'
    BY <2>6, Zenon DEF AnswerFails, Fail
  <2> QED
    BY <1>4, <2>1, <2>2, <2>3, <2>4, <2>5, <2>6, Zenon DEF Environment
<1>5. CASE UNCHANGED vars
  BY <1>5, Zenon DEF vars, TypeOK, setvars, advtvars, subvars, regvars, resvars, servevars
<1> QED
  BY <1>1, <1>2, <1>3, <1>4, <1>5, Zenon DEF Next

\* To enter cancel changes nobody who is live.
LEMMA CancelLive ==
  ASSUME TypeOK, NEW c \in Subs, cancel(c)
  PROVE  \A d \in Subs : Live(d)' = Live(d) /\ (st'[d] = "new" <=> st[d] = "new")
BY DEF TypeOK, cancel, Live

\* Every step but Subscribe, cancelRemove, cancelClose and SubscribeClosed.
LEMMA QuietStep ==
  ASSUME TypeOK, [Next]_vars,
         \A c \in Subs : ~ cancelRemove(c) /\ ~ cancelClose(c) /\ ~ SubscribeClosed(c),
         \A c \in Subs, n \in Namespaces, lim \in Limits : ~ Subscribe(c, n, lim)
  PROVE  /\ UNCHANGED <<subs, members, ns, ss, limit>>
         /\ UNCHANGED st \/ \E c \in Subs : cancel(c)
<1> USE DEF setvars, advtvars, subvars, regvars, resvars, servevars
<1> DEFINE Quiet == /\ UNCHANGED <<subs, members, ns, ss, limit>>
                    /\ UNCHANGED st \/ \E c \in Subs : cancel(c)
<1>1. ASSUME NEW c \in Subs, CallerStep(c) PROVE Quiet
  <2>1. RequestFails(c) \/ CtxDone(c) \/ Watch(c) \/ Receive(c)
    BY <1>1, Zenon DEF CallerStep
  <2> QED
    BY <2>1, Zenon DEF RequestFails, CtxDone, Watch, Receive
<1>2. CASE ServeStep
  <2>1. CASE releaseEnter
    <3>1. Head(release) \in Subs
      BY <2>1 DEF releaseEnter, TypeOK
    <3> QED
      BY <2>1, <3>1, Zenon DEF releaseEnter
  <2>2. ASSUME NEW c \in Subs, Send(c) \/ Drop(c) PROVE Quiet
    BY <2>2, Zenon DEF Send, Drop
  <2>3. CASE ServeClose \/ Reject \/ Answer \/ dispatch
    BY <2>3, Zenon DEF ServeClose, Reject, Answer, dispatch
  <2>4. CASE dispatchUnlock \/ releaseReturn \/ dispatchReturn
    BY <2>4, Zenon DEF dispatchUnlock, releaseReturn, dispatchReturn
  <2> QED
    BY <1>2, <2>1, <2>2, <2>3, <2>4, Zenon DEF ServeStep
<1>3. CASE tickloop
  BY <1>3, Zenon DEF tickloop
<1>4. CASE Environment
  BY <1>4, Zenon DEF Environment, Close, Track, Fire, Scan, ScanFails, AnswerFails
<1>5. CASE UNCHANGED vars
  BY <1>5, Zenon DEF vars
<1> QED
  BY <1>1, <1>2, <1>3, <1>4, <1>5, Zenon DEF Next

\* Every step keeps the map of namespaces and its sets in order.
LEMMA SetsStep == SocketInv /\ [Next]_vars => Registered' /\ SetsOK'
<1> SUFFICES ASSUME SocketInv, [Next]_vars PROVE Registered' /\ SetsOK'
  BY Zenon
<1> USE ConstantsOK DEF SocketInv
<1>1. ASSUME NEW c \in Subs, NEW n \in Namespaces, NEW lim \in Limits, Subscribe(c, n, lim)
      PROVE  Registered' /\ SetsOK'
  <2> DEFINE set == IF subs[n] = None THEN c ELSE subs[n]
  <2>1. /\ set \in Subs
        /\ subs' = [subs EXCEPT ![n] = set]
        /\ members' = [members EXCEPT ![set] = @ \cup {c}]
        /\ st' = [st EXCEPT ![c] = "open"]
        /\ ns' = [ns EXCEPT ![c] = n]
        /\ ss' = [ss EXCEPT ![c] = set]
        /\ st[c] = "new"
    BY <1>1, Zenon DEF Subscribe, TypeOK
  <2>2. ~ Live(c) /\ Live(c)' /\ \A d \in Subs \ {c} : Live(d)' = Live(d)
    BY <2>1, Zenon DEF Live, TypeOK
  <2> HIDE DEF set
  <2>3. \/ set = c /\ subs[n] = None /\ members[c] = {}
        \/ set = subs[n] /\ members[set] # {}
    <3>1. CASE subs[n] = None
      <4>1. members[c] = {}
        BY <2>1, Zenon DEF SetsOK
      <4>2. set = c
        BY <3>1, Zenon DEF set
      <4> QED
        BY <3>1, <4>1, <4>2, Zenon
    <3>2. CASE subs[n] # None
      BY <3>2, Zenon DEF set, SetsOK
    <3> QED
      BY <3>1, <3>2, Zenon
  <2>4. /\ subs'[n] = set /\ \A m \in Namespaces \ {n} : subs'[m] = subs[m]
        /\ members'[set] = members[set] \cup {c}
        /\ \A s \in Subs \ {set} : members'[s] = members[s]
        /\ ns'[c] = n /\ ss'[c] = set
        /\ \A d \in Subs \ {c} : ns'[d] = ns[d] /\ ss'[d] = ss[d] /\ st'[d] = st[d]
        /\ st'[c] = "open"
    BY <2>1 DEF TypeOK
  <2>5. ASSUME NEW d \in Subs, Live(d)'
        PROVE  /\ subs'[ns'[d]] = ss'[d] /\ d \in members'[ss'[d]]
               /\ ns'[d] \in Namespaces /\ ss'[d] \in Subs
    <3>1. CASE d = c
      BY <2>1, <2>4, <3>1, Zenon
    <3>2. CASE d # c
      <4>1. /\ subs[ns[d]] = ss[d] /\ d \in members[ss[d]]
            /\ ns[d] \in Namespaces /\ ss[d] \in Subs
        BY <2>2, <2>5, <3>2, Zenon DEF Registered, SetsOK
      <4>2. ns[d] = n => ss[d] = set
        BY <2>3, <4>1, Zenon
      <4> QED
        BY <2>4, <3>2, <4>1, <4>2
    <3> QED
      BY <3>1, <3>2, Zenon
  <2>6. \A m \in Namespaces : subs'[m] # None => members'[subs'[m]] # {}
    <3> SUFFICES ASSUME NEW m \in Namespaces, subs'[m] # None PROVE members'[subs'[m]] # {}
      BY Zenon
    <3>1. CASE subs'[m] = set
      BY <2>4, <3>1, Zenon
    <3>2. CASE subs'[m] # set
      <4>1. subs'[m] = subs[m] /\ subs[m] \in Subs
        BY <2>4, <3>2 DEF TypeOK
      <4>2. members[subs[m]] # {}
        BY <4>1, None \notin Subs, Zenon DEF SetsOK
      <4> QED
        BY <2>4, <3>2, <4>1, <4>2
    <3> QED
      BY <3>1, <3>2, Zenon
  <2>7. ASSUME NEW s \in Subs, NEW d \in Subs, d \in members'[s] PROVE Live(d)' /\ ss'[d] = s
    <3>1. CASE d = c
      <4>1. s = set
        BY <2>2, <2>4, <2>7, <3>1, Zenon DEF SetsOK
      <4> QED
        BY <2>2, <2>4, <3>1, <4>1, Zenon
    <3>2. CASE d # c
      <4>1. d \in members[s]
        BY <2>4, <2>7, <3>2, Zenon
      <4> QED
        BY <2>2, <2>4, <3>2, <4>1 DEF SetsOK
    <3> QED
      BY <3>1, <3>2, Zenon
  <2>8. ASSUME NEW d \in Subs, NEW e \in Subs, st'[d] = "new" PROVE members'[d] = {} /\ ss'[e] # d
    <3>1. d # c /\ st[d] = "new"
      BY <2>4, <2>8, Zenon
    <3>2. members[d] = {} /\ ss[e] # d /\ set # d
      BY <2>3, <3>1, Zenon DEF SetsOK
    <3> QED
      BY <2>4, <3>2, Zenon
  <2>9. ASSUME NEW m \in Namespaces, NEW d \in Subs, subs'[m] # None, d \in members'[subs'[m]]
        PROVE  ns'[d] = m
    <3>1. subs'[m] \in Subs
      BY <2>1, <2>9, Zenon DEF TypeOK
    <3>2. CASE m = n
      <4>1. CASE d = c
        BY <2>4, <3>2, <4>1, Zenon
      <4>2. CASE d # c
        <5>1. d \in members[set]
          BY <2>4, <2>9, <3>2, <4>2, Zenon
        <5>2. set = subs[n]
          BY <2>3, <5>1, Zenon
        <5> QED
          BY <2>4, <2>1, <3>2, <4>2, <5>1, <5>2, None \notin Subs DEF SetsOK
      <4> QED
        BY <4>1, <4>2, Zenon
    <3>3. CASE m # n
      <4>1. subs'[m] = subs[m]
        BY <2>4, <3>3, Zenon
      <4>2. subs[m] # set
        <5> SUFFICES ASSUME subs[m] = set PROVE FALSE
          BY Zenon
        <5>1. members[set] # {}
          BY <2>9, <4>1, Zenon DEF SetsOK
        <5>2. set = subs[n]
          BY <2>3, <5>1, Zenon
        <5>3. PICK e \in Subs : e \in members[set]
          BY <2>1, <5>1, Zenon DEF TypeOK
        <5>4. ns[e] = m /\ ns[e] = n
          BY <2>1, <5>2, <5>3 DEF SetsOK
        <5> QED
          BY <3>3, <5>4, Zenon
      <4>3. d \in members[subs[m]]
        BY <2>4, <2>9, <3>1, <4>1, <4>2, Zenon
      <4>4. d # c /\ ns[d] = m
        BY <2>2, <2>9, <3>1, <4>1, <4>3 DEF SetsOK
      <4> QED
        BY <2>4, <4>4, Zenon
    <3> QED
      BY <3>2, <3>3, Zenon
  <2> QED
    BY <2>5, <2>6, <2>7, <2>8, <2>9, Zenon DEF Registered, SetsOK
<1>2. ASSUME NEW c \in Subs, cancelRemove(c) PROVE Registered' /\ SetsOK'
  <2> DEFINE left == members[ss[c]] \ {c}
  <2>1. /\ members' = [members EXCEPT ![ss[c]] = left]
        /\ subs' = [subs EXCEPT ![ns[c]] = IF left = {} THEN None ELSE @]
        /\ st' = [st EXCEPT ![c] = "removed"]
        /\ ns' = ns /\ ss' = ss
        /\ Live(c) /\ ns[c] \in Namespaces /\ ss[c] \in Subs
    BY <1>2, Zenon DEF cancelRemove, regvars, Live, SetsOK
  <2>2. ~ Live(c)' /\ \A d \in Subs \ {c} : Live(d)' = Live(d)
    BY <2>1, Zenon DEF Live, TypeOK
  <2> HIDE DEF left
  <2>3. /\ members'[ss[c]] = left
        /\ \A s \in Subs \ {ss[c]} : members'[s] = members[s]
        /\ \A m \in Namespaces \ {ns[c]} : subs'[m] = subs[m]
        /\ subs'[ns[c]] = IF left = {} THEN None ELSE ss[c]
        /\ \A d \in Subs : st'[d] = "new" <=> st[d] = "new"
    BY <2>1, Zenon DEF TypeOK, Registered, Live
  <2>4. ASSUME NEW d \in Subs, Live(d)' PROVE subs'[ns'[d]] = ss'[d] /\ d \in members'[ss'[d]]
    <3>1. /\ d # c /\ subs[ns[d]] = ss[d] /\ d \in members[ss[d]]
          /\ ns[d] \in Namespaces /\ ss[d] \in Subs
      BY <2>2, <2>4, Zenon DEF Registered, SetsOK
    <3>2. d \in members'[ss[d]]
      BY <2>3, <3>1, Zenon DEF left
    <3>3. CASE ns[d] = ns[c]
      <4>1. ss[d] = ss[c]
        BY <2>1, <3>1, <3>3, Zenon DEF Registered
      <4> QED
        BY <2>1, <2>3, <3>2, <3>3, <4>1, Zenon
    <3>4. CASE ns[d] # ns[c]
      BY <2>1, <2>3, <3>1, <3>2, <3>4
    <3> QED
      BY <3>3, <3>4, Zenon
  <2>5. \A m \in Namespaces : subs'[m] # None => members'[subs'[m]] # {}
    <3> SUFFICES ASSUME NEW m \in Namespaces, subs'[m] # None PROVE members'[subs'[m]] # {}
      BY Zenon
    <3>1. CASE m = ns[c]
      BY <2>3, <3>1, Zenon
    <3>2. CASE m # ns[c]
      <4>1. subs'[m] = subs[m] /\ subs[m] \in Subs /\ members[subs[m]] # {}
        BY <2>3, <3>2 DEF SetsOK, TypeOK
      <4>2. subs[m] # ss[c]
        BY <2>1, <3>2, <4>1, Zenon DEF SetsOK, Registered
      <4> QED
        BY <2>3, <4>1, <4>2, Zenon
    <3> QED
      BY <3>1, <3>2, Zenon
  <2>6. ASSUME NEW s \in Subs, NEW d \in Subs, d \in members'[s]
        PROVE  d \in members[s] /\ Live(d)' /\ ss'[d] = s
    <3>1. d \in members[s]
      BY <2>3, <2>6, Zenon DEF left
    <3>2. Live(d) /\ ss[d] = s
      BY <3>1, Zenon DEF SetsOK
    <3>3. d # c
      BY <2>3, <2>6, <3>2, Zenon DEF left
    <3> QED
      BY <2>1, <2>2, <3>1, <3>2, <3>3, Zenon
  <2>7. ASSUME NEW d \in Subs, NEW e \in Subs, st'[d] = "new" PROVE members'[d] = {} /\ ss'[e] # d
    <3>1. st[d] = "new"
      BY <2>3, <2>7, Zenon
    <3>2. members[d] = {} /\ ss[e] # d /\ ss[c] # d
      BY <3>1, Zenon DEF SetsOK
    <3>3. members'[d] = members[d] /\ ss'[e] = ss[e]
      BY <2>1, <2>3, <3>2, Zenon
    <3> QED
      BY <3>2, <3>3, Zenon
  <2>8. ASSUME NEW d \in Subs, Live(d)' PROVE ns'[d] \in Namespaces /\ ss'[d] \in Subs
    BY <2>1, <2>2, <2>8, Zenon DEF SetsOK
  <2>9. ASSUME NEW m \in Namespaces, NEW d \in Subs, subs'[m] # None, d \in members'[subs'[m]]
        PROVE  ns'[d] = m
    <3>1. subs'[m] = subs[m]
      <4>1. subs[ns[c]] = ss[c]
        BY <2>1, Zenon DEF Registered
      <4>2. CASE m = ns[c]
        BY <2>3, <2>9, <4>1, <4>2, Zenon
      <4>3. CASE m # ns[c]
        BY <2>3, <4>3, Zenon
      <4> QED
        BY <4>2, <4>3, Zenon
    <3>2. subs[m] \in Subs
      BY <2>9, <3>1, Zenon DEF TypeOK
    <3> QED
      BY <2>1, <2>6, <2>9, <3>1, <3>2 DEF SetsOK
  <2> QED
    BY <2>4, <2>5, <2>6, <2>7, <2>8, <2>9, Zenon DEF Registered, SetsOK
<1>3. ASSUME NEW c \in Subs, cancelClose(c) \/ SubscribeClosed(c) PROVE Registered' /\ SetsOK'
  <2>1. UNCHANGED <<subs, members, ns, ss>>
    BY <1>3, Zenon DEF cancelClose, SubscribeClosed, setvars, regvars
  <2>2. \A d \in Subs : Live(d)' = Live(d) /\ (st'[d] = "new" => st[d] = "new")
    BY <1>3 DEF cancelClose, SubscribeClosed, Live, TypeOK
  <2> QED
    BY <2>1, <2>2, Zenon DEF Registered, SetsOK
<1>4. CASE /\ \A c \in Subs : ~ cancelRemove(c) /\ ~ cancelClose(c) /\ ~ SubscribeClosed(c)
           /\ \A c \in Subs, n \in Namespaces, lim \in Limits : ~ Subscribe(c, n, lim)
  <2>1. UNCHANGED <<subs, members, ns, ss>>
    BY <1>4, QuietStep, Zenon
  <2>2. \A d \in Subs : Live(d)' = Live(d) /\ (st'[d] = "new" => st[d] = "new")
    BY <1>4, QuietStep, CancelLive, Zenon DEF Live
  <2> QED
    BY <2>1, <2>2, Zenon DEF Registered, SetsOK
<1> QED
  BY <1>1, <1>2, <1>3, <1>4, Zenon

\* Every step keeps what serve has yet to visit live.
LEMMA ServeStepOK == SocketInv /\ [Next]_vars => ServeOK'
<1> SUFFICES ASSUME SocketInv, [Next]_vars PROVE ServeOK'
  BY Zenon
<1> USE ConstantsOK DEF SocketInv, setvars, advtvars, subvars, regvars, resvars
<1>1. ASSUME NEW c \in Subs, CallerStep(c) PROVE ServeOK'
  <2>1. UNCHANGED servevars
    BY <1>1, Zenon DEF CallerStep, SubscribeClosed, Subscribe, cancelRemove, cancelClose,
                RequestFails, CtxDone, Watch, Receive, servevars
  <2>2. ASSUME NEW d \in visit PROVE Live(d)' /\ (limit'[d] > 0 => remaining'[d] > 0)
    <3>1. /\ d \in Subs /\ Live(d) /\ (limit[d] > 0 => remaining[d] > 0)
          /\ spc = "dispatch"
      BY <2>2, Zenon DEF ServeOK, TypeOK
    <3>2. RequestFails(c) \/ CtxDone(c) \/ Watch(c) \/ Receive(c) \/ cancelClose(c)
      BY <1>1, <3>1, Zenon DEF CallerStep, SubscribeClosed, Subscribe, cancelRemove, Unlocked
    <3>3. limit' = limit /\ remaining' = remaining
      BY <3>2, Zenon DEF RequestFails, CtxDone, Watch, Receive, cancelClose
    <3>4. Live(d)'
      <4>1. CASE RequestFails(c) \/ CtxDone(c) \/ Watch(c)
        BY <3>1, <4>1, Zenon DEF RequestFails, CtxDone, Watch, cancel, Live, TypeOK
      <4>2. CASE Receive(c) \/ cancelClose(c)
        BY <3>1, <4>2, Zenon DEF Receive, cancelClose, Live, TypeOK
      <4> QED
        BY <3>2, <4>1, <4>2, Zenon
    <3> QED
      BY <3>1, <3>3, <3>4, Zenon
  <2> QED
    BY <2>1, <2>2, Zenon DEF ServeOK, servevars
<1>2. CASE ServeStep
  <2>1. CASE ServeClose \/ Reject \/ Answer \/ releaseReturn \/ dispatchReturn \/ dispatchUnlock
    <3>1. visit' = {}
      BY <2>1, Zenon DEF ServeClose, Reject, Answer, releaseReturn, dispatchReturn, dispatchUnlock, ServeOK
    <3> QED
      BY <2>1, <3>1, Zenon DEF ServeClose, Reject, Fail, Answer, releaseReturn, dispatchReturn,
                        dispatchUnlock, ServeOK
  <2>2. CASE dispatch
    <3>1. ASSUME NEW d \in visit' PROVE Live(d) /\ (limit[d] > 0 => remaining[d] > 0)
      <4>1. subs[pkt.ns] \in Subs /\ d \in members[subs[pkt.ns]] /\ d \in Subs
        BY <2>2, <3>1 DEF dispatch, ServeOK, Packets, TypeOK
      <4>2. Live(d)
        BY <4>1, Zenon DEF SetsOK
      <4>3. release = <<>>
        BY <2>2, Zenon DEF dispatch, ServeOK
      <4> QED
        BY <4>1, <4>2, <4>3 DEF LimitOK, TypeOK
    <3> QED
      BY <2>2, <3>1, Zenon DEF dispatch, ServeOK, Live
  <2>3. ASSUME NEW c \in Subs, Send(c) PROVE ServeOK'
    <3>1. ASSUME NEW d \in visit' PROVE Live(d)' /\ (limit'[d] > 0 => remaining'[d] > 0)
      <4>1. /\ d \in Subs /\ d # c /\ Live(d) /\ (limit[d] > 0 => remaining[d] > 0)
            /\ st' = st /\ limit' = limit
        BY <2>3, <3>1, Zenon DEF Send, ServeOK, TypeOK
      <4>2. remaining'[d] = remaining[d]
        <5>1. CASE limit[c] = 0
          BY <2>3, <5>1, SendUnlimited, Zenon
        <5>2. CASE limit[c] # 0
          BY <2>3, <4>1, <5>2, SendLimited DEF TypeOK
        <5> QED
          BY <5>1, <5>2, Zenon
      <4> QED
        BY <4>1, <4>2, Zenon DEF Live
    <3> QED
      BY <2>3, <3>1, Zenon DEF Send, ServeOK
  <2>4. ASSUME NEW c \in Subs, Drop(c) PROVE ServeOK'
    BY <2>4, Zenon DEF Drop, ServeOK, Live
  <2>5. CASE releaseEnter
    BY <2>5, Zenon DEF releaseEnter, ServeOK, servevars
  <2> QED
    BY <1>2, <2>1, <2>2, <2>3, <2>4, <2>5, Zenon DEF ServeStep
<1>3. CASE tickloop
  BY <1>3, Zenon DEF tickloop, ServeOK, servevars, Live
<1>4. CASE Environment
  BY <1>4, Zenon DEF Environment, Close, Track, Fire, Scan, ScanFails, AnswerFails, Fail, ServeOK,
              servevars, Live
<1>5. CASE UNCHANGED vars
  BY <1>5, Zenon DEF vars, ServeOK, servevars, Live
<1> QED
  BY <1>1, <1>2, <1>3, <1>4, <1>5, Zenon DEF Next

\* The steps that touch the clocks or the advertisements.
LEMMA AdvtSteps ==
  ASSUME [Next]_vars
  PROVE  \/ UNCHANGED advtvars
         \/ \E n \in Namespaces, ttl \in TTLs : Track(n, ttl)
         \/ Fire
         \/ tickloop
<1>1. ASSUME NEW c \in Subs, CallerStep(c) PROVE UNCHANGED advtvars
  BY <1>1, Zenon DEF CallerStep, SubscribeClosed, Subscribe, cancelRemove, cancelClose,
              RequestFails, CtxDone, Watch, Receive, advtvars
<1>2. CASE ServeStep
  BY <1>2, Zenon DEF ServeStep, ServeClose, Reject, Answer, dispatch, Send, Drop, dispatchUnlock,
              releaseEnter, releaseReturn, dispatchReturn, advtvars
<1>3. CASE Environment
  BY <1>3, Zenon DEF Environment, Close, Scan, ScanFails, AnswerFails, advtvars
<1>4. CASE UNCHANGED vars
  BY <1>4, Zenon DEF vars, advtvars
<1> QED
  BY <1>1, <1>2, <1>3, <1>4, Zenon DEF Next

\* Ticks stay behind the wall clock.
LEMMA TicksStep == SocketInv /\ [Next]_vars => TicksOK'
<1> SUFFICES ASSUME SocketInv, [Next]_vars PROVE TicksOK'
  BY Zenon
<1> USE ConstantsOK DEF SocketInv, TicksOK, AdvertFresh
<1>1. CASE UNCHANGED advtvars
  BY <1>1, Zenon DEF advtvars
<1>2. ASSUME NEW n \in Namespaces, NEW ttl \in TTLs, Track(n, ttl) PROVE TicksOK'
  <2>1. ttl \in Nat
    BY Zenon
  <2> QED
    BY <1>2, <2>1 DEF Track, TypeOK
<1>3. CASE Fire
  BY <1>3 DEF Fire, TypeOK
<1>4. CASE tickloop
  BY <1>4, SMTT(30) DEF tickloop, TypeOK
<1> QED
  BY <1>1, <1>2, <1>3, <1>4, AdvtSteps, Zenon

\* Results sent and remaining add up to the limit after every step.
LEMMA LimitStep == SocketInv /\ [Next]_vars => LimitOK'
<1> SUFFICES ASSUME SocketInv, [Next]_vars PROVE LimitOK'
  BY Zenon
<1> USE ConstantsOK DEF SocketInv
\* Steps that neither count nor release, and make no subscription live.
<1>1. ASSUME UNCHANGED <<limit, remaining, sent, release>>,
             \A d \in Subs : (Live(d)' => Live(d)) /\ (st'[d] = "new" => st[d] = "new")
      PROVE  LimitOK'
  BY <1>1, Zenon DEF LimitOK
<1>2. ASSUME NEW c \in Subs, CallerStep(c) PROVE LimitOK'
  <2>1. ASSUME NEW n \in Namespaces, NEW lim \in Limits, Subscribe(c, n, lim) PROVE LimitOK'
    <3>1. /\ st[c] = "new" /\ st' = [st EXCEPT ![c] = "open"]
          /\ limit' = [limit EXCEPT ![c] = lim] /\ remaining' = [remaining EXCEPT ![c] = lim]
          /\ sent' = sent /\ release' = release
          /\ sent[c] = 0 /\ limit[c] = 0
      BY <2>1, Zenon DEF Subscribe, servevars, LimitOK
    <3>2. lim \in Nat /\ limit'[c] = lim /\ remaining'[c] = lim /\ st'[c] = "open"
      BY <3>1, Zenon DEF TypeOK
    <3>3. \A d \in Subs \ {c} : limit'[d] = limit[d] /\ remaining'[d] = remaining[d] /\ st'[d] = st[d]
      BY <3>1, Zenon DEF TypeOK
    <3>4. ASSUME NEW i \in 1..Len(release) PROVE release[i] \in Subs \ {c}
      <4>1. release[i] \in Subs
        BY <3>4 DEF TypeOK
      <4>2. limit[release[i]] > 0
        BY <3>4, Zenon DEF LimitOK
      <4> QED
        BY <3>1, <4>1, <4>2
    <3>5. \A i \in 1..Len(release') : limit'[release'[i]] > 0 /\ remaining'[release'[i]] = 0
      BY <3>1, <3>3, <3>4 DEF LimitOK
    <3>6. \A d \in Subs : st'[d] = "new" => sent'[d] = 0 /\ limit'[d] = 0
      BY <3>1, <3>2, <3>3 DEF LimitOK
    <3>7. ASSUME NEW d \in Subs, limit'[d] > 0
          PROVE  /\ remaining'[d] >= 0
                 /\ sent'[d] = limit'[d] - remaining'[d]
                 /\ Live(d)' /\ remaining'[d] = 0 => \E i \in 1..Len(release') : release'[i] = d
      <4>1. CASE d = c
        BY <3>1, <3>2, <3>7, <4>1
      <4>2. CASE d # c
        BY <3>1, <3>3, <3>7, <4>2, Zenon DEF LimitOK, Live
      <4> QED
        BY <4>1, <4>2, Zenon
    <3> QED
      BY <3>5, <3>6, <3>7, Zenon DEF LimitOK
  <2>2. CASE SubscribeClosed(c) \/ cancelRemove(c) \/ cancelClose(c)
    <3>1. UNCHANGED <<limit, remaining, sent, release>>
      BY <2>2, Zenon DEF SubscribeClosed, cancelRemove, cancelClose, regvars, resvars, servevars
    <3>2. \A d \in Subs : (Live(d)' => Live(d)) /\ (st'[d] = "new" => st[d] = "new")
      <4>1. \E x \in {"rejected", "removed", "closed"} : st' = [st EXCEPT ![c] = x]
        BY <2>2, Zenon DEF SubscribeClosed, cancelRemove, cancelClose
      <4> QED
        BY <4>1, Zenon DEF Live, TypeOK
    <3> QED
      BY <1>1, <3>1, <3>2, Zenon
  <2>3. CASE RequestFails(c) \/ CtxDone(c) \/ Watch(c) \/ Receive(c)
    <3>1. UNCHANGED <<limit, remaining, sent, release>>
      BY <2>3, Zenon DEF RequestFails, CtxDone, Watch, Receive, regvars, resvars, servevars
    <3>2. \A d \in Subs : (Live(d)' => Live(d)) /\ (st'[d] = "new" => st[d] = "new")
      BY <2>3, CancelLive, Zenon DEF RequestFails, CtxDone, Watch, Receive, Live
    <3> QED
      BY <1>1, <3>1, <3>2, Zenon
  <2> QED
    BY <1>2, <2>1, <2>2, <2>3, Zenon DEF CallerStep
<1>3. CASE ServeStep
  <2>1. ASSUME NEW c \in Subs, Send(c) PROVE LimitOK'
    <3>1. st' = st /\ limit' = limit /\ Live(c) /\ (limit[c] > 0 => remaining[c] > 0)
      BY <2>1, Zenon DEF Send, ServeOK, regvars
    <3>2. CASE limit[c] = 0
      BY <1>1, <2>1, <3>1, <3>2, SendUnlimited, Zenon DEF Live
    <3>3. CASE limit[c] # 0
      <4>1. limit[c] > 0 /\ remaining[c] > 0 /\ limit[c] \in Nat /\ remaining[c] \in Int
        BY <3>1, <3>3 DEF TypeOK
      <4>2. /\ remaining'[c] = remaining[c] - 1 /\ sent'[c] = sent[c] + 1
            /\ \A d \in Subs \ {c} : remaining'[d] = remaining[d] /\ sent'[d] = sent[d]
        <5>1. /\ remaining' = [remaining EXCEPT ![c] = @ - 1]
              /\ sent' = [sent EXCEPT ![c] = @ + 1]
          BY <2>1, <3>3, SendLimited, Zenon
        <5> QED
          BY <5>1, Zenon DEF TypeOK
      <4>3. release \in Seq(Subs) /\ release' = IF remaining[c] = 1 THEN Append(release, c) ELSE release
        BY <2>1, <3>3, SendLimited, Zenon DEF TypeOK
      <4>4. \A i \in 1..Len(release) : release[i] \in Subs \ {c} /\ remaining[release[i]] = 0
        BY <4>1, <4>3 DEF LimitOK
      <4>5. \A i \in 1..Len(release) : i \in 1..Len(release') /\ release'[i] = release[i]
        BY <4>3
      <4>6. \A d \in Subs : st'[d] = "new" => sent'[d] = 0 /\ limit'[d] = 0
        BY <3>1, <4>2, Zenon DEF LimitOK, Live
      <4>7. \A i \in 1..Len(release') : limit'[release'[i]] > 0 /\ remaining'[release'[i]] = 0
        <5>1. CASE remaining[c] = 1
          <6>1. release' = Append(release, c)
            BY <4>3, <5>1, Zenon
          <6>2. \A i \in 1..Len(release') : i \in 1..Len(release) \/ release'[i] = c
            BY <4>3, <6>1
          <6>3. limit'[c] > 0 /\ remaining'[c] = 0
            BY <3>1, <4>1, <4>2, <5>1 DEF LimitOK
          <6>4. \A i \in 1..Len(release) :
                   limit'[release'[i]] > 0 /\ remaining'[release'[i]] = 0
            <7> TAKE i \in 1..Len(release)
            <7>1. /\ release'[i] = release[i] /\ release[i] \in Subs \ {c}
                  /\ remaining[release[i]] = 0 /\ limit[release[i]] > 0
              BY <4>4, <4>5, Zenon DEF LimitOK
            <7> QED
              BY <3>1, <4>2, <7>1, Zenon
          <6> QED
            BY <6>2, <6>3, <6>4, Zenon
        <5>2. CASE remaining[c] # 1
          BY <3>1, <4>2, <4>3, <4>4, <5>2, Zenon DEF LimitOK
        <5> QED
          BY <5>1, <5>2, Zenon
      <4>8. ASSUME NEW d \in Subs, limit'[d] > 0
            PROVE  /\ remaining'[d] >= 0
                   /\ sent'[d] = limit'[d] - remaining'[d]
                   /\ Live(d)' /\ remaining'[d] = 0 => \E i \in 1..Len(release') : release'[i] = d
        <5>1. CASE d = c
          <6>1. sent[c] = limit[c] - remaining[c] /\ sent[c] \in Nat
            BY <4>1, Zenon DEF LimitOK, TypeOK
          <6>2. remaining[c] = 1 => \E i \in 1..Len(release') : release'[i] = c
            <7>1. ASSUME remaining[c] = 1 PROVE \E i \in 1..Len(release') : release'[i] = c
              <8>1. release' = Append(release, c)
                BY <4>3, <7>1, Zenon
              <8>2. Len(release') = Len(release) + 1 /\ release'[Len(release) + 1] = c
                BY <4>3, <8>1
              <8>3. Len(release) + 1 \in 1..Len(release')
                BY <4>3, <8>2
              <8> QED
                BY <8>2, <8>3, Zenon
            <7> QED
              BY <7>1, Zenon
          <6> QED
            BY <3>1, <4>1, <4>2, <5>1, <6>1, <6>2
        <5>2. CASE d # c
          <6>1. /\ remaining[d] >= 0 /\ sent[d] = limit[d] - remaining[d]
                /\ Live(d) /\ remaining[d] = 0 => \E i \in 1..Len(release) : release[i] = d
            BY <3>1, <4>8, Zenon DEF LimitOK
          <6> QED
            BY <3>1, <4>2, <4>5, <5>2, <6>1, Zenon DEF Live
        <5> QED
          BY <5>1, <5>2, Zenon
      <4> QED
        BY <4>6, <4>7, <4>8, Zenon DEF LimitOK
    <3> QED
      BY <3>2, <3>3, Zenon
  <2>2. CASE releaseReturn
    <3>1. /\ release \in Seq(Subs) /\ release # <<>> /\ release' = Tail(release)
          /\ st[Head(release)] = "closed"
          /\ UNCHANGED <<st, limit, remaining, sent>>
      BY <2>2, Zenon DEF releaseReturn, subvars, regvars, resvars, TypeOK
    <3>2. /\ Len(release') = Len(release) - 1
          /\ \A i \in 1..Len(release') : i + 1 \in 1..Len(release) /\ release'[i] = release[i + 1]
      BY <3>1
    <3>3. \A d \in Subs : Live(d) => d # release[1]
      BY <3>1 DEF Live
    <3>4. ASSUME NEW d \in Subs, Live(d), \E i \in 1..Len(release) : release[i] = d
          PROVE  \E i \in 1..Len(release') : release'[i] = d
      <4>1. PICK i \in 1..Len(release) : release[i] = d
        BY <3>4, Zenon
      <4>2. i # 1 /\ i - 1 \in 1..Len(release')
        BY <3>1, <3>2, <3>3, <3>4, <4>1
      <4>3. release'[i - 1] = d
        BY <3>2, <4>1, <4>2
      <4> QED
        BY <4>2, <4>3, Zenon
    <3>5. \A i \in 1..Len(release') : limit'[release'[i]] > 0 /\ remaining'[release'[i]] = 0
      BY <3>1, <3>2 DEF LimitOK
    <3> QED
      BY <3>1, <3>4, <3>5, Zenon DEF LimitOK, Live
  <2>3. CASE releaseEnter
    <3>0. release \in Seq(Subs) /\ release # <<>>
      BY <2>3, Zenon DEF releaseEnter, TypeOK
    <3>1. Head(release) \in Subs
      BY <3>0
    <3>2. \A d \in Subs : (Live(d)' => Live(d)) /\ (st'[d] = "new" => st[d] = "new")
      BY <2>3, <3>1, CancelLive, Zenon DEF releaseEnter
    <3> QED
      BY <1>1, <2>3, <3>2, Zenon DEF releaseEnter, servevars, regvars, resvars
  <2>4. CASE dispatch
    BY <1>1, <2>4, Zenon DEF dispatch, ServeOK, subvars, regvars, resvars, Live
  <2>5. ASSUME NEW c \in Subs, Drop(c) PROVE LimitOK'
    BY <1>1, <2>5, Zenon DEF Drop, subvars, regvars, resvars, Live
  <2>6. CASE ServeClose \/ Reject \/ Answer \/ dispatchUnlock \/ dispatchReturn
    BY <1>1, <2>6, Zenon DEF ServeClose, Reject, Answer, dispatchUnlock, dispatchReturn, subvars,
                      regvars, resvars, Live
  <2> QED
    BY <1>3, <2>1, <2>2, <2>3, <2>4, <2>5, <2>6, Zenon DEF ServeStep
<1>4. CASE tickloop
  BY <1>1, <1>4, Zenon DEF tickloop, subvars, servevars, regvars, resvars, Live
<1>5. CASE Environment
  BY <1>1, <1>5, Zenon DEF Environment, Close, Track, Fire, Scan, ScanFails, AnswerFails, subvars,
                    servevars, regvars, resvars, Live
<1>6. CASE UNCHANGED vars
  BY <1>1, <1>6, Zenon DEF vars, subvars, servevars, regvars, resvars, Live
<1> QED
  BY <1>2, <1>3, <1>4, <1>5, <1>6, Zenon DEF Next

-----------------------------------------------------------------------------
(***************************************************************************)
(* The inductive invariant of the socket: the four structures that         *)
(* Subscribe, cancel, dispatch and Decr share stay consistent.             *)
(***************************************************************************)
THEOREM SocketCorrect == Spec => []SocketInv
<1>1. SocketInv /\ [Next]_vars => SocketInv'
  BY TypeStep, SetsStep, ServeStepOK, LimitStep, TicksStep, Zenon DEF SocketInv
<1> QED
  BY InitInv, <1>1, PTL DEF Spec

(***************************************************************************)
(* Whoever waits for results is in the subscriber set that dispatch looks  *)
(* up, in whatever order Subscribe and cancel run.                         *)
(***************************************************************************)
THEOREM AlwaysRegistered == Spec => []Registered
<1>1. SocketInv => Registered
  BY Zenon DEF SocketInv
<1> QED
  BY <1>1, SocketCorrect, PTL

(***************************************************************************)
(* dispatch never sends on a closed channel.                               *)
(***************************************************************************)
THEOREM NeverSendsOnClosed == Spec => []NoSendOnClosed
<1>1. SocketInv => NoSendOnClosed
  BY Zenon DEF SocketInv, ServeOK, NoSendOnClosed, Live
<1> QED
  BY <1>1, SocketCorrect, PTL

(***************************************************************************)
(* No subscription with a limit is sent more results than that.            *)
(***************************************************************************)
THEOREM NeverExceedsLimit == Spec => []LimitRespected
<1>1. SocketInv => LimitRespected
  <2> SUFFICES ASSUME SocketInv, NEW c \in Subs, limit[c] > 0 PROVE sent[c] <= limit[c]
    BY Zenon DEF LimitRespected
  <2>1. remaining[c] >= 0 /\ sent[c] = limit[c] - remaining[c]
    BY Zenon DEF SocketInv, LimitOK
  <2>2. limit[c] \in Nat /\ remaining[c] \in Int
    BY Zenon DEF SocketInv, TypeOK
  <2> QED
    BY <2>1, <2>2, SMTT(30)
<1> QED
  BY <1>1, SocketCorrect, PTL

(***************************************************************************)
(* dispatch cancels a subscription only when it has got its last result.   *)
(***************************************************************************)
THEOREM ReleasesAtLimit == Spec => ReleasedAtLimit
<1>1. SocketInv /\ [Next]_vars =>
        [releaseEnter => sent[Head(release)] = limit[Head(release)]]_vars
  <2> SUFFICES ASSUME SocketInv, releaseEnter PROVE sent[Head(release)] = limit[Head(release)]
    BY Zenon
  <2>1. release \in Seq(Subs) /\ release # <<>>
    BY Zenon DEF SocketInv, TypeOK, releaseEnter
  <2>2. 1 \in 1..Len(release) /\ release[1] = Head(release) /\ Head(release) \in Subs
    BY <2>1
  <2>3. limit[Head(release)] > 0 /\ remaining[Head(release)] = 0
    BY <2>2, Zenon DEF SocketInv, LimitOK
  <2>4. sent[Head(release)] = limit[Head(release)] - remaining[Head(release)]
    BY <2>2, <2>3, Zenon DEF SocketInv, LimitOK
  <2>5. limit \in [Subs -> Nat]
    BY Zenon DEF SocketInv, TypeOK
  <2> QED
    BY <2>2, <2>3, <2>4, <2>5
<1> QED
  BY <1>1, SocketCorrect, PTL DEF Spec, ReleasedAtLimit

(***************************************************************************)
(* tickloop and Track keep no namespace beyond its deadline.               *)
(***************************************************************************)
THEOREM AdvertsFresh == Spec => []AdvertFresh
<1>1. SocketInv => AdvertFresh
  BY Zenon DEF SocketInv, TicksOK
<1> QED
  BY <1>1, SocketCorrect, PTL

(***************************************************************************)
(* tickloop drops no namespace before its deadline.                        *)
(***************************************************************************)
THEOREM AdvertsKept == Spec => AdvertKept
<1>1. SocketInv /\ [Next]_vars =>
        [\A n \in Namespaces : advt[n] # None /\ advt'[n] = None => advt[n] < wall]_vars
  <2> SUFFICES ASSUME SocketInv, [Next]_vars, NEW n \in Namespaces,
                      advt[n] # None, advt'[n] = None
               PROVE  advt[n] < wall
    BY Zenon
  <2> USE ConstantsOK DEF SocketInv, TicksOK
  <2>1. CASE UNCHANGED advtvars
    BY <2>1, Zenon DEF advtvars
  <2>2. ASSUME NEW m \in Namespaces, NEW ttl \in TTLs, Track(m, ttl) PROVE FALSE
    <3>0. time \in Nat /\ ttl \in Nat
      BY Zenon DEF TypeOK
    <3>1. time + ttl \in Nat
      BY <3>0
    <3> QED
      BY <2>2, <3>1, Zenon DEF Track, TypeOK
  <2>3. CASE Fire
    BY <2>3, Zenon DEF Fire
  <2>4. CASE tickloop
    <3>1. tickC > advt[n] /\ tickC # 0
      BY <2>4, Zenon DEF tickloop
    <3>2. tickC <= wall /\ tickC \in Nat /\ wall \in Nat /\ advt[n] \in Nat
      BY Zenon DEF TypeOK
    <3> QED
      BY <3>1, <3>2
  <2> QED
    BY <2>1, <2>2, <2>3, <2>4, AdvtSteps, Zenon
<1> QED
  BY <1>1, SocketCorrect, PTL DEF Spec, AdvertKept
=============================================================================
