------------------------------- MODULE Router -------------------------------
(***************************************************************************)
(* The life of a cluster.Router (pkg/cluster/cluster.go): callers of       *)
(* Bootstrap start it, the advance goroutine ticks, the heartbeat          *)
(* goroutine announces, callers of Stop end it.                            *)
(*                                                                         *)
(* announce is an unbuffered channel: a send is a rendezvous with the      *)
(* heartbeat goroutine when it waits for an announcement.  What is left    *)
(* out: what a heartbeat says, and when the next one is due, which is any  *)
(* tick.  Publish is taken to return context.Canceled only when the        *)
(* Router's clock has stopped.                                             *)
(***************************************************************************)
EXTENDS Naturals

CONSTANTS
    Callers,     \* goroutines that call Bootstrap
    Stoppers,    \* goroutines that call Stop, once each
    MaxCalls,    \* bound on the calls of Bootstrap by one goroutine
    NoCaller

ASSUME RouterOK == MaxCalls \in Nat /\ NoCaller \notin Callers

VARIABLES
    Clock,       \* whether Router.Clock is set
    init,        \* Router.init
    relaying,    \* Router.relaying
    mu,          \* holder of Router.mu
    stopped,     \* the context of the Clock is done
    closed,      \* announce is closed
    tickC,       \* whether the Clock's channel holds a tick
    relayed,     \* number of successful calls of Topic.Relay
    cancelled,   \* whether the relay is cancelled
    bpc,         \* where each caller is in Bootstrap
    ctx,         \* whether the context of a caller's Bootstrap is done
    res,         \* what each caller's last Bootstrap returned
    calls,       \* number of calls that each caller made
    late,        \* history: whether Stop had returned when Bootstrap was called
    spc,         \* where each stopper is in Stop
    tpc,         \* where the advance goroutine is
    hpc          \* where the heartbeat goroutine is

router == <<Clock, init, relaying, mu, stopped, relayed>>
callers == <<bpc, ctx, res, calls, late>>
workers == <<closed, tickC, cancelled, tpc, hpc>>
rvars == <<router, callers, spc, workers>>

RouterTypeOK ==
    /\ Clock \in BOOLEAN /\ init \in BOOLEAN /\ relaying \in BOOLEAN
    /\ mu \in Callers \cup {NoCaller}
    /\ stopped \in BOOLEAN /\ closed \in BOOLEAN /\ tickC \in BOOLEAN
    /\ relayed \in Nat
    /\ cancelled \in BOOLEAN
    /\ bpc \in [Callers -> {"idle", "setup", "load", "lock", "start", "check",
                            "select", "parked", "panic"}]
    /\ ctx \in [Callers -> BOOLEAN]
    /\ res \in [Callers -> {"none", "nil", "closing", "ctx", "relay"}]
    /\ calls \in [Callers -> Nat]
    /\ late \in [Callers -> BOOLEAN]
    /\ spc \in [Stoppers -> {"idle", "clock", "returned", "panic"}]
    /\ tpc \in {"none", "select", "cancel", "close", "exit"}
    /\ hpc \in {"none", "recv", "emit", "backoff", "exit"}

\* A Router as its user makes it, with or without a Clock.
RouterInit ==
    /\ Clock \in BOOLEAN
    /\ init = FALSE /\ relaying = FALSE
    /\ mu = NoCaller
    /\ stopped = FALSE /\ closed = FALSE /\ tickC = FALSE
    /\ relayed = 0
    /\ cancelled = FALSE
    /\ bpc = [c \in Callers |-> "idle"]
    /\ ctx = [c \in Callers |-> FALSE]
    /\ res = [c \in Callers |-> "none"]
    /\ calls = [c \in Callers |-> 0]
    /\ late = [c \in Callers |-> FALSE]
    /\ spc = [s \in Stoppers |-> "idle"]
    /\ tpc = "none"
    /\ hpc = "none"

at(c, from, to) == bpc[c] = from /\ bpc' = [bpc EXCEPT ![c] = to]

return(c, err) ==
    /\ bpc' = [bpc EXCEPT ![c] = "idle"]
    /\ res' = [res EXCEPT ![c] = err]
    /\ UNCHANGED <<ctx, calls, late>>
-----------------------------------------------------------------------------
(***************************************************************************)
(* Bootstrap.                                                              *)
(***************************************************************************)
Bootstrap(c) ==
    /\ at(c, "idle", "setup")
    /\ calls[c] < MaxCalls
    /\ calls' = [calls EXCEPT ![c] = @ + 1]
    /\ ctx' = [ctx EXCEPT ![c] = FALSE]
    /\ res' = [res EXCEPT ![c] = "none"]
    /\ late' = [late EXCEPT ![c] = \E s \in Stoppers : spc[s] = "returned"]
    /\ UNCHANGED <<router, spc, workers>>

\* The context of a caller is cancelled, or expires.
CtxDone(c) ==
    /\ bpc[c] # "idle"
    /\ ctx' = [ctx EXCEPT ![c] = TRUE]
    /\ UNCHANGED <<router, bpc, res, calls, late, spc, workers>>

setup(c) ==
    /\ at(c, "setup", "load")
    /\ init \/ mu = NoCaller
    /\ init' = TRUE
    /\ Clock' = (Clock \/ ~init)
    /\ UNCHANGED <<relaying, mu, stopped, relayed, ctx, res, calls, late, spc, workers>>

relayLoad(c) ==
    /\ at(c, "load", IF relaying THEN "check" ELSE "lock")
    /\ UNCHANGED <<router, ctx, res, calls, late, spc, workers>>

\* Fault: relaying is not checked again under the lock.
relayLockBlind(c) ==
    /\ mu = NoCaller
    /\ relaying' = TRUE
    /\ at(c, "lock", "start")
    /\ mu' = c
    /\ UNCHANGED <<Clock, init, stopped, relayed, ctx, res, calls, late, spc, workers>>

relayLock(c) ==
    /\ mu = NoCaller
    /\ relaying' = TRUE
    /\ at(c, "lock", IF relaying THEN "check" ELSE "start")
    /\ mu' = IF relaying THEN NoCaller ELSE c
    /\ UNCHANGED <<Clock, init, stopped, relayed, ctx, res, calls, late, spc, workers>>

\* Topic.Relay succeeds, and the goroutines start.
relayStart(c) ==
    /\ at(c, "start", "check")
    /\ mu' = NoCaller
    /\ relayed' = relayed + 1
    /\ tpc' = "select"
    /\ hpc' = "recv"
    /\ UNCHANGED <<Clock, init, relaying, stopped, ctx, res, calls, late, spc,
                   closed, tickC, cancelled>>

relayFails(c) ==
    /\ bpc[c] = "start"
    /\ return(c, "relay")
    /\ mu' = NoCaller
    /\ UNCHANGED <<Clock, init, relaying, stopped, relayed, spc, workers>>

checkOpen(c) ==
    /\ ~stopped
    /\ at(c, "check", "select")
    /\ UNCHANGED <<router, ctx, res, calls, late, spc, workers>>

checkClosing(c) ==
    /\ stopped
    /\ bpc[c] = "check"
    /\ return(c, "closing")
    /\ UNCHANGED <<router, spc, workers>>

\* The select of Bootstrap finds no case ready and waits for one.
park(c) ==
    /\ at(c, "select", "parked")
    /\ ~stopped /\ ~ctx[c] /\ ~closed /\ hpc # "recv"
    /\ UNCHANGED <<router, ctx, res, calls, late, spc, workers>>

\* r.announce <- opt.  A caller that waits is woken by the first case that
\* becomes ready; one that does not takes any case that is.
send(c) ==
    /\ bpc[c] = "select" \/ (bpc[c] = "parked" /\ ~stopped /\ ~ctx[c])
    /\ hpc = "recv" /\ ~closed
    /\ hpc' = "emit"
    /\ return(c, "nil")
    /\ UNCHANGED <<router, spc, closed, tickC, cancelled, tpc>>

\* A closed channel is a case that is ready, and panics.
sendClosed(c) ==
    /\ closed
    /\ at(c, "select", "panic")
    /\ UNCHANGED <<router, ctx, res, calls, late, spc, workers>>

selectDone(c) ==
    /\ bpc[c] \in {"select", "parked"}
    /\ stopped
    /\ return(c, "closing")
    /\ UNCHANGED <<router, spc, workers>>

selectCtx(c) ==
    /\ bpc[c] \in {"select", "parked"}
    /\ ctx[c]
    /\ return(c, "ctx")
    /\ UNCHANGED <<router, spc, workers>>
-----------------------------------------------------------------------------
(***************************************************************************)
(* Stop: stops the Clock, if relaying was set already.                     *)
(***************************************************************************)
Stop(s) ==
    /\ spc[s] = "idle"
    /\ relaying' = TRUE
    /\ spc' = [spc EXCEPT ![s] = IF relaying THEN "clock" ELSE "returned"]
    /\ UNCHANGED <<Clock, init, mu, stopped, relayed, callers, workers>>

\* r.Clock.Stop(), a nil dereference when there is no Clock yet.
StopClock(s) ==
    /\ spc[s] = "clock"
    /\ spc' = [spc EXCEPT ![s] = IF Clock THEN "returned" ELSE "panic"]
    /\ stopped' = (stopped \/ Clock)
    /\ UNCHANGED <<Clock, init, relaying, mu, relayed, callers, workers>>
-----------------------------------------------------------------------------
(***************************************************************************)
(* The Clock and the goroutine advance.                                    *)
(***************************************************************************)
Fire ==
    /\ Clock /\ ~stopped
    /\ ~tickC
    /\ tickC' = TRUE
    /\ UNCHANGED <<router, callers, spc, closed, cancelled, tpc, hpc>>

\* A tick.  If an announcement is due it goes to the heartbeat goroutine when
\* that waits for one, and is dropped when it does not.
advanceTick(due) ==
    /\ tpc = "select"
    /\ tickC
    /\ tickC' = FALSE
    /\ hpc' = IF due /\ hpc = "recv" THEN "emit" ELSE hpc
    /\ UNCHANGED <<router, callers, spc, closed, cancelled, tpc>>

\* The end: the deferred calls of Clock.Stop, cancel and close, in this order.
advanceDone ==
    /\ tpc = "select"
    /\ stopped
    /\ tpc' = "cancel"
    /\ UNCHANGED <<router, callers, spc, closed, tickC, cancelled, hpc>>

advanceCancel ==
    /\ tpc = "cancel"
    /\ cancelled' = TRUE
    /\ tpc' = "close"
    /\ UNCHANGED <<router, callers, spc, closed, tickC, hpc>>

\* Fault: announce is not closed.
advanceLeave ==
    /\ tpc = "close"
    /\ tpc' = "exit"
    /\ UNCHANGED <<router, callers, spc, closed, tickC, cancelled, hpc>>

advanceClose ==
    /\ tpc = "close"
    /\ closed' = TRUE
    /\ tpc' = "exit"
    /\ UNCHANGED <<router, callers, spc, tickC, cancelled, hpc>>
-----------------------------------------------------------------------------
(***************************************************************************)
(* The goroutine heartbeat.                                                *)
(***************************************************************************)
hstep(from, to) ==
    /\ hpc = from
    /\ hpc' = to
    /\ UNCHANGED <<router, callers, spc, closed, tickC, cancelled, tpc>>

emit == hstep("emit", "recv")

emitFails == hstep("emit", "backoff")

emitCancelled == stopped /\ hstep("emit", "exit")

\* Fault: a failure ends the goroutine.
resumeNever == hstep("backoff", "exit")

resume == hstep("backoff", "recv")

backoffDone == stopped /\ hstep("backoff", "exit")

heartbeatEnd == closed /\ hstep("recv", "exit")
-----------------------------------------------------------------------------
\* Steps that a caller in Bootstrap takes without waiting for anybody.
BootstrapStep(c) ==
    \/ setup(c)
    \/ relayLoad(c)
    \/ relayLock(c)
    \/ relayStart(c) \/ relayFails(c)
    \/ checkOpen(c) \/ checkClosing(c)
    \/ park(c)
    \/ sendClosed(c)
    \/ selectDone(c)
    \/ selectCtx(c)

TickStep ==
    \/ \E due \in BOOLEAN : advanceTick(due)
    \/ advanceDone
    \/ advanceCancel
    \/ advanceClose

HeartbeatStep ==
    \/ emit \/ emitFails \/ emitCancelled
    \/ resume \/ backoffDone
    \/ heartbeatEnd

RouterNext ==
    \/ \E c \in Callers : Bootstrap(c) \/ CtxDone(c) \/ BootstrapStep(c) \/ send(c)
    \/ \E s \in Stoppers : Stop(s) \/ StopClock(s)
    \/ Fire
    \/ TickStep
    \/ HeartbeatStep

RouterSpec == RouterInit /\ [][RouterNext]_rvars

(***************************************************************************)
(* Goroutines that can run do; the lock is granted in turn; callers that   *)
(* wait on announce are served in turn, so none waits for ever while       *)
(* heartbeat goes on receiving; Publish and the back-off end.  Nobody      *)
(* needs to call Bootstrap or Stop, or to cancel a context.                *)
(***************************************************************************)
RouterFairness ==
    /\ \A c \in Callers :
          WF_rvars(BootstrapStep(c)) /\ SF_rvars(relayLock(c)) /\ SF_rvars(send(c))
    /\ \A s \in Stoppers : WF_rvars(StopClock(s))
    /\ WF_rvars(TickStep)
    /\ SF_rvars(advanceDone)
    /\ WF_rvars(HeartbeatStep)

RouterFairSpec == RouterSpec /\ RouterFairness
-----------------------------------------------------------------------------
(***************************************************************************)
(* The topic is relayed, and the goroutines are started, at most once,     *)
(* however many callers find that the Router is not relaying.              *)
(***************************************************************************)
StartedOnce == relayed <= 1

\* The inductive strengthening of StartedOnce.
StartInv ==
    /\ RouterTypeOK
    /\ \A c \in Callers : bpc[c] = "start" <=> mu = c
    /\ mu # NoCaller \/ ~relaying => relayed = 0
    /\ mu # NoCaller => relaying
    /\ StartedOnce

(***************************************************************************)
(* Once a Router that runs is stopped, the relay is cancelled and both its *)
(* goroutines end, wherever they are when Stop is called.                  *)
(***************************************************************************)
ShutsDown ==
    stopped /\ tpc # "none" ~> cancelled /\ tpc = "exit" /\ hpc = "exit"

(***************************************************************************)
(* A caller that waits to announce itself to a Router that runs does not   *)
(* wait for ever, even if its context never ends: it gets its turn, or the *)
(* Router stops.                                                           *)
(***************************************************************************)
BootstrapReturns ==
    \A c \in Callers : bpc[c] = "parked" /\ tpc # "none" ~> bpc[c] = "idle"

(***************************************************************************)
(* "should not bootstrap after router was stopped" (cluster_test.go): a    *)
(* Bootstrap called after a Stop returned itself returns ErrClosing.       *)
(***************************************************************************)
ClosingAfterStop ==
    \A c \in Callers :
        bpc[c] = "setup" /\ late[c] ~> res[c] = "closing" \/ ctx[c]

(***************************************************************************)
(* The same of a Bootstrap that finds the Router stopping: it is answered  *)
(* with ErrClosing, it does not panic.                                     *)
(***************************************************************************)
NoPanic == \A c \in Callers : bpc[c] # "panic"
=============================================================================
