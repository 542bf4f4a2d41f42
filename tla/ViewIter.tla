------------------------------ MODULE ViewIter ------------------------------
(***************************************************************************)
(* Iteration over a remote View (cluster/client.go, cluster/server.go):    *)
(* Server.Iter streams records to the client's handler, whose Recv hands   *)
(* them one by one to the goroutine that calls Next.                       *)
(*                                                                         *)
(* Next signals on sync, a channel of one, and receives from send, which   *)
(* has no buffer.  Recv holds a record's message until the following Next. *)
(* Records are numbered in the order in which the server's iterator        *)
(* returns them.  The RPC system delivers Recv calls in order and one at a *)
(* time, and reports the first that failed (SendStreamCall,                *)
(* WaitStreaming); the handler shuts down when the server has released it. *)
(***************************************************************************)
EXTENDS Integers, Sequences

CONSTANTS
    MaxRows,  \* bound on the records that a query selects
    Window    \* Recv calls that flow control lets the server have in flight

ASSUME ViewOK ==
    /\ MaxRows \in Nat
    /\ Window \in Nat \ {0}

VARIABLES
    ipc,        \* Server.Iter: "call", "bind", "wait", "return", "end"
    n,          \* how many records its query selected
    bad,        \* those that newRecord refuses
    sent,       \* Recv calls made
    handled,    \* Recv calls that returned
    streamErr,  \* one of them failed
    result,     \* what Iter returned: "none", "ok", "err"
    rpc,        \* handler.Recv: "idle", "init", "new", "send", "sync"
    init,       \* handler.init
    sync,       \* what handler.sync holds
    closed,     \* handler.send is closed
    npc,        \* handler.Next: "idle", "sync", "recv"; "nil", "released"
    held,       \* the record that Next returned last, 0 once it is given up
    got,        \* all that it returned
    ctx,        \* the context of the call has ended
    rctx        \* and so have those of the Recv calls

svars == <<ipc, n, bad, sent, result>>
hvars == <<rpc, init, handled, streamErr, closed>>
nvars == <<npc, held, got>>
ivars == <<svars, hvars, nvars, sync, ctx, rctx>>

IterTypeOK ==
    /\ ipc \in {"call", "bind", "wait", "return", "end"}
    /\ n \in 0..MaxRows
    /\ bad \subseteq 1..n
    /\ sent \in 0..n
    /\ handled \in 0..sent
    /\ streamErr \in BOOLEAN
    /\ result \in {"none", "ok", "err"}
    /\ rpc \in {"idle", "init", "new", "send", "sync"}
    /\ init \in BOOLEAN
    /\ sync \in 0..1
    /\ closed \in BOOLEAN
    /\ npc \in {"idle", "sync", "recv", "nil", "released"}
    /\ held \in Nat
    /\ got \in Seq(Nat)
    /\ ctx \in BOOLEAN
    /\ rctx \in BOOLEAN

IterInit ==
    /\ ipc = "call" /\ n = 0 /\ bad = {} /\ sent = 0 /\ result = "none"
    /\ rpc = "idle" /\ init = FALSE /\ handled = 0 /\ streamErr = FALSE
    /\ sync = 0 /\ closed = FALSE
    /\ npc = "idle" /\ held = 0 /\ got = <<>>
    /\ ctx = FALSE /\ rctx = FALSE
-----------------------------------------------------------------------------
\* Server.Iter.

\* Binding the query's parameters fails: handler.Handler closes send, and
\* there is no call.
paramsFail ==
    /\ ipc = "call"
    /\ ipc' = "end"
    /\ result' = "err"
    /\ closed' = TRUE
    /\ UNCHANGED <<n, bad, sent, rpc, init, handled, streamErr, nvars, sync, ctx, rctx>>

\* The selector is refused.
selectorFails ==
    /\ ipc = "call"
    /\ ipc' = "return"
    /\ result' = "err"
    /\ UNCHANGED <<n, bad, sent, hvars, nvars, sync, ctx, rctx>>

\* The snapshot is taken: the query selects k records.
select(k, B) ==
    /\ ipc = "call"
    /\ ipc' = "bind"
    /\ n' = k
    /\ bad' = B
    /\ UNCHANGED <<sent, result, hvars, nvars, sync, ctx, rctx>>

\* The loop of Server.bind: it.Next, and a Recv call.
bind ==
    /\ ipc = "bind"
    /\ sent < n
    /\ ~streamErr
    /\ sent - handled < Window
    /\ sent' = sent + 1
    /\ UNCHANGED <<ipc, n, bad, result, hvars, nvars, sync, ctx, rctx>>

\* The iterator is exhausted; after a failure the calls that are left fail
\* without being made, and their errors are ignored.
bindEnd ==
    /\ ipc = "bind"
    /\ sent = n \/ streamErr
    /\ ipc' = "wait"
    /\ UNCHANGED <<n, bad, sent, result, hvars, nvars, sync, ctx, rctx>>

\* WaitStreaming, and the return of Iter.
WaitStreaming ==
    /\ ipc = "wait"
    /\ handled = sent
    /\ ipc' = "return"
    /\ result' = IF streamErr THEN "err" ELSE "ok"
    /\ UNCHANGED <<n, bad, sent, hvars, nvars, sync, ctx, rctx>>

\* handler.Shutdown.
Shutdown ==
    /\ ipc = "return"
    /\ ipc' = "end"
    /\ closed' = TRUE
    /\ UNCHANGED <<n, bad, sent, result, rpc, init, handled, streamErr, nvars, sync,
                   ctx, rctx>>
-----------------------------------------------------------------------------
\* handler.Recv.

\* Fault: every call waits for sync first.
RecvWaits ==
    /\ rpc = "idle"
    /\ handled < sent
    /\ rpc' = "init"
    /\ UNCHANGED <<svars, init, handled, streamErr, closed, nvars, sync, ctx, rctx>>

Recv ==
    /\ rpc = "idle"
    /\ handled < sent
    /\ rpc' = IF init THEN "new" ELSE "init"
    /\ UNCHANGED <<svars, init, handled, streamErr, closed, nvars, sync, ctx, rctx>>

recvInit ==
    /\ rpc = "init"
    /\ sync = 1
    /\ sync' = 0
    /\ init' = TRUE
    /\ rpc' = "new"
    /\ UNCHANGED <<svars, handled, streamErr, closed, nvars, ctx, rctx>>

\* The call returns, and its message is released.
recvReturn(err) ==
    /\ rpc' = "idle"
    /\ handled' = handled + 1
    /\ streamErr' = (streamErr \/ err)
    /\ UNCHANGED <<svars, init, closed, nvars, ctx, rctx>>

newRecord ==
    /\ rpc = "new"
    /\ UNCHANGED sync
    /\ IF handled + 1 \in bad
       THEN recvReturn(TRUE)
       ELSE /\ rpc' = "send"
            /\ UNCHANGED <<svars, init, handled, streamErr, closed, nvars, ctx, rctx>>

\* Fault: Recv returns as soon as it has sent.
recvSendReturns ==
    /\ rpc = "send"
    /\ npc = "recv"
    /\ rpc' = "idle"
    /\ handled' = handled + 1
    /\ npc' = "idle"
    /\ held' = handled + 1
    /\ got' = Append(got, handled + 1)
    /\ UNCHANGED <<svars, init, streamErr, closed, sync, ctx, rctx>>

\* h.send <- r: Next returns.
recvSend ==
    /\ rpc = "send"
    /\ npc = "recv"
    /\ rpc' = "sync"
    /\ npc' = "idle"
    /\ held' = handled + 1
    /\ got' = Append(got, handled + 1)
    /\ UNCHANGED <<svars, init, handled, streamErr, closed, sync, ctx, rctx>>

recvSync ==
    /\ rpc = "sync"
    /\ sync = 1
    /\ sync' = 0
    /\ recvReturn(FALSE)

\* Fault: a call that is told to stop does not report it.
recvDoneSilent ==
    /\ rpc \in {"init", "send", "sync"}
    /\ rctx
    /\ recvReturn(FALSE)
    /\ UNCHANGED sync

\* Fault: a record that nobody takes is offered for ever.
recvDoneNotSend ==
    /\ rpc \in {"init", "sync"}
    /\ rctx
    /\ recvReturn(TRUE)
    /\ UNCHANGED sync

\* Any of its selects, when the context of the call has ended.
recvDone ==
    /\ rpc \in {"init", "send", "sync"}
    /\ rctx
    /\ recvReturn(TRUE)
    /\ UNCHANGED sync
-----------------------------------------------------------------------------
\* The caller of Iter.

\* Next is called: the record before is given up.
nextCall ==
    /\ npc = "idle"
    /\ npc' = "sync"
    /\ held' = 0
    /\ UNCHANGED <<svars, hvars, got, sync, ctx, rctx>>

\* h.sync <- struct{}{}
nextSync ==
    /\ npc = "sync"
    /\ sync = 0
    /\ sync' = 1
    /\ npc' = "recv"
    /\ UNCHANGED <<svars, hvars, held, got, ctx, rctx>>

\* send is closed: Next returns nil.
nextNil ==
    /\ npc = "recv"
    /\ closed
    /\ npc' = "nil"
    /\ UNCHANGED <<svars, hvars, held, got, sync, ctx, rctx>>

\* The ReleaseFunc.
release ==
    /\ npc \in {"idle", "nil"}
    /\ npc' = "released"
    /\ held' = 0
    /\ ctx' = TRUE
    /\ UNCHANGED <<svars, hvars, got, sync, rctx>>

\* The context that was passed to Iter ends.
CtxDone ==
    /\ ~ctx
    /\ ctx' = TRUE
    /\ UNCHANGED <<svars, hvars, nvars, sync, rctx>>

\* The RPC system tells the server, and the server's calls are cancelled.
Cancel ==
    /\ ctx
    /\ ~rctx
    /\ rctx' = TRUE
    /\ UNCHANGED <<svars, hvars, nvars, sync, ctx>>

ServerStep == bind \/ bindEnd \/ WaitStreaming \/ Shutdown
RecvStep == Recv \/ recvInit \/ newRecord \/ recvSend \/ recvSync \/ recvDone

\* The first step of the call, which depends on the query, and the others.
IterCall ==
    \/ paramsFail \/ selectorFails
    \/ \E k \in 0..MaxRows : \E B \in SUBSET (1..k) : select(k, B)

IterNext ==
    \/ ServerStep \/ RecvStep
    \/ nextCall \/ nextSync \/ nextNil \/ release
    \/ CtxDone \/ Cancel

IterSpec == IterInit /\ [][IterCall \/ IterNext]_ivars

\* Goroutines run.
IterFairness ==
    /\ WF_ivars(bind) /\ WF_ivars(bindEnd) /\ WF_ivars(WaitStreaming) /\ WF_ivars(Shutdown)
    /\ WF_ivars(RecvStep) /\ WF_ivars(nextSync \/ nextNil) /\ WF_ivars(Cancel)
-----------------------------------------------------------------------------
(***************************************************************************)
(* Types, and where the two ends are.  Until calls are cancelled, sync     *)
(* holds a signal only while Next waits for the record it asks for, or     *)
(* when no record follows; and between two calls of Next a Recv holds the  *)
(* record, unless none was asked for yet.                                  *)
(***************************************************************************)
IterInv ==
    /\ IterTypeOK
    /\ ipc = "call" => sent = 0
    /\ rpc # "idle" => handled < sent
    /\ rpc = "init" => ~init
    /\ rpc \in {"new", "send", "sync"} => init
    /\ ipc \in {"return", "end"} => handled = sent
    /\ closed <=> ipc = "end"
    /\ held # 0 => npc = "idle"
    /\ npc = "nil" => closed
    /\ rctx => ctx
    /\ ~rctx /\ sync = 1 =>
          npc \in {"recv", "nil", "released"} /\ (init => rpc = "sync")
    /\ ~rctx /\ init /\ npc \in {"idle", "sync"} => rpc = "sync"

(***************************************************************************)
(* "Records returned by Next are valid until the next call to Next, or     *)
(* until the iterator is released" (client.go), while the context of the   *)
(* call lasts: the Recv call that owns the record's message has not        *)
(* returned.                                                               *)
(***************************************************************************)
RecordValid ==
    held # 0 => ctx \/ (rpc = "sync" /\ held = handled + 1)

(***************************************************************************)
(* Next returns the records in the server's order, and without a gap until *)
(* some Recv call has failed.                                              *)
(***************************************************************************)
InOrder ==
    /\ \A i, j \in 1..Len(got) : i < j => got[i] < got[j]
    /\ ~streamErr => \A i \in 1..Len(got) : got[i] = i

(***************************************************************************)
(* A caller that has seen nil, and no error, has got every record that the *)
(* query selected.                                                         *)
(***************************************************************************)
ExhaustedComplete ==
    npc = "nil" /\ result = "ok" => Len(got) = n /\ \A i \in 1..n : got[i] = i

(***************************************************************************)
(* While the context of the iteration lasts, a call of Next returns: the   *)
(* signals on sync and the records on send never leave the two goroutines  *)
(* waiting for each other, although the server may fail in between.        *)
(***************************************************************************)
NextAnswers == npc \in {"sync", "recv"} ~> npc \notin {"sync", "recv"} \/ ctx

(***************************************************************************)
(* Releasing the iterator, or the end of its context, ends the server's    *)
(* call, wherever the records are that it has sent.                        *)
(***************************************************************************)
IterReturns == ctx /\ ipc # "call" ~> ipc = "end"

(***************************************************************************)
(* Next "returns the next record in the stream.  If a call to Next returns *)
(* nil, the iterator is exhausted" (client.go); "When the stream is        *)
(* exhausted, Next returns nil" (routing.go): it always returns.           *)
(***************************************************************************)
NextReturns == npc \in {"sync", "recv"} ~> npc \notin {"sync", "recv"}
=============================================================================
