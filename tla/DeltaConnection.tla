--------------------------- MODULE DeltaConnection ---------------------------
(***************************************************************************)
(* The life of one delta xDS stream in sail/pkg/xds/delta.go: the handler  *)
(* StreamDeltas (admission checks, then the main loop with its two         *)
(* selects), the receiver goroutine receiveDelta, and the server's push    *)
(* producer that hands push events to the connection.                     *)
(*                                                                         *)
(* What a request or push does to the subscription state is DeltaXds's     *)
(* business; here a request is a token and handling it may succeed or     *)
(* fail (a generator or send error).  The channels are modelled with their *)
(* Go semantics: deltaReqChan is buffered with capacity 1, the error       *)
(* channel with capacity 1 (xds.NewConnection), the push channel is        *)
(* unbuffered, a receive from a closed channel first drains what is        *)
(* buffered, and select chooses among ready cases at random.               *)
(***************************************************************************)
EXTENDS Naturals, Sequences

CONSTANTS
    MaxRecv,   \* messages the remote side sends before it hangs up
    MaxPush    \* push events the producer offers

ASSUME MaxRecv \in Nat /\ MaxPush \in Nat

VARIABLES
    mpc,        \* StreamDeltas: "checks", "waitInit", "sel1", "sel2", "returned"
    result,     \* what StreamDeltas returned
    rpc,        \* receiveDelta: "none" (not started), "recv", "forward", "exited"
    first,      \* receiveDelta's firstRequest
    recvErr,    \* the error receiveDelta put on the error channel, if any
    inited,     \* initConnection succeeded (the proxy is registered)
    closed,     \* closeConnection ran (the proxy is deregistered)
    reqCh, reqClosed,   \* deltaReqChan
    errCh, errClosed,   \* con.ErrorCh()
    initClosed,         \* con.InitializedCh() is closed
    stopped,    \* con.StopCh() is closed
    ctxDone,    \* the stream context is done (the handler returned)
    ppc,        \* producer: "idle" or "offer" (blocked sending on PushCh)
    recvd, pushes, forwarded, processed

vars == <<mpc, result, rpc, first, recvErr, inited, closed, reqCh, reqClosed,
          errCh, errClosed, initClosed, stopped, ctxDone, ppc,
          recvd, pushes, forwarded, processed>>

Errors == {"transport", "invalid", "initErr"}
Results == {"none", "nil", "procErr", "notReady", "exhausted", "unauth"} \cup Errors

-----------------------------------------------------------------------------
(* StreamDeltas                                                            *)

\* The handler returns; gRPC then cancels the stream context.
Return(r) == /\ mpc' = "returned"
             /\ result' = r
             /\ ctxDone' = TRUE

\* IsServerReady, WaitForRequestLimit and authenticate: any may fail and
\* end the stream before a receiver exists; otherwise the connection is
\* created and receiveDelta started.
AdmissionChecks ==
    /\ mpc = "checks"
    /\ \/ \E r \in {"notReady", "exhausted", "unauth"} : Return(r) /\ UNCHANGED rpc
       \/ /\ mpc' = "waitInit"
          /\ rpc' = "recv"
          /\ UNCHANGED <<result, ctxDone>>
    /\ UNCHANGED <<first, recvErr, inited, closed, reqCh, reqClosed, errCh,
                   errClosed, initClosed, stopped, ppc, recvd, pushes,
                   forwarded, processed>>

\* <-con.InitializedCh()
WaitInitialized ==
    /\ mpc = "waitInit" /\ initClosed
    /\ mpc' = "sel1"
    /\ UNCHANGED <<result, rpc, first, recvErr, inited, closed, reqCh, reqClosed,
                   errCh, errClosed, initClosed, stopped, ctxDone, ppc, recvd,
                   pushes, forwarded, processed>>

\* case req, ok := <-con.deltaReqChan with ok: processDeltaRequest, which
\* may fail and end the stream.  nxt is the label after it.
HandleRequest(nxt) ==
    /\ reqCh # <<>>
    /\ reqCh' = Tail(reqCh)
    /\ processed' = processed + 1
    /\ \/ mpc' = nxt /\ UNCHANGED <<result, ctxDone>>
       \/ Return("procErr")

\* Variant of HandleClosed that ignores !ok and goes round the loop again
\* with the zero value a closed channel yields.
HandleClosedSpin ==
    /\ reqCh = <<>> /\ reqClosed
    /\ mpc' = IF mpc = "sel1" THEN "sel2" ELSE "sel1"
    /\ UNCHANGED <<result, ctxDone>>

\* case with !ok: the channel is closed and drained; return <-con.ErrorCh(),
\* the receiver's error or nil once the error channel is closed.
HandleClosed ==
    /\ reqCh = <<>> /\ reqClosed
    /\ errCh # <<>> \/ errClosed
    /\ Return(IF errCh # <<>> THEN Head(errCh) ELSE "nil")

\* case <-con.StopCh(): return nil.
HandleStop == stopped /\ Return("nil")

\* The first select: a ready request or stop is taken; with none ready the
\* default case falls through to the second select.
Select1 ==
    /\ mpc = "sel1"
    /\ \/ HandleRequest("sel2") /\ UNCHANGED errCh
       \/ HandleClosed /\ UNCHANGED <<reqCh, processed, errCh>>
       \/ HandleStop /\ UNCHANGED <<reqCh, processed, errCh>>
       \/ /\ ~(reqCh # <<>> \/ reqClosed \/ stopped)
          /\ mpc' = "sel2"
          /\ UNCHANGED <<result, ctxDone, reqCh, processed, errCh>>
    /\ UNCHANGED <<rpc, first, recvErr, inited, closed, reqClosed, errClosed,
                   initClosed, stopped, ppc, recvd, pushes, forwarded>>

\* case ev := <-con.PushCh(): pushConnectionDelta, then ev.done(); an
\* error of the push ends the stream.
HandlePush ==
    /\ ppc = "offer"
    /\ ppc' = "idle"
    /\ \/ mpc' = "sel1" /\ UNCHANGED <<result, ctxDone>>
       \/ Return("procErr")

\* The second select blocks until a request, a push event or stop is ready.
Select2 ==
    /\ mpc = "sel2"
    /\ \/ HandleRequest("sel1") /\ UNCHANGED <<errCh, ppc>>
       \/ HandleClosed /\ UNCHANGED <<reqCh, processed, errCh, ppc>>
       \/ HandlePush /\ UNCHANGED <<reqCh, processed, errCh>>
       \/ HandleStop /\ UNCHANGED <<reqCh, processed, errCh, ppc>>
    /\ UNCHANGED <<rpc, first, recvErr, inited, closed, reqClosed, errClosed,
                   initClosed, stopped, recvd, pushes, forwarded>>

-----------------------------------------------------------------------------
(* receiveDelta                                                            *)

\* Leave receiveDelta, first sending err (if any) on the error channel
\* (capacity 1, sent at most once, so it never blocks).  The deferred calls
\* run last-in first-out: closeConnection (deferred only once
\* initConnection succeeded), then close deltaReqChan, close ErrorCh and
\* close InitializedCh unless it is already closed.
ReceiverExit(err) ==
    /\ rpc' = "exited"
    /\ errCh' = IF err = "none" THEN errCh ELSE Append(errCh, err)
    /\ recvErr' = err
    /\ closed' = inited
    /\ reqClosed' = TRUE
    /\ errClosed' = TRUE
    /\ initClosed' = TRUE

\* con.deltaStream.Recv() returns a message.  Before the first real
\* request a health probe is skipped; the first request must carry a node
\* id, and then initConnection registers the proxy (and marks the
\* connection initialized) or fails.
RecvMessage ==
    /\ rpc = "recv" /\ ~ctxDone /\ recvd < MaxRecv
    /\ recvd' = recvd + 1
    /\ \/ /\ ~first
          /\ rpc' = "forward"
          /\ UNCHANGED <<first, recvErr, inited, closed, errCh, reqClosed,
                         errClosed, initClosed>>
       \/ /\ first  \* health probe before the first request
          /\ UNCHANGED <<rpc, first, recvErr, inited, closed, errCh, reqClosed,
                         errClosed, initClosed>>
       \/ /\ first  \* missing node information
          /\ first' = FALSE
          /\ ReceiverExit("invalid")
          /\ UNCHANGED inited
       \/ /\ first  \* initConnection fails
          /\ first' = FALSE
          /\ ReceiverExit("initErr")
          /\ UNCHANGED inited
       \/ /\ first  \* initConnection succeeds
          /\ first' = FALSE
          /\ inited' = TRUE
          /\ initClosed' = TRUE
          /\ rpc' = "forward"
          /\ UNCHANGED <<recvErr, closed, errCh, reqClosed, errClosed>>
    /\ UNCHANGED <<mpc, result, reqCh, stopped, ctxDone, ppc, pushes,
                   forwarded, processed>>

\* Recv() fails: an expected termination (EOF, cancellation; always the
\* case once the context is done) returns quietly, an unexpected one is
\* reported on the error channel.
RecvError ==
    /\ rpc = "recv"
    /\ \/ ReceiverExit("none")
       \/ ~ctxDone /\ ReceiverExit("transport")
    /\ UNCHANGED <<mpc, result, first, inited, reqCh, stopped, ctxDone, ppc,
                   recvd, pushes, forwarded, processed>>

\* Variant of Forward that ignores the channel's capacity.
ForwardUnbounded ==
    /\ rpc = "forward"
    /\ \/ /\ reqCh' = Append(reqCh, "req")
          /\ forwarded' = forwarded + 1
          /\ rpc' = "recv"
          /\ UNCHANGED <<recvErr, closed, errCh, reqClosed, errClosed, initClosed>>
       \/ /\ ctxDone
          /\ ReceiverExit("none")
          /\ UNCHANGED <<reqCh, forwarded>>
    /\ UNCHANGED <<mpc, result, first, inited, stopped, ctxDone, ppc, recvd,
                   pushes, processed>>

\* Variant of Forward whose send does not block: with the channel full the
\* request is dropped (select with a default case).
ForwardNonBlocking ==
    /\ rpc = "forward"
    /\ \/ /\ reqCh' = IF Len(reqCh) < 1 THEN Append(reqCh, "req") ELSE reqCh
          /\ forwarded' = IF Len(reqCh) < 1 THEN forwarded + 1 ELSE forwarded
          /\ rpc' = "recv"
          /\ UNCHANGED <<recvErr, closed, errCh, reqClosed, errClosed, initClosed>>
       \/ /\ ctxDone
          /\ ReceiverExit("none")
          /\ UNCHANGED <<reqCh, forwarded>>
    /\ UNCHANGED <<mpc, result, first, inited, stopped, ctxDone, ppc, recvd,
                   pushes, processed>>

\* select { case con.deltaReqChan <- req: case <-ctx.Done(): return }
Forward ==
    /\ rpc = "forward"
    /\ \/ /\ Len(reqCh) < 1
          /\ reqCh' = Append(reqCh, "req")
          /\ forwarded' = forwarded + 1
          /\ rpc' = "recv"
          /\ UNCHANGED <<recvErr, closed, errCh, reqClosed, errClosed, initClosed>>
       \/ /\ ctxDone
          /\ ReceiverExit("none")
          /\ UNCHANGED <<reqCh, forwarded>>
    /\ UNCHANGED <<mpc, result, first, inited, stopped, ctxDone, ppc, recvd,
                   pushes, processed>>

-----------------------------------------------------------------------------
(* The server side around the connection (outside delta.go)                *)

\* A push event for a registered connection: the producer blocks on the
\* unbuffered PushCh until the main loop takes it, or gives up once the
\* stream is done.
OfferPush ==
    /\ ppc = "idle" /\ inited /\ ~closed /\ pushes < MaxPush
    /\ ppc' = "offer"
    /\ pushes' = pushes + 1
    /\ UNCHANGED <<mpc, result, rpc, first, recvErr, inited, closed, reqCh,
                   reqClosed, errCh, errClosed, initClosed, stopped, ctxDone,
                   recvd, forwarded, processed>>

AbandonPush ==
    /\ ppc = "offer" /\ ctxDone
    /\ ppc' = "idle"
    /\ UNCHANGED <<mpc, result, rpc, first, recvErr, inited, closed, reqCh,
                   reqClosed, errCh, errClosed, initClosed, stopped, ctxDone,
                   recvd, pushes, forwarded, processed>>

\* The server asks a registered connection to stop (closes StopCh).
Stop ==
    /\ ~stopped /\ inited /\ ~closed
    /\ stopped' = TRUE
    /\ UNCHANGED <<mpc, result, rpc, first, recvErr, inited, closed, reqCh,
                   reqClosed, errCh, errClosed, initClosed, ctxDone, ppc,
                   recvd, pushes, forwarded, processed>>

\* Everything has ended; the stream is gone.
Terminated ==
    /\ mpc = "returned" /\ rpc \in {"none", "exited"} /\ ppc = "idle"
    /\ UNCHANGED vars

-----------------------------------------------------------------------------

Init ==
    /\ mpc = "checks" /\ result = "none"
    /\ rpc = "none" /\ first = TRUE /\ recvErr = "none"
    /\ inited = FALSE /\ closed = FALSE
    /\ reqCh = <<>> /\ reqClosed = FALSE
    /\ errCh = <<>> /\ errClosed = FALSE
    /\ initClosed = FALSE /\ stopped = FALSE /\ ctxDone = FALSE
    /\ ppc = "idle"
    /\ recvd = 0 /\ pushes = 0 /\ forwarded = 0 /\ processed = 0

Next ==
    \/ AdmissionChecks \/ WaitInitialized \/ Select1 \/ Select2
    \/ RecvMessage \/ RecvError \/ Forward
    \/ OfferPush \/ AbandonPush \/ Stop
    \/ Terminated

\* Every goroutine runs when it can: the handler, the receiver, the
\* producer (its give-up branch) and the remote side's eventual hang-up.
Fairness ==
    /\ WF_vars(AdmissionChecks) /\ WF_vars(WaitInitialized)
    /\ WF_vars(Select1) /\ WF_vars(Select2)
    /\ WF_vars(RecvError) /\ WF_vars(Forward) /\ WF_vars(AbandonPush)

Spec == Init /\ [][Next]_vars /\ Fairness

-----------------------------------------------------------------------------

TypeOK ==
    /\ mpc \in {"checks", "waitInit", "sel1", "sel2", "returned"}
    /\ result \in Results
    /\ rpc \in {"none", "recv", "forward", "exited"}
    /\ recvErr \in Errors \cup {"none"}
    /\ {first, inited, closed, reqClosed, errClosed, initClosed, stopped, ctxDone}
          \subseteq BOOLEAN
    /\ reqCh \in Seq({"req"}) /\ Len(reqCh) <= 1
    /\ errCh \in Seq(Errors) /\ Len(errCh) <= 1
    /\ ppc \in {"idle", "offer"}
    /\ {recvd, pushes, forwarded, processed} \subseteq Nat

\* The stream always ends: the handler returns, the receiver exits and no
\* push producer stays blocked on the push channel.
StreamEnds == <>(mpc = "returned" /\ rpc \in {"none", "exited"} /\ ppc = "idle")

-----------------------------------------------------------------------------
(* Refinement of the stream lifecycle of spec.md 4.3                       *)

\* The lifecycle phase the goroutines are in: the handler's label, except
\* that once the receiver has exited the stream is Draining.
LifecyclePhase ==
    CASE mpc = "checks"          -> "Opening"
      [] mpc = "returned"        -> "Closed"
      [] rpc = "exited"          -> "Draining"
      [] mpc \in {"sel1", "sel2"} -> "Active"
      [] OTHER                   -> "AwaitingFirstRequest"

\* A request is accepted once the receiver has read it: the one it holds
\* while blocked on the send and the one buffered in deltaReqChan.
Accepted == Len(reqCh) + (IF rpc = "forward" THEN 1 ELSE 0)

Lifecycle == INSTANCE DeltaStreamLifecycle
    WITH PeerErrors <- Errors, InitErrors <- {"invalid", "initErr"},
         RejectResults <- {"notReady", "exhausted", "unauth"},
         phase <- LifecyclePhase, pending <- Accepted,
         peerGone <- rpc = "exited", peerErr <- recvErr,
         registered <- inited, released <- closed, stopReq <- stopped,
         result <- result

\* StreamDeltas and receiveDelta together implement the lifecycle of
\* spec.md 4.3: the buffered channel, the deferred closes and the two
\* selects never lose an accepted request before the stream is closed,
\* end a drained stream with the receiver's error, and, under the
\* goroutines' fairness, handle what was accepted and close.
ImplementsLifecycle == Lifecycle!LSpec
=============================================================================
