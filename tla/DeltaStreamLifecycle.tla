------------------------ MODULE DeltaStreamLifecycle ------------------------
(***************************************************************************)
(* What one delta xDS stream promises, as spec.md 4.3 states it: a stream  *)
(* is admitted (or refused), waits for its first request, is Active while *)
(* the peer sends, Drains what the peer sent once the peer has gone, and   *)
(* is Closed.  Requests are a count: those the server has accepted from    *)
(* the peer and not yet handled.  A stream ends                            *)
(*   - refused by an admission check, before any request;                  *)
(*   - by a failure of the request or push being handled;                  *)
(*   - on Stop;                                                            *)
(*   - after the peer has gone and every accepted request is handled, with *)
(*     the error the peer side reported, or cleanly.                       *)
(* Accepted requests may be left unhandled only once the stream is Closed. *)
(* This module says nothing of how; DeltaConnection is shown to implement  *)
(* it.                                                                     *)
(***************************************************************************)
EXTENDS Naturals

CONSTANTS
    PeerErrors,     \* errors the receiving side may end with
    InitErrors,     \* those of them only a first request can cause
    RejectResults   \* results of a refused stream

VARIABLES
    phase,      \* "Opening", "AwaitingFirstRequest", "Active", "Draining", "Closed"
    pending,    \* requests accepted from the peer and not handled
    peerGone,   \* the peer side has ended
    peerErr,    \* the error it ended with, or "none"
    registered, \* the proxy was registered by the first request
    released,   \* the proxy was deregistered
    stopReq,    \* the server asked the stream to stop
    result      \* what the stream ended with, "none" before

lvars == <<phase, pending, peerGone, peerErr, registered, released, stopReq, result>>

Serving == {"Active", "Draining"}

Close(r) == phase' = "Closed" /\ result' = r

Reject ==
    /\ phase = "Opening"
    /\ \E r \in RejectResults : Close(r)
    /\ UNCHANGED <<pending, peerGone, peerErr, registered, released, stopReq>>

Admit ==
    /\ phase = "Opening"
    /\ phase' = "AwaitingFirstRequest"
    /\ UNCHANGED <<pending, peerGone, peerErr, registered, released, stopReq, result>>

\* The first request registers the proxy and is accepted.
Register ==
    /\ phase = "AwaitingFirstRequest" /\ ~peerGone /\ ~registered
    /\ registered' = TRUE
    /\ pending' = pending + 1
    /\ UNCHANGED <<phase, peerGone, peerErr, released, stopReq, result>>

Activate ==
    /\ phase = "AwaitingFirstRequest" /\ registered /\ ~peerGone
    /\ phase' = "Active"
    /\ UNCHANGED <<pending, peerGone, peerErr, registered, released, stopReq, result>>

Receive ==
    /\ phase \in {"AwaitingFirstRequest", "Active"} /\ registered /\ ~peerGone
    /\ pending' = pending + 1
    /\ UNCHANGED <<phase, peerGone, peerErr, registered, released, stopReq, result>>

\* The peer side ends, releasing the proxy it registered.  It reports an
\* error only while the stream is open, an initialization error only
\* before registration; accepted requests may be dropped only once Closed.
PeerEnds ==
    /\ phase # "Opening" /\ ~peerGone
    /\ \E e \in {"none"} \cup
              IF phase = "Closed" THEN {}
              ELSE IF registered THEN PeerErrors \ InitErrors ELSE PeerErrors :
          peerErr' = e
    /\ peerGone' = TRUE
    /\ released' = registered
    /\ phase' = IF phase = "Closed" THEN "Closed" ELSE "Draining"
    /\ pending' \in IF phase = "Closed" THEN 0..pending ELSE {pending}
    /\ UNCHANGED <<registered, stopReq, result>>

\* The oldest accepted request is handled; its failure ends the stream.
Handle ==
    /\ phase \in Serving /\ pending > 0
    /\ pending' = pending - 1
    /\ \/ UNCHANGED <<phase, result>>
       \/ Close("procErr")
    /\ UNCHANGED <<peerGone, peerErr, registered, released, stopReq>>

\* A push event fails.
PushFails ==
    /\ phase \in Serving
    /\ Close("procErr")
    /\ UNCHANGED <<pending, peerGone, peerErr, registered, released, stopReq>>

\* Nothing accepted is left: the stream ends with the peer's error.
Finish ==
    /\ phase = "Draining" /\ pending = 0
    /\ Close(IF peerErr = "none" THEN "nil" ELSE peerErr)
    /\ UNCHANGED <<pending, peerGone, peerErr, registered, released, stopReq>>

RequestStop ==
    /\ registered /\ ~released /\ ~stopReq
    /\ stopReq' = TRUE
    /\ UNCHANGED <<phase, pending, peerGone, peerErr, registered, released, result>>

HonourStop ==
    /\ phase \in Serving /\ stopReq
    /\ Close("nil")
    /\ UNCHANGED <<pending, peerGone, peerErr, registered, released, stopReq>>

LInit ==
    /\ phase = "Opening" /\ pending = 0
    /\ peerGone = FALSE /\ peerErr = "none"
    /\ registered = FALSE /\ released = FALSE /\ stopReq = FALSE
    /\ result = "none"

LNext ==
    \/ Reject \/ Admit \/ Register \/ Activate \/ Receive \/ PeerEnds
    \/ Handle \/ PushFails \/ Finish \/ RequestStop \/ HonourStop

\* A registered stream becomes Active, accepted requests are handled and a
\* drained stream closes, whenever nothing else happens first.
LFairness == WF_lvars(Activate) /\ WF_lvars(Handle) /\ WF_lvars(Finish)

LSpec == LInit /\ [][LNext]_lvars /\ LFairness
=============================================================================
