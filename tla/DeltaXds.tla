------------------------------ MODULE DeltaXds ------------------------------
(***************************************************************************)
(* The delta (incremental) xDS protocol of one connection, as served by    *)
(* sail/pkg/xds/delta.go: request admission (shouldRespondDelta), the      *)
(* request-triggered response (processDeltaRequest, forceEDSPush), the     *)
(* push of a configuration event (pushConnectionDelta) and the building    *)
(* and sending of one response (pushDeltaXds, sendDelta).                  *)
(*                                                                         *)
(* The connection's main loop handles one request or one push event at a  *)
(* time and runs each to completion, so each handler is one atomic action. *)
(* The gRPC stream is two reliable FIFO channels, c2s and s2c; the data    *)
(* plane proxy at the other end is the environment and is modelled by the *)
(* requests an xDS client sends (Client* actions).                         *)
(*                                                                         *)
(* Resources are abstracted to their names: a configuration snapshot maps  *)
(* each type URL to the names that exist.  A nonce is a number: the code's *)
(* nonce is version + uuid, unique per response, and that uniqueness is    *)
(* all the protocol uses.  0 stands for the empty nonce "".                *)
(***************************************************************************)
EXTENDS Naturals, Sequences, SequencesExt, ResourceSetAlgebra

CONSTANTS
    Types,          \* watched type URLs modelled (CDS, EDS, ...)
    ClusterType,    \* v3.ClusterType
    EndpointType,   \* v3.EndpointType
    AddressType,    \* v3.AddressType: not auto-populated under wildcard
    HealthInfoType, \* v3.HealthInfoType: health probes, ignored
    DebugType,      \* a type URL with the v3.DebugType prefix
    TypeOrder,      \* the order of watchedResourcesByOrder, a sequence of Types
    NoWR,           \* "no WatchedResource for this type"
    MaxReq,         \* bound on requests the client starts and on NACKs
    MaxConfig,      \* bound on configuration changes
    WildcardClient, \* the client may open a type with an empty subscribe list
    StarClient,     \* the client may (un)subscribe the literal "*"
    PiggybackSubs,  \* the client may carry a subscription change on an ACK
    NackFirstClient,\* the client may NACK a type it never requested
    MaxReconnect    \* bound on streams the client breaks and opens again

ASSUME /\ {ClusterType, EndpointType} \subseteq Types
       /\ {HealthInfoType, DebugType} \cap Types = {}
       /\ ToSet(TypeOrder) = Types /\ Len(TypeOrder) = Cardinality(Types)
       /\ MaxReq \in Nat /\ MaxConfig \in Nat /\ MaxReconnect \in Nat
       /\ {WildcardClient, StarClient, PiggybackSubs, NackFirstClient} \subseteq BOOLEAN

VARIABLES
    snapshot,  \* the newest configuration: type -> names that exist
    pushCtx,   \* con.proxy.LastPushContext, the snapshot of the last full push
    events,    \* push events not yet taken by the main loop, oldest first
    wr,        \* con.proxy.WatchedResources: type -> WatchedResource or NoWR
    nonce,     \* the last nonce handed out
    panicked,  \* the server goroutine panicked (a nil dereference)
    c2s,       \* requests on the stream, oldest first
    s2c,       \* responses on the stream, oldest first
    cOpen,     \* client: it has sent the first request of the type
    cWant,     \* client: the names it has subscribed
    cWild,     \* client: it subscribes the type as a wildcard
    cNonce,    \* client: the nonce of the last response it received
    cHas,      \* client: the names it holds
    warming,   \* client: clusters received and waiting for endpoints
    resub,     \* client (history): what it held when it last (re)opened the
               \*   type, less what it unsubscribed since
    reqCount, cfgCount, connCount

server == <<snapshot, pushCtx, events, wr, nonce, panicked>>
client == <<cOpen, cWant, cWild, cNonce, cHas, warming, resub>>
vars == <<server, client, c2s, s2c, reqCount, cfgCount, connCount>>

RequestTypes == Types \cup {HealthInfoType, DebugType}
Nonces == 0..(2 * MaxReq + Cardinality(Types) * MaxConfig + 2)

\* model.WatchedResource, without LastSendTime and AlwaysRespond (nothing
\* under src/ sets AlwaysRespond, so it is always false there).
WatchedResource == [names : SUBSET Names, wildcard : BOOLEAN,
                    nonceSent : Nonces, nonceAcked : Nonces, lastError : BOOLEAN]

\* discovery.DeltaDiscoveryRequest; the ErrorDetail is reduced to its
\* presence and InitialResourceVersions to its keys.
Request == [type : RequestTypes, sub : SUBSET Word, unsub : SUBSET Word,
            iv : SUBSET Names, nonce : Nonces, error : BOOLEAN]

\* discovery.DeltaDiscoveryResponse.
Response == [type : Types \cup {DebugType}, nonce : Nonces,
             res : SUBSET Names, removed : SUBSET Names]

-----------------------------------------------------------------------------
(* Server side                                                             *)

\* The generator of a type (external, spec 6): a full-set
\* XdsResourceGenerator returning the resources of the push context that
\* the WatchedResource selects.
Generate(t, w, ctx) == IF w.wildcard THEN ctx[t] ELSE w.names \cap ctx[t]

\* Variant of DeltaResponse that never lists removed resources.
DeltaResponseNoRemoval(t, w, ctx, n) ==
    [type |-> t, nonce |-> n, res |-> Generate(t, w, ctx), removed |-> {}]

\* pushDeltaXds for one WatchedResource with a Full request and a generator
\* that did not use delta semantics: removed = w.ResourceNames minus the
\* names generated.  n is the nonce the response carries.
DeltaResponse(t, w, ctx, n) ==
    LET res == Generate(t, w, ctx)
    IN  [type |-> t, nonce |-> n, res |-> res, removed |-> w.names \ res]

\* pushDeltaXds for each type of ts in turn, each followed by sendDelta,
\* which records the nonce as NonceSent.  newResourceNames is never set in
\* pushDeltaXds, so ResourceNames is left as it is.
PushTypes(ts, wrs, ctx) ==
    /\ s2c' = s2c \o [i \in DOMAIN ts |-> DeltaResponse(ts[i], wrs[ts[i]], ctx, nonce + i)]
    /\ nonce' = nonce + Len(ts)
    /\ wr' = [t \in Types |->
                IF t \in ToSet(ts)
                THEN [wrs[t] EXCEPT !.nonceSent = nonce + (CHOOSE i \in DOMAIN ts : ts[i] = t)]
                ELSE wrs[t]]

\* Variant of NewWatchedResource that ignores InitialResourceVersions.
NewWatchedResourceNoInitial(r) ==
    LET init == DeltaWatchedResources({}, r.sub, r.unsub, {})
    IN  [names |-> IF r.type = AddressType /\ init.wildcard THEN {} ELSE init.names,
         wildcard |-> init.wildcard,
         nonceSent |-> 0, nonceAcked |-> 0, lastError |-> FALSE]

\* The WatchedResource shouldRespondDelta creates for the first request of
\* a type on a stream: the names of the subscribe list and of
\* InitialResourceVersions, none for a wildcard AddressType.
NewWatchedResource(r) ==
    LET init == DeltaWatchedResources({}, r.sub, r.unsub, r.iv)
    IN  [names |-> IF r.type = AddressType /\ init.wildcard THEN {} ELSE init.names,
         wildcard |-> init.wildcard,
         nonceSent |-> 0, nonceAcked |-> 0, lastError |-> FALSE]

\* Variant of ShouldRespondDelta whose expired-nonce test also rejects
\* spontaneous requests (the `request.ResponseNonce != ""` test dropped).
ShouldRespondDeltaStrictNonce(r) ==
    LET t    == r.type
        prev == wr[t]
        upd  == DeltaWatchedResources(prev.names, r.sub, r.unsub, r.iv)
        spontaneous == r.nonce = 0
    IN  CASE r.error ->
               \* ACK ERROR: record it, never answer (NilDeref below when
               \* there is no WatchedResource to record it on)
               [w |-> IF prev = NoWR THEN NoWR ELSE [prev EXCEPT !.lastError = TRUE],
                respond |-> FALSE]
          [] prev = NoWR ->
               \* first request of the type: create and always answer
               [w |-> NewWatchedResource(r), respond |-> TRUE]
          [] r.nonce # prev.nonceSent ->
               \* expired nonce: ignored
               [w |-> prev, respond |-> FALSE]
          [] OTHER ->
               \* the wildcard result is dropped: only names are updated
               [w |-> [prev EXCEPT !.names = upd.names,
                                   !.lastError = IF spontaneous THEN @ ELSE FALSE,
                                   !.nonceAcked = IF spontaneous THEN @ ELSE r.nonce],
                respond |-> upd.changed]

\* shouldRespondDelta: the WatchedResource of r.type after the request, and
\* whether the request is answered.
ShouldRespondDelta(r) ==
    LET t    == r.type
        prev == wr[t]
        upd  == DeltaWatchedResources(prev.names, r.sub, r.unsub, r.iv)
        spontaneous == r.nonce = 0
    IN  CASE r.error ->
               \* ACK ERROR: record it, never answer (NilDeref below when
               \* there is no WatchedResource to record it on)
               [w |-> IF prev = NoWR THEN NoWR ELSE [prev EXCEPT !.lastError = TRUE],
                respond |-> FALSE]
          [] prev = NoWR ->
               \* first request of the type: create and always answer
               [w |-> NewWatchedResource(r), respond |-> TRUE]
          [] ~spontaneous /\ r.nonce # prev.nonceSent ->
               \* expired nonce: ignored
               [w |-> prev, respond |-> FALSE]
          [] OTHER ->
               \* the wildcard result is dropped: only names are updated
               [w |-> [prev EXCEPT !.names = upd.names,
                                   !.lastError = IF spontaneous THEN @ ELSE FALSE,
                                   !.nonceAcked = IF spontaneous THEN @ ELSE r.nonce],
                respond |-> upd.changed]

\* The ACK ERROR branch of shouldRespondDelta records the message through
\* UpdateWatchedResource, whose callback writes wr.LastError without a nil
\* check.  For a type with no WatchedResource the callback is handed nil
\* (as the nil check of sendDelta's callback expects), and the write
\* panics in the StreamDeltas goroutine.
NilDeref(r) == r.error /\ wr[r.type] = NoWR

\* forceEDSPush: after a CDS response, push EDS if it is watched.
forceEDSPush(wrs) == IF wrs[EndpointType] # NoWR THEN <<EndpointType>> ELSE <<>>

\* Variant of RequestPushTypes without the forced EDS push.
RequestPushTypesNoForce(t, wrs) == <<t>>

\* The types processDeltaRequest pushes after answering a request of type t.
RequestPushTypes(t, wrs) ==
    <<t>> \o (IF t = ClusterType THEN forceEDSPush(wrs) ELSE <<>>)

\* Variant of SendDebug that lets sendDelta record the debug type in the
\* registry (the DebugType prefix test dropped).
SendDebugRegistered ==
    /\ s2c' = Append(s2c, [type |-> DebugType, nonce |-> nonce + 1,
                           res |-> {}, removed |-> {}])
    /\ nonce' = nonce + 1
    /\ wr' = wr @@ (DebugType :> [names |-> {}, wildcard |-> FALSE,
                                  nonceSent |-> nonce + 1, nonceAcked |-> 0,
                                  lastError |-> FALSE])

\* A debug request is pushed with a throw-away WatchedResource (no
\* resources are modelled for debug generators); sendDelta leaves the
\* registry alone for debug types.
SendDebug ==
    /\ s2c' = Append(s2c, [type |-> DebugType, nonce |-> nonce + 1,
                           res |-> {}, removed |-> {}])
    /\ nonce' = nonce + 1
    /\ UNCHANGED wr

\* processDeltaRequest for the request at the head of the stream.
ProcessDeltaRequest ==
    /\ ~panicked /\ c2s # <<>>
    /\ c2s' = Tail(c2s)
    /\ LET r == Head(c2s) IN
       \/ /\ r.type = HealthInfoType
          /\ UNCHANGED <<wr, nonce, s2c, panicked>>
       \/ /\ r.type = DebugType
          /\ SendDebug /\ UNCHANGED panicked
       \/ /\ r.type \in Types
          /\ panicked' = NilDeref(r)
          /\ LET d   == ShouldRespondDelta(r)
                 wrs == [wr EXCEPT ![r.type] = d.w]
             IN  IF d.respond
                 THEN PushTypes(RequestPushTypes(r.type, wrs), wrs, pushCtx)
                 ELSE /\ wr' = wrs
                      /\ UNCHANGED <<nonce, s2c>>
    /\ UNCHANGED <<snapshot, pushCtx, events, client, reqCount, cfgCount, connCount>>

\* con.watchedResourcesByOrder(): the watched types in a fixed order.
watchedResourcesByOrder == SelectSeq(TypeOrder, LAMBDA t : wr[t] # NoWR)

\* pushConnectionDelta for the oldest push event: a full push first
\* updates the proxy's push context (computeProxyState); the proxy is
\* assumed to need the push (ProxyNeedsPush); then every watched type is
\* pushed in order.
PushConnectionDelta ==
    /\ ~panicked /\ events # <<>>
    /\ events' = Tail(events)
    /\ pushCtx' = Head(events)
    /\ PushTypes(watchedResourcesByOrder, wr, Head(events))
    /\ UNCHANGED <<snapshot, panicked, c2s, client, reqCount, cfgCount, connCount>>

\* A configuration change (outside this code) adds or removes one resource
\* and enqueues a full push event carrying the new snapshot.
ConfigChange(t, n) ==
    /\ cfgCount < MaxConfig
    /\ cfgCount' = cfgCount + 1
    /\ snapshot' = [snapshot EXCEPT ![t] = IF n \in @ THEN @ \ {n} ELSE @ \cup {n}]
    /\ events' = Append(events, snapshot')
    /\ UNCHANGED <<pushCtx, wr, nonce, panicked, c2s, s2c, client, reqCount, connCount>>

-----------------------------------------------------------------------------
(* The xDS client at the other end of the stream (environment)             *)

Send(r) == c2s' = Append(c2s, r)
NewRequest(t, sub, unsub, n) ==
    [type |-> t, sub |-> sub, unsub |-> unsub, iv |-> {}, nonce |-> n, error |-> FALSE]

\* Nonces a subscription change may carry: none, or the last one received
\* when the client piggybacks changes on an ACK.
ChangeNonces(t) == {0} \cup (IF PiggybackSubs THEN {cNonce[t]} ELSE {})

\* A request the client starts; the server and s2c are left alone.
StartRequest == /\ reqCount < MaxReq
                /\ reqCount' = reqCount + 1
                /\ UNCHANGED <<server, s2c, cfgCount, connCount>>

\* First request of a type: an explicit list, or an empty one (wildcard).
ClientOpen(t, s) ==
    /\ ~cOpen[t] /\ cWant[t] = {} /\ ~cWild[t]
    /\ s # {} \/ WildcardClient
    /\ StartRequest
    /\ Send(NewRequest(t, s, {}, 0))
    /\ cOpen' = [cOpen EXCEPT ![t] = TRUE]
    /\ cWant' = [cWant EXCEPT ![t] = s]
    /\ cWild' = [cWild EXCEPT ![t] = s = {}]
    /\ resub' = [resub EXCEPT ![t] = {}]
    /\ UNCHANGED <<cNonce, cHas, warming>>

ClientSubscribe(t, n) ==
    /\ cOpen[t] /\ n \notin cWant[t]
    /\ StartRequest
    /\ \E k \in ChangeNonces(t) : Send(NewRequest(t, {n}, {}, k))
    /\ cWant' = [cWant EXCEPT ![t] = @ \cup {n}]
    /\ UNCHANGED <<cOpen, cWild, cNonce, cHas, warming, resub>>

\* Unsubscribing drops the resource on the client side at once.
ClientUnsubscribe(t, n) ==
    /\ cOpen[t] /\ n \in cWant[t]
    /\ StartRequest
    /\ \E k \in ChangeNonces(t) : Send(NewRequest(t, {}, {n}, k))
    /\ cWant' = [cWant EXCEPT ![t] = @ \ {n}]
    /\ cHas' = [cHas EXCEPT ![t] = IF cWild[t] THEN @ ELSE @ \ {n}]
    /\ resub' = [resub EXCEPT ![t] = @ \ {n}]
    /\ UNCHANGED <<cOpen, cWild, cNonce, warming>>

\* Subscribing "*" turns wildcard on; unsubscribing it turns it off and
\* drops what only the wildcard selected.
ClientStar(t, on) ==
    /\ StarClient /\ cOpen[t] /\ cWild[t] # on
    /\ StartRequest
    /\ \E k \in ChangeNonces(t) :
          Send(NewRequest(t, IF on THEN {Star} ELSE {}, IF on THEN {} ELSE {Star}, k))
    /\ cWild' = [cWild EXCEPT ![t] = on]
    /\ cHas' = [cHas EXCEPT ![t] = IF on THEN @ ELSE @ \cap cWant[t]]
    /\ UNCHANGED <<cOpen, cWant, cNonce, warming, resub>>

\* A rejection of a type the client never requested on this stream (a
\* client that reconnected and reports an error on data it got before).
ClientNackFirst(t) ==
    /\ NackFirstClient /\ ~cOpen[t]
    /\ StartRequest
    /\ Send([NewRequest(t, {}, {}, 0) EXCEPT !.error = TRUE])
    /\ UNCHANGED client

\* The server side of a new stream (initConnection and the proxy it
\* creates are outside src/; spec 2: a Proxy is created on the first valid
\* request of a stream and destroyed when the stream ends): an empty
\* WatchedResource registry, no pending push events, and the current push
\* context.  What was in flight on the old stream is lost.
NewStream ==
    /\ wr' = [t \in Types |-> NoWR]
    /\ events' = <<>> /\ pushCtx' = snapshot
    /\ c2s' = <<>> /\ s2c' = <<>>
    /\ UNCHANGED <<snapshot, nonce, panicked>>

\* The stream breaks and the client opens a new one.  It keeps the
\* resources it holds and its subscriptions, and must request every type
\* again.
ClientReconnect ==
    /\ connCount < MaxReconnect /\ ~panicked
    /\ connCount' = connCount + 1
    /\ NewStream
    /\ cOpen' = [t \in Types |-> FALSE]
    /\ cNonce' = [t \in Types |-> 0]
    /\ UNCHANGED <<cWant, cWild, cHas, warming, resub, reqCount, cfgCount>>

\* The subscribe list that restores a subscription on a new stream: the
\* names, with "*" when a wildcard is mixed with names, or nothing for a
\* plain wildcard.
ReopenSub(t) ==
    IF ~cWild[t] THEN cWant[t]
    ELSE IF cWant[t] = {} THEN {} ELSE cWant[t] \cup {Star}

\* First request of a type on a new stream: the subscription again, with
\* the names the client holds as InitialResourceVersions.
ClientReopen(t) ==
    /\ ~cOpen[t] /\ (cWild[t] \/ cWant[t] # {})
    /\ StartRequest
    /\ Send([NewRequest(t, ReopenSub(t), {}, 0) EXCEPT !.iv = cHas[t]])
    /\ cOpen' = [cOpen EXCEPT ![t] = TRUE]
    /\ resub' = [resub EXCEPT ![t] = cHas[t]]
    /\ UNCHANGED <<cWant, cWild, cNonce, cHas, warming>>

\* Health probes and debug requests.
ClientProbe(t) ==
    /\ StartRequest
    /\ Send(NewRequest(t, {}, {}, 0))
    /\ UNCHANGED client

\* The resources of a response the client keeps: all of them for a
\* wildcard type, only subscribed ones otherwise.
Accepted(t, res) == IF cWild[t] THEN res ELSE res \cap cWant[t]

\* Receive the oldest response.  Debug responses are dropped.  Otherwise the
\* client either applies it and ACKs its nonce, or rejects it and NACKs.
ClientReceive ==
    /\ s2c # <<>>
    /\ s2c' = Tail(s2c)
    /\ LET p == Head(s2c)
           t == p.type
       IN  \/ /\ t = DebugType
              /\ UNCHANGED <<client, c2s, reqCount>>
           \/ /\ t \in Types
              /\ cNonce' = [cNonce EXCEPT ![t] = p.nonce]
              /\ \/ /\ Send(NewRequest(t, {}, {}, p.nonce))
                    /\ cHas' = [cHas EXCEPT ![t] = (@ \ p.removed) \cup Accepted(t, p.res)]
                    /\ warming' = CASE t = ClusterType -> TRUE
                                    [] t = EndpointType -> FALSE
                                    [] OTHER -> warming
                    /\ UNCHANGED reqCount
                 \* a rejection counts against the client's request bound
                 \/ /\ reqCount < MaxReq
                    /\ reqCount' = reqCount + 1
                    /\ Send([NewRequest(t, {}, {}, p.nonce) EXCEPT !.error = TRUE])
                    /\ UNCHANGED <<cHas, warming>>
              /\ UNCHANGED <<cOpen, cWant, cWild, resub>>
    /\ UNCHANGED <<server, cfgCount, connCount>>

-----------------------------------------------------------------------------

Init ==
    /\ snapshot = [t \in Types |-> Names]
    /\ pushCtx = snapshot
    /\ events = <<>>
    /\ wr = [t \in Types |-> NoWR]
    /\ nonce = 0
    /\ panicked = FALSE
    /\ c2s = <<>> /\ s2c = <<>>
    /\ cOpen = [t \in Types |-> FALSE]
    /\ cWant = [t \in Types |-> {}]
    /\ cWild = [t \in Types |-> FALSE]
    /\ cNonce = [t \in Types |-> 0]
    /\ cHas = [t \in Types |-> {}]
    /\ warming = FALSE
    /\ resub = [t \in Types |-> {}]
    /\ reqCount = 0 /\ cfgCount = 0 /\ connCount = 0

Next ==
    \/ ProcessDeltaRequest
    \/ PushConnectionDelta
    \/ \E t \in Types, n \in Names : ConfigChange(t, n)
    \/ \E t \in Types, s \in SUBSET Names : ClientOpen(t, s)
    \/ \E t \in Types, n \in Names : ClientSubscribe(t, n) \/ ClientUnsubscribe(t, n)
    \/ \E t \in Types, on \in BOOLEAN : ClientStar(t, on)
    \/ \E t \in {HealthInfoType, DebugType} : ClientProbe(t)
    \/ \E t \in Types : ClientNackFirst(t)
    \/ ClientReconnect
    \/ \E t \in Types : ClientReopen(t)
    \/ ClientReceive

Spec == Init /\ [][Next]_vars

-----------------------------------------------------------------------------

TypeOK ==
    /\ snapshot \in [Types -> SUBSET Names] /\ pushCtx \in [Types -> SUBSET Names]
    /\ events \in Seq([Types -> SUBSET Names])
    /\ wr \in [Types -> WatchedResource \cup {NoWR}]
    /\ nonce \in Nonces /\ panicked \in BOOLEAN
    /\ c2s \in Seq(Request) /\ s2c \in Seq(Response)
    /\ cOpen \in [Types -> BOOLEAN] /\ cWild \in [Types -> BOOLEAN]
    /\ cWant \in [Types -> SUBSET Names] /\ cHas \in [Types -> SUBSET Names]
    /\ cNonce \in [Types -> Nonces] /\ warming \in BOOLEAN
    /\ resub \in [Types -> SUBSET Names]

\* Nothing in flight: no request, no response, no push event pending.
Quiescent == c2s = <<>> /\ s2c = <<>> /\ events = <<>>

\* The last response of the type was not rejected.
Settled(t) == wr[t] # NoWR /\ ~wr[t].lastError

\* What the client should hold under its own subscription.
Wanted(t) == IF cWild[t] THEN snapshot[t] ELSE cWant[t] \cap snapshot[t]

\* Convergence (spec 1): once every request, response and push event has
\* been handled, the client holds exactly the resources of the current
\* snapshot that it subscribes, for every type whose last response it
\* accepted.  About pushDeltaXds's removal list, the subscription update
\* in shouldRespondDelta and the ordering of request and push handling.
Converged ==
    Quiescent => \A t \in Types : cOpen[t] /\ Settled(t) => cHas[t] = Wanted(t)

\* The server's record of a subscription (WatchedResource.ResourceNames and
\* Wildcard) ends up as the client's own, after any sequence of subscribe,
\* unsubscribe and wildcard requests crossing responses on the stream.
SubscriptionAgreement ==
    Quiescent => \A t \in Types :
        cOpen[t] => wr[t] # NoWR /\ wr[t].names = cWant[t] /\ wr[t].wildcard = cWild[t]

\* Clusters never stay warming: a CDS response the client applies is
\* always followed by an EDS response when EDS is watched (forceEDSPush
\* after a CDS request, and watchedResourcesByOrder putting EDS after CDS
\* on a push), unless the client rejected the EDS response.
NoWarmingStall ==
    Quiescent /\ Settled(EndpointType) => ~warming

\* A NACK is never fatal (spec.md 7: "Client-reported NACK: non-fatal";
\* "no panic/crash path should terminate the server for a single bad
\* connection"): whatever a client sends, shouldRespondDelta's handling of
\* an error detail never brings the server goroutine down.
NackNeverFatal == ~panicked

\* A reconnect resynchronises the client: once everything is handled, a
\* resource the client held when it requested the type on the new stream
\* (and still subscribes) is no longer held if it has been deleted.  This
\* is what InitialResourceVersions is for: shouldRespondDelta puts its keys
\* into the new WatchedResource's names, and pushDeltaXds lists the ones
\* no longer generated as removed, wildcard subscriptions included.
ReconnectResync ==
    Quiescent => \A t \in Types :
        cOpen[t] /\ Settled(t) => (resub[t] \ snapshot[t]) \cap cHas[t] = {}
=============================================================================
