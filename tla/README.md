# TLA+ models of dubbo-kubernetes

These modules model the delta xDS engine of the control plane
(`src/sail/pkg/xds/delta.go`), the instance admin handlers
(`src/pkg/admin/handler/instance.go`) and the node agent's SDS rebuild
(`src/pkg/dubbo-agent/agent.go`), and TLC checks them. `PROJECT.json` lists:

- every component, modelled or not;
- every run and what it shows;
- a mutant for every property of a passing run;
- the source lines each definition translates;
- the findings;
- the hazards of the code and the properties that cover them.

## The system and its parts

**Resource set algebra** (`deltaWatchedResources`, delta.go:297-327). A pure
function. It applies a request's subscribe list, InitialResourceVersions keys
and unsubscribe list to the existing name set. It returns:

- the new set, with `"*"` taken out;
- the wildcard flag;
- a `changed` flag.

**Request admission and push dispatch** (delta.go:20-75, 197-295, 329-407,
417-445):

- `processDeltaRequest` ignores health probes and answers debug requests.
- For other types it asks `shouldRespondDelta`. That function records a NACK,
  creates the WatchedResource on the first request of a type, drops a request
  whose nonce is not the last one sent, and otherwise updates the name set.
- When there is something to answer, `processDeltaRequest` pushes the type.
  After CDS it also forces an EDS push (`forceEDSPush`).
- A push event (`pushConnectionDelta`) pushes every watched type in a fixed
  order.
- `pushDeltaXds` builds the response. For a full-set generator the removed
  names are the recorded name set minus the generated names.
- `sendDelta` records the nonce sent.

**Connection lifecycle** (delta.go:77-195, 409-415). `StreamDeltas` does the
following:

1. It runs the readiness, rate-limit and authentication checks.
2. It starts the receiver goroutine `receiveDelta`.
3. It waits for `InitializedCh`.
4. It loops over two selects. The first checks requests and stop without
   blocking. The second blocks on requests, pushes and stop.

The receiver does three things:

- It skips health probes before the first request.
- It registers the proxy (`initConnection`) and defers `closeConnection`.
- It forwards requests on `deltaReqChan`, which has capacity 1.

On exit it reports an unexpected error on `ErrorCh` (capacity 1). Its deferred
calls then run in last-in first-out order: `closeConnection`, closing the
request channel, closing the error channel, and closing `InitializedCh`.

A push producer outside this file hands events over the unbuffered `PushCh`.

**Admin instance handlers** (instance.go). GET and PUT handlers for two
settings: traffic disable (a condition route with `=>host!=<ip>` conditions)
and the operator log (configurator override configs). A PUT reads the stored
resource, decides, and creates or updates it. The HTTP requests are served
concurrently, so other PUTs can run between that read and that write.

**Node agent** (`src/pkg/dubbo-agent/agent.go`):

- `Run` checks the SDS socket (`checkSocket`). Building the gRPC bootstrap
  (`generateGRPCBootstrap`, `generateNodeMetadata`) is modelled by when it
  fails. It starts an SDS server and a
  secret manager (`initSdsServer`, `newSecretManager`), then the xDS proxy.
  Unless control-plane authentication is off, it looks up the root CAs
  (`FindRootCAForXDS`, `FindRootCAForCA`) and starts a file watcher on each
  one it finds. Finally it starts the status server, the only goroutine that
  `a.wg` waits for.
- A file-watcher goroutine rebuilds both when the CA root changes
  (`rebuildSDSWithNewCAClient`). It holds `sdsMu` while it stops the old
  server, closes the old cache, creates a new secret manager and installs a
  new server.
- `Close` stops what it finds in the same fields without taking `sdsMu`. It
  then closes the file watcher and shuts the status server down.

The other sources are listed as not modelled in `PROJECT.json`, each with the
reason: the agent's gRPC bootstrap and xDS proxy, the kube client, bootstrap parsing, the CLI, validation and
the address builders.

## Modules

| Module | Models | State | Actions |
|---|---|---|---|
| `DeltaStreamLifecycle` | spec 4.3: what one stream promises | `phase`, `pending` (accepted, unhandled requests), `peerGone`/`peerErr`, `registered`/`released`, `stopReq`, `result` | `Reject`, `Admit`, `Register`, `Activate`, `Receive`, `PeerEnds`, `Handle`, `PushFails`, `Finish`, `RequestStop`, `HonourStop` |
| `ResourceSetAlgebra` | deltaWatchedResources | (operators only) | `InsertStep`/`DeleteStep` folded over the lists in the code's order; `DeltaWatchedResources` is the set form |
| `DeltaXds` | one connection's registry, admission and pushes, with an xDS client | `wr` (WatchedResource per type, or `NoWR`), `nonce`, `c2s`/`s2c` (the in-order gRPC stream), `snapshot`, `pushCtx`, `events`; the client's `cOpen`, `cWant`, `cWild`, `cNonce`, `cHas`, `warming`, and the history `resub` (what the client held when it last requested the type); `panicked` (a nil dereference in the callback) | `ProcessDeltaRequest`, `PushConnectionDelta`, `ConfigChange`, client requests (open, subscribe, unsubscribe, `"*"`, probes, NACK-first), `ClientReceive`, and the fault `ClientReconnect` (the stream breaks; `NewStream` gives the server an empty registry) followed by `ClientReopen` with InitialResourceVersions |
| `DeltaConnection` | StreamDeltas, receiveDelta, push producer, Stop | program counters `mpc`/`rpc`/`ppc`, channel contents and closed flags, `inited`/`closed` (registered/deregistered), counts of forwarded and processed requests | `AdmissionChecks`, `WaitInitialized`, `Select1`, `Select2`, `RecvMessage`, `RecvError`, `Forward`, `OfferPush`, `AbandonPush`, `Stop` |
| `AgentSds` | Run, the root-CA lookups, the watchers, rebuildSDSWithNewCAClient, Close | Run's `stage`, `fileMounted`/`serveOnlyFiles`, `sdsServer`, `secretCache` (installed ids), `serving`, `open`, `sdsMu`, the watchers' `wpc`/`xpc`, the status server's `status`, Close's `cpc` | Run's four steps, each watcher's add and exit, the rebuild's four locked steps, the status server's two ways of returning, Close's three steps, `CancelRun` |
| `AdminSettings` | what the admin GET/PUT handlers promise | `setting` (what each GET answers per setting and instance), `acked` | `Put` (a PUT answered 200 sets one register atomically) |
| `AdminInstance` | traffic-disable and operator-log GET/PUT | `rule` (condition route), `conf` (configurator), each handler's `pc`/`pending`, `lastAck` (the value of the last PUT answered 200 per setting and IP) | `TrafficDisablePutRead`, `OperatorLogPutRead`, `PutWrite` |

Each action models a whole handler. Its guards are the handler's conditions and
early returns, and the calls the handler makes are part of the action. For
example, `ProcessDeltaRequest` includes `shouldRespondDelta`, every
`pushDeltaXds` and `sendDelta` it causes, and the forced EDS push.

Data is abstracted as follows:

- Resource names, types and IPs are model values.
- A nonce is a counter. It is unique per push, as the uuid-based code nonce is.
- A condition string is reduced to what the handlers test in it. `TextWithin`
  models the `strings.Contains` match of one IP inside another.

`DeltaConnection` defines a refinement mapping onto `DeltaStreamLifecycle`:

- The phase is derived from the program counters.
- `pending` counts the requests in `deltaReqChan` plus the one the receiver is
  sending.
- The peer's error is the receiver's error.
- Registration and release are `inited` and `closed`.

`ImplementsLifecycle` is the abstract spec, fairness included, checked as a
property.

`AdminInstance` defines a refinement mapping onto `AdminSettings`:

- Each register is what the GET handler (`InstanceConfigTrafficDisableGET`
  or `InstanceConfigOperatorLogGET`) answers for that instance, computed from
  the stored route or configurator.
- `acked` is `lastAck`.

`ImplementsSettings` checks that every step of the handlers is either a
single `Put` or leaves every GET answer alone. A PUT reads the whole resource
shared by all instances, edits it, and writes it later. So the property fails
if a write changes another instance's answer, or the other setting's answer.
It also fails if a 200 leaves the PUT's own GET at a different value. The
enable branch, which removes one condition, and the prefix match of
`isTrafficDisabledV3` both feed into this.

Each MC module instantiates its spec: `MCDeltaXds`,
`MCDeltaConnection`, `MCAdminInstance`, `MCAgentSds`.

## Runs

| Run | cfg | Expect | What it shows |
|---|---|---|---|
| xds_explicit | MCDeltaXds.cfg | pass | Explicit subscriptions, with one broken and reopened stream: the registry and the client's resources converge at quiescence; EDS never stays warming. |
| xds_open | MCDeltaXds_open.cfg | pass | Wildcard, `"*"` and NACK-first clients, and a reconnect: the loops still equal the set form (`"*"` and duplicates included); the forced EDS push still ends warming; and the InitialResourceVersions the client sends on the new stream get every deleted resource it held removed (`ReconnectResync`), even for a wildcard subscription. |
| xds_wildcard | MCDeltaXds_wildcard.cfg | violation | A wildcard client never learns that a resource was deleted (removed list computed from the empty name set). |
| xds_star | MCDeltaXds_star.cfg | violation | `"*"` after the first request never changes the server's Wildcard flag. |
| xds_piggyback | MCDeltaXds_piggy.cfg | violation | A subscription change carried on an ACK that crossed a newer push is dropped for good. |
| xds_nack_first | MCDeltaXds_nack.cfg | violation | A first request of a type that carries an error detail makes `shouldRespondDelta` write `LastError` through a nil WatchedResource: the server panics (delta.go:336). |
| connection | MCDeltaConnection.cfg | pass | Across all interleavings, all goroutines end (`StreamEnds`), and the connection implements the abstract lifecycle (`ImplementsLifecycle`): through that mapping the receiver's error is returned, no accepted request is left unhandled, and a registered proxy is released. |
| admin | MCAdminInstance.cfg | pass | With concurrent PUTs and a version-checked store, the handlers implement one atomic register per setting and instance (`ImplementsSettings`); in particular GET always shows what the last PUT answered 200 set. |
| admin_disabled_configurator | MCAdminInstance_disabled.cfg | violation | With a disabled configurator stored, turning the operator log on returns 200, but GET still reports it off. |
| agent | MCAgentSds.cfg | pass | From Run's first check, two CA-root changes race Close, and creating the CA client may fail: every serving SDS server is still the installed one. Once the context is cancelled and Close has returned, every goroutine Run started returns (`AgentStops`). |
| agent_close_race | MCAgentSds_leak.cfg | violation | A rebuild that overlaps Close installs a server and a cache after Close's unsynchronised reads, and they outlive Close. |
| agent_rebuild_fails | MCAgentSds_fail.cfg | violation | A failed rebuild leaves the stopped server and the closed cache installed. |

The safety properties of `DeltaXds` only apply at quiescence, when no request,
response or push event is in flight. Before that the two sides legitimately
disagree.

## Bounds

**Set algebra.** It is checked inside `MCDeltaXds`. For the request at the
head of the stream, every list of up to two entries with the request's names
is folded, so duplicates and both orders occur. Each InitialResourceVersions
key set is tried too. `"*"` occurs in the open run.

**DeltaXds.** Two types, CDS before EDS, so the forced EDS push and the type
order matter. Two names, up to three client requests (NACKs included) and two
configuration changes. These bounds are enough for an open, a change, an
unsubscribe crossing a push, and a deletion. Both passing runs allow one
reconnect. The open run allows one configuration change, which is enough for
a resource to be deleted before the stream breaks; with two, its state space
does not fit the time limit.

**DeltaConnection.** Up to three received messages: enough for a probe, the
first request and a forwarded one, with the channel full. Two push offers.

**AdminInstance.** Two IPs whose texts overlap and two concurrent handlers.
Three PUTs, enough for two writes to interleave and a third request to read
the result. The initial store holds one of:

- no resource;
- a v3 route with one condition of any kind;
- a v3.1 route;
- a configurator with one config.

**AgentSds.** Up to three secret managers in total, so two rebuilds can
happen, one of them overlapping Close. Every outcome of the socket check,
every failure point of Run, and every root-CA configuration over five
candidate files are enumerated.

Symmetry: `MCDeltaXds` permutes resource names (no action singles one out) and
`MCAdminInstance` permutes handlers. IPs are not permuted, because
`TextWithin` tells them apart.

## Fairness

`DeltaConnection` assumes weak fairness on these actions:

- the handler's steps;
- the receiver's `RecvError` (the remote side eventually hangs up, or the
  stream context ends);
- `Forward`;
- the producer giving up once the stream is done.

Each is a goroutine that the Go scheduler eventually runs while it is enabled.
`Stop` and new push offers get no fairness, because they come from outside and
may never happen.

`AgentSds` assumes weak fairness on:

- Run's steps after the first;
- each watcher's add, exit and rebuild steps;
- the status server returning after Shutdown;
- Close's steps after the first.

Each of these is a goroutine that has started. Calling Run and Close,
cancelling the context, file events and a failing listener get no fairness.

`DeltaStreamLifecycle` assumes weak fairness on `Activate`, `Handle` and
`Finish`. `DeltaConnection` shows that its own fairness implies these.

`DeltaXds` and `AdminInstance` check only safety properties and assume no
fairness. `AdminSettings` has no fairness either: a PUT need never come.
`MCDeltaXds` does not check deadlock: once its request and configuration
bounds are used up and the stream is quiet, the connection simply waits.
`DeltaConnection`, `AdminInstance` and `AgentSds` instead end with an explicit stuttering
step once everything has finished.

## Not modelled, and why

- **Delta-capable generators** (`usedDelta`), `ProxyNeedsPush` returning false,
  and send errors. The generators live outside `src/`; the model uses a
  full-set generator that returns the subscribed resources. That generator
  never returns nil, so `pushDeltaXds`'s early return without a response
  (delta.go:244) is never taken; `Converged` relies on every push sending.
- **AlwaysRespond.** Nothing under `src/` ever sets it, so it is always false.
- **Two findings read in the code but not given a run.** The set algebra's
  `changed` flag is TRUE when one request subscribes and unsubscribes the
  same name, although the set did not change; spec 4.2 says "if and only if".
  And the agent's rebuild always creates a secret manager with a CA client,
  even when `Run` chose file-mounted certificates (agent.go:347 against 322).
  Both are listed as hazards.
- **The store behind the admin handlers.** It is outside `src/`. The model
  assumes a create fails if the resource exists, and an update fails if the
  resource changed since it was read (`VersionedUpdate`). With a blind update,
  `ImplementsSettings` fails: a concurrent PUT's change is lost.

## Plan for the next sittings

1. **Abstract subscription spec.** A spec in which the client's resources
   follow the snapshot, with `DeltaXds` shown to refine it under a mapping
   from the server's registry and the stream.
2. **Delta generators** (`usedDelta`), `ProxyNeedsPush` skipping pushes, and
   generator or send errors ending the stream.
3. **The agent's CA mode.** The rebuild always asks for a CA client
   (agent.go:347), whatever `Run` chose.
