------------------------------- MODULE AgentSds -------------------------------
(***************************************************************************)
(* The node agent of src/pkg/dubbo-agent/agent.go: Run, the goroutines it  *)
(* starts, the SDS rebuild on a CA-root change, and Close.                 *)
(*                                                                         *)
(* Run checks the SDS socket, starts an SDS server and a secret manager    *)
(* (initSdsServer), starts the xDS proxy, and, unless control-plane        *)
(* authentication is off, a file watcher on the xDS root CA and one on the *)
(* CA root; then the status server.  The CA-root watcher calls             *)
(* rebuildSDSWithNewCAClient on every event, which replaces the server and *)
(* the secret manager under sdsMu in several steps.  Close, called by the  *)
(* owner of the agent, stops what it finds in the fields without taking    *)
(* sdsMu, so its unsynchronised reads see whatever the rebuild has written *)
(* so far (the outcomes the data race can produce).                        *)
(*                                                                         *)
(* A server or secret manager is a number: the n-th one built.  Paths are  *)
(* abstracted to which candidate files exist; the xDS proxy's own work     *)
(* (initXdsProxy, initDubbodDialOptions) is outside the repository and is  *)
(* reduced to its success or failure.                                      *)
(***************************************************************************)
EXTENDS Naturals

CONSTANTS
    MaxBuild,        \* secret managers built, the first one by Run
    RebuildMayFail,  \* newSecretManager(true) may fail (createCAClient)
    None

ASSUME MaxBuild \in Nat \ {0} /\ RebuildMayFail \in BOOLEAN

Ids == 1..MaxBuild

VARIABLES
    stage,          \* Run: "new", "sds", "proxy", "watch", then "running" or "failed"
    fileMounted,    \* a.secOpts.FileMountedCerts
    serveOnlyFiles, \* a.secOpts.ServeOnlyFiles
    sdsServer,      \* a.sdsServer: the installed server, or None
    secretCache,    \* a.secretCache: the installed secret manager, or None
    serving,        \* servers started and not stopped
    open,           \* secret managers created and not closed
    built,          \* secret managers created so far
    sdsMu,          \* holder of a.sdsMu: "watcher" or None
    wpc,            \* CA-root watcher: "none", "adding", "idle", "stopSrv",
                    \*   "closeCache", "newSM", "install", "done"
    fresh,          \* the secret manager the rebuild created
    xpc,            \* xDS-root watcher: "none", "adding", "idle", "done"
    watching,       \* the file watcher is open
    status,         \* status server: "none", "listening", "shut", "returned"
    ctxDone,        \* the Run context is cancelled
    cpc             \* Close: "idle", "closeCache", "fw", "done"

run   == <<stage, fileMounted, serveOnlyFiles>>
sds   == <<sdsServer, secretCache, serving, open, built>>
watch == <<sdsMu, wpc, fresh, xpc, watching>>
vars  == <<run, sds, watch, status, ctxDone, cpc>>

-----------------------------------------------------------------------------
(* Root CA lookup                                                          *)

\* The configuration FindRootCAForXDS and FindRootCAForCA read: the
\* XDSRootCerts and CARootCerts options ("system" is SystemRootCerts,
\* "unset" is ""), PROV_CERT, the certificate provider, and which of the
\* candidate files exist.
RootConfigs ==
    [xdsRoot : {"system", "custom", "unset"}, caRoot : {"system", "custom", "unset"},
     provCert : BOOLEAN, provider : {"custom", "none", "other"},
     exists : SUBSET {"xdsCustom", "caCustom", "default", "meta", "aegis"}]

\* FindRootCAForXDS: "" (system roots), "path" or "err".
FindRootCAForXDS(c) ==
    CASE c.xdsRoot = "system"      -> ""
      [] c.xdsRoot = "custom"      -> IF "xdsCustom" \in c.exists THEN "path" ELSE "err"
      [] "default" \in c.exists    -> "path"
      [] c.provCert                -> "path"     \* returned unchecked
      [] fileMounted               -> IF "meta" \in c.exists THEN "path" ELSE "err"
      [] c.provider = "none"       -> "err"
      [] OTHER                     -> IF "aegis" \in c.exists THEN "path" ELSE "err"

\* FindRootCAForCA: "" (system roots), "path" or "err".
FindRootCAForCA(c) ==
    CASE c.caRoot = "system"       -> ""
      [] c.caRoot = "custom"       -> IF "caCustom" \in c.exists THEN "path" ELSE "err"
      [] c.provider = "custom"     -> IF "default" \in c.exists THEN "path" ELSE "err"
      [] c.provCert                -> "path"     \* returned unchecked
      [] c.provider = "none"       -> "err"
      [] OTHER                     -> IF "aegis" \in c.exists THEN "path" ELSE "err"

-----------------------------------------------------------------------------
(* Run                                                                     *)

Fail == stage' = "failed"

\* What can be at a socket path: nothing, a socket answering the health
\* check, or one that does not, which can or cannot be removed.
Sockets == {"none", "healthy", "stale", "stuck"}

\* checkSocket: whether a healthy socket exists, and whether it failed.
\* An unhealthy socket is removed; a failed removal is the error.
checkSocket(sock) == [exists |-> sock = "healthy", err |-> sock = "stuck"]

\* The socket file name must be a base name; a healthy socket found there
\* belongs to another SDS server (serve only files).  Without a socket the
\* path must be the default Dubbo SDS path.
RunCheckSocket ==
    /\ stage = "new" /\ cpc = "idle"
    /\ \E baseName, dubboPath \in BOOLEAN, sock \in Sockets :
          LET cs == checkSocket(sock) IN
          CASE ~baseName \/ cs.err -> Fail /\ UNCHANGED serveOnlyFiles
            [] cs.exists           -> stage' = "sds" /\ serveOnlyFiles' = TRUE
            [] ~dubboPath          -> Fail /\ UNCHANGED serveOnlyFiles
            [] OTHER               -> stage' = "sds" /\ UNCHANGED serveOnlyFiles
    /\ UNCHANGED <<fileMounted, sds, watch, status, ctxDone, cpc>>

\* newSecretManager(createCaClient) fails only when it creates a CA client
\* and createCAClient fails.
newSecretManagerFails(createCaClient, caFails) == createCaClient /\ caFails

\* initSdsServer: workload certificate files switch to file-mounted
\* certificates; the secret manager gets a CA client unless certificates
\* are file-mounted or only files are served.  Its result: the new
\* FileMountedCerts, and whether the server was created and registered.
initSdsServer(workloadCerts, caFails) ==
    LET mounted == fileMounted \/ workloadCerts
    IN  [fileMounted |-> mounted,
         ok |-> ~newSecretManagerFails(~mounted /\ ~serveOnlyFiles, caFails)]

\* Run starts the default SDS server.
RunInitSdsServer ==
    /\ stage = "sds"
    /\ \E workloadCerts, caFails \in BOOLEAN :
          LET init == initSdsServer(workloadCerts, caFails)
          IN  /\ fileMounted' = init.fileMounted
              /\ IF ~init.ok
                 THEN Fail /\ UNCHANGED sds
                 ELSE /\ stage' = "proxy"
                      /\ sdsServer' = 1 /\ secretCache' = 1
                      /\ serving' = {1} /\ open' = {1} /\ built' = 1
    /\ UNCHANGED <<serveOnlyFiles, watch, status, ctxDone, cpc>>

\* generateNodeMetadata fails when checking the credential SDS socket does.
generateNodeMetadataFails(credSock) == checkSocket(credSock).err

\* generateGRPCBootstrap fails with the node metadata, or when creating
\* the directory, building the metadata or writing the file fails (ioFails).
generateGRPCBootstrapFails(credSock, ioFails) ==
    generateNodeMetadataFails(credSock) \/ ioFails

\* initXdsProxy (outside src/, it may fail), then generateGRPCBootstrap when
\* a bootstrap path is set.  On failure the SDS server and secret manager
\* are left running.
RunInitXdsProxy ==
    /\ stage = "proxy"
    /\ \E proxyOk, bootstrapPath, ioFails \in BOOLEAN, credSock \in Sockets :
          IF proxyOk /\ ~(bootstrapPath /\ generateGRPCBootstrapFails(credSock, ioFails))
          THEN stage' = "watch" ELSE Fail
    /\ UNCHANGED <<fileMounted, serveOnlyFiles, sds, watch, status, ctxDone, cpc>>

\* With control-plane authentication: the xDS root CA must be found, its
\* watcher is started, and the CA-root watcher too when a CA root path is
\* found.  Then the status server goroutine (the one a.wg waits for).
RunStartWatchers ==
    /\ stage = "watch"
    /\ \E authNone \in BOOLEAN, c \in RootConfigs :
          IF ~authNone /\ FindRootCAForXDS(c) = "err"
          THEN Fail /\ UNCHANGED <<xpc, wpc, status>>
          ELSE /\ stage' = "running"
               /\ xpc' = IF authNone THEN "none" ELSE "adding"
               /\ wpc' = IF ~authNone /\ FindRootCAForCA(c) = "path" THEN "adding" ELSE "none"
               /\ status' = "listening"
    /\ UNCHANGED <<fileMounted, serveOnlyFiles, sds, sdsMu, fresh, watching, ctxDone, cpc>>

-----------------------------------------------------------------------------
(* The goroutines Run starts                                               *)

\* startFileWatcher: fileWatcher.Add fails (the goroutine returns) or the
\* watch loop starts.
WatcherAdd ==
    /\ wpc = "adding"
    /\ wpc' \in {"idle", "done"}
    /\ UNCHANGED <<run, sds, sdsMu, fresh, xpc, watching, status, ctxDone, cpc>>

XdsWatcherAdd ==
    /\ xpc = "adding"
    /\ xpc' \in {"idle", "done"}
    /\ UNCHANGED <<run, sds, sdsMu, wpc, fresh, watching, status, ctxDone, cpc>>

\* The xDS-root watcher's loop returns once the Run context is done (its
\* handler only re-initialises the xDS proxy's dial options).
XdsWatcherExit ==
    /\ xpc = "idle" /\ ctxDone
    /\ xpc' = "done"
    /\ UNCHANGED <<run, sds, sdsMu, wpc, fresh, watching, status, ctxDone, cpc>>

\* The CA-root watcher's select takes an event and calls the handler, which
\* takes sdsMu.  Go picks among ready cases at random, so an event may be
\* taken after the context is done.
CARootChanged ==
    /\ wpc = "idle" /\ watching /\ sdsMu = None /\ built < MaxBuild
    /\ sdsMu' = "watcher"
    /\ wpc' = "stopSrv"
    /\ UNCHANGED <<run, sds, fresh, xpc, watching, status, ctxDone, cpc>>

\* Variant of RebuildStopServer that leaves the old server running.
RebuildStopServerSkipped ==
    /\ wpc = "stopSrv"
    /\ wpc' = "closeCache"
    /\ UNCHANGED <<run, sds, sdsMu, fresh, xpc, watching, status, ctxDone, cpc>>

\* if a.sdsServer != nil { a.sdsServer.Stop() }
RebuildStopServer ==
    /\ wpc = "stopSrv"
    /\ serving' = serving \ {sdsServer}
    /\ wpc' = "closeCache"
    /\ UNCHANGED <<run, sdsServer, secretCache, open, built, sdsMu, fresh, xpc,
                   watching, status, ctxDone, cpc>>

\* if a.secretCache != nil { a.secretCache.Close() }
RebuildCloseCache ==
    /\ wpc = "closeCache"
    /\ open' = open \ {secretCache}
    /\ wpc' = "newSM"
    /\ UNCHANGED <<run, sdsServer, secretCache, serving, built, sdsMu, fresh, xpc,
                   watching, status, ctxDone, cpc>>

\* sc, err := a.newSecretManager(true).  On error the handler logs and
\* returns, releasing sdsMu; otherwise a.secretCache = sc.
RebuildNewSecretManager ==
    /\ wpc = "newSM"
    /\ \/ /\ newSecretManagerFails(TRUE, RebuildMayFail)
          /\ wpc' = "idle" /\ sdsMu' = None
          /\ UNCHANGED <<secretCache, open, built, fresh>>
       \/ /\ built' = built + 1
          /\ fresh' = built + 1
          /\ open' = open \cup {built + 1}
          /\ secretCache' = built + 1
          /\ wpc' = "install"
          /\ UNCHANGED sdsMu
    /\ UNCHANGED <<run, sdsServer, serving, xpc, watching, status, ctxDone, cpc>>

\* a.sdsServer = a.cfg.SDSFactory(...); RegisterSecretHandler; unlock.
RebuildInstallServer ==
    /\ wpc = "install"
    /\ sdsServer' = fresh
    /\ serving' = serving \cup {fresh}
    /\ wpc' = "idle" /\ sdsMu' = None
    /\ UNCHANGED <<run, secretCache, open, built, fresh, xpc, watching, status,
                   ctxDone, cpc>>

\* The CA-root watcher's loop returns once the Run context is done.
WatcherExit ==
    /\ wpc = "idle" /\ ctxDone
    /\ wpc' = "done"
    /\ UNCHANGED <<run, sds, sdsMu, fresh, xpc, watching, status, ctxDone, cpc>>

\* ListenAndServe fails at once (the port is taken): logged, wg.Done.
StatusServerFails ==
    /\ status = "listening"
    /\ status' = "returned"
    /\ UNCHANGED <<run, sds, watch, ctxDone, cpc>>

\* After Shutdown, ListenAndServe returns ErrServerClosed: wg.Done.
StatusServerReturns ==
    /\ status = "shut"
    /\ status' = "returned"
    /\ UNCHANGED <<run, sds, watch, ctxDone, cpc>>

-----------------------------------------------------------------------------
(* Close, and the owner of the agent                                      *)

\* Close, called once Run has returned (or was never called):
\* xdsProxy.close(), then if a.sdsServer != nil { a.sdsServer.Stop() },
\* read without sdsMu.
CloseStopServer ==
    /\ cpc = "idle" /\ stage \in {"new", "running", "failed"}
    /\ serving' = serving \ {sdsServer}
    /\ cpc' = "closeCache"
    /\ UNCHANGED <<run, sdsServer, secretCache, open, built, watch, status, ctxDone>>

\* if a.secretCache != nil { a.secretCache.Close() }, read without sdsMu.
CloseCache ==
    /\ cpc = "closeCache"
    /\ open' = open \ {secretCache}
    /\ cpc' = "fw"
    /\ UNCHANGED <<run, sdsServer, secretCache, serving, built, watch, status, ctxDone>>

\* Variant of CloseWatcher that leaves the status server running.
CloseWatcherNoShutdown ==
    /\ cpc = "fw"
    /\ watching' = FALSE
    /\ cpc' = "done"
    /\ UNCHANGED <<run, sds, sdsMu, wpc, fresh, xpc, status, ctxDone>>

\* fileWatcher.Close() (no more file events), then, if Run started it,
\* statusSrv.Shutdown().
CloseWatcher ==
    /\ cpc = "fw"
    /\ watching' = FALSE
    /\ status' = IF status = "listening" THEN "shut" ELSE status
    /\ cpc' = "done"
    /\ UNCHANGED <<run, sds, sdsMu, wpc, fresh, xpc, ctxDone>>

\* The caller of Run cancels its context.
CancelRun ==
    /\ ~ctxDone
    /\ ctxDone' = TRUE
    /\ UNCHANGED <<run, sds, watch, status, cpc>>

-----------------------------------------------------------------------------

\* Every goroutine Run started has returned, and a.wg.Wait has returned.
AllStopped ==
    wpc \in {"none", "done"} /\ xpc \in {"none", "done"} /\ status \in {"none", "returned"}

\* NewAgent: nothing is built; FileMountedCerts comes from the options.
Init ==
    /\ stage = "new" /\ fileMounted \in BOOLEAN /\ serveOnlyFiles = FALSE
    /\ sdsServer = None /\ secretCache = None
    /\ serving = {} /\ open = {} /\ built = 0
    /\ sdsMu = None /\ wpc = "none" /\ fresh = None /\ xpc = "none"
    /\ watching = TRUE /\ status = "none" /\ ctxDone = FALSE /\ cpc = "idle"

Next ==
    \/ RunCheckSocket \/ RunInitSdsServer \/ RunInitXdsProxy \/ RunStartWatchers
    \/ WatcherAdd \/ XdsWatcherAdd \/ XdsWatcherExit
    \/ CARootChanged \/ RebuildStopServer \/ RebuildCloseCache
    \/ RebuildNewSecretManager \/ RebuildInstallServer \/ WatcherExit
    \/ StatusServerFails \/ StatusServerReturns
    \/ CloseStopServer \/ CloseCache \/ CloseWatcher \/ CancelRun
    \/ /\ ctxDone /\ cpc = "done" /\ AllStopped   \* the agent is gone
       /\ UNCHANGED vars

\* Once started, Run, the goroutines it starts and Close run to their next
\* blocking point.  Calling Run and Close, cancelling the context, file
\* events and a failing listener are up to the environment.
Fairness ==
    /\ WF_vars(RunInitSdsServer) /\ WF_vars(RunInitXdsProxy) /\ WF_vars(RunStartWatchers)
    /\ WF_vars(WatcherAdd) /\ WF_vars(XdsWatcherAdd) /\ WF_vars(XdsWatcherExit)
    /\ WF_vars(RebuildStopServer) /\ WF_vars(RebuildCloseCache)
    /\ WF_vars(RebuildNewSecretManager) /\ WF_vars(RebuildInstallServer)
    /\ WF_vars(WatcherExit) /\ WF_vars(StatusServerReturns)
    /\ WF_vars(CloseCache) /\ WF_vars(CloseWatcher)

Spec == Init /\ [][Next]_vars /\ Fairness

-----------------------------------------------------------------------------

TypeOK ==
    /\ stage \in {"new", "sds", "proxy", "watch", "running", "failed"}
    /\ fileMounted \in BOOLEAN /\ serveOnlyFiles \in BOOLEAN
    /\ sdsServer \in Ids \cup {None} /\ secretCache \in Ids \cup {None}
    /\ serving \subseteq Ids /\ open \subseteq Ids
    /\ built \in 0..MaxBuild /\ fresh \in Ids \cup {None}
    /\ sdsMu \in {"watcher", None}
    /\ wpc \in {"none", "adding", "idle", "stopSrv", "closeCache", "newSM", "install", "done"}
    /\ xpc \in {"none", "adding", "idle", "done"}
    /\ status \in {"none", "listening", "shut", "returned"}
    /\ cpc \in {"idle", "closeCache", "fw", "done"}

\* While Run's agent is up, outside a rebuild and before Close, the
\* installed SDS server is serving and the installed secret manager is
\* open: a CA-root change never leaves the agent with a stopped server or a
\* closed cache.
InstalledServing ==
    stage = "running" /\ sdsMu = None /\ cpc = "idle" =>
        sdsServer \in serving /\ secretCache \in open

\* Every serving SDS server is the one a.sdsServer points to, so Close can
\* find and stop it: a rebuild stops the old server before it starts and
\* installs the new one, and a failed rebuild leaves nothing serving.
ServingIsInstalled == serving \subseteq {sdsServer}

\* Once Close has returned and the watcher has stopped, no SDS server is
\* serving and no secret manager is open: Close releases what the agent
\* holds even when a rebuild ran concurrently.
NothingLeftAfterClose ==
    cpc = "done" /\ wpc \in {"none", "idle", "done"} => serving = {} /\ open = {}

\* Once the owner has cancelled the Run context and Close has returned,
\* every goroutine Run started returns and the wait function Run returned
\* (a.wg.Wait) returns: the watchers leave their loops on ctx.Done, a
\* rebuild in progress completes, and Close's Shutdown ends the status
\* server's ListenAndServe.
AgentStops == ctxDone /\ cpc = "done" ~> AllStopped
=============================================================================
