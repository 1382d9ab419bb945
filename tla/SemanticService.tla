-------------------------- MODULE SemanticService ---------------------------
(***************************************************************************)
(* Semantic queries served over IPC: the daemon's request handlers and its *)
(* registry of vaults (src/src/daemon/server.rs, query.rs,                 *)
(* vault_registry.rs, vault_context.rs), the client that retries and times *)
(* out (client/semantic_daemon.rs), and the search tool of the MCP server  *)
(* that attaches, ensures its vault once and falls back to its own         *)
(* embeddings (tools/search.rs, main.rs).                                  *)
(*                                                                         *)
(* A connection carries one request.  A client that gives up leaves the    *)
(* handler running.  The daemon may stop at any time and be started again  *)
(* (DaemonBootstrap says by whom); its registry does not survive.          *)
(***************************************************************************)
EXTENDS Naturals, FiniteSets

CONSTANTS
    Clients,      \* MCP servers
    Mode,         \* client -> OBSIDIAN_SEMANTIC_MODE
    Watching,     \* clients with OBSIDIAN_WATCH
    Embedding,    \* clients with local embeddings configured
    Vaults, VaultOf,
    Models, Label,\* the model names, and the one the daemon was started with
    Conns,        \* connections; bounds how many requests are in flight
    Apis, OurApi, \* daemon API versions, and the clients'
    None,
    Retries,      \* connect_retries
    MaxTimeouts,  \* bound: calls that run into the client's time limit
    MaxFaults,    \* bound: opens, loads and inferences that fail
    MaxStops,     \* bound: daemons that stop
    MaxForeign    \* bound: requests of other programs

VARIABLES
    \* the daemon process, and what it loses when it stops
    life,         \* "up", "draining" after a shutdown request, or "down"
    api,          \* DAEMON_API_VERSION of the running daemon
    contexts,     \* VaultRegistry::contexts: vault -> watcher on or off
    initLock,     \* VaultRegistry::init_locks: who holds the vault's lock
    model,        \* the shared OnceCell: absent, loading for a vault, loaded
    runtimes,     \* vault -> its embedding runtimes, in the registry or being opened
    phase,        \* vault -> how far the latest of them is
    conn,         \* connection -> the request it carries and its handler
    \* the clients
    client,       \* client -> where its current tool call is
    attached,     \* daemon_client is there
    ensured,      \* SemanticRuntime::vault_ensured
    got,          \* the outcome of the last tool call
    shaken,       \* the current call met a stop, a timeout or a failure
    timeouts, faults, stops, foreign

daemonVars == <<life, api, contexts, initLock, model, runtimes, phase, conn>>
registry   == <<contexts, initLock, model, runtimes, phase>>
clientVars == <<client, attached, ensured, got, shaken>>
boundVars  == <<timeouts, faults, stops, foreign>>
vars == <<daemonVars, clientVars, boundVars>>

Methods  == {"health", "ensure_vault", "search", "open_hint", "shutdown", "unknown"}
\* RPC errors by their code, and what the client adds.
Codes    == {"not_ready", "invalid_params", "internal", "bootstrap_required",
             "incompatible", "method_not_found"}
Failures == Codes \cup {"ipc", "timeout", "unavailable", "embedding"}
Requests == [from : Clients \cup {None}, method : Methods, vault : Vaults,
             watch : BOOLEAN, model : Models \cup {None},
             at : {"route", "wait", "build", "insert", "rank", "hint", "reply"},
             reply : Codes \cup {"none", "ok"}]
Calls    == [at : {"new", "idle", "health", "ensure_vault", "search"},
             attempt : Nat, conn : Conns \cup {None}]
NoCall   == [at |-> "idle", attempt |-> 0, conn |-> None]

ASSUME NoneAssumption == /\ None \notin Conns \cup Clients \cup Models \cup Vaults
                         /\ None \notin Requests \cup {"watched", "unwatched"}
ASSUME VaultsAssumption == VaultOf \in [Clients -> Vaults]
ASSUME ModesAssumption == Mode \in [Clients -> {"auto", "daemon", "local"}]

\* The connection that is opened next; which of the free ones makes no difference.
Free == {k \in Conns : conn[k] = None}
Slot == CHOOSE k \in Free : TRUE

\* A step of the handler on connection k that leads to the given record.
Handler(k, request) == conn' = [conn EXCEPT ![k] = request]
Goes(k, place)      == Handler(k, [conn[k] EXCEPT !.at = place])
Replies(k, code)    == Handler(k, [conn[k] EXCEPT !.at = "reply", !.reply = code])
At(k, place)        == conn[k] # None /\ conn[k].at = place

\* Something of the daemon's environment fails.
Fault == faults < MaxFaults /\ faults' = faults + 1 /\ UNCHANGED <<timeouts, stops, foreign>>

\* Every client in a call is told that this call was disturbed.
ShakeAll == shaken' = [c \in Clients |-> shaken[c] \/ client[c].at # "idle"]

-----------------------------------------------------------------------------
(* The registry and the vault contexts.                                    *)

Ready(v) == contexts[v] # None /\ phase[v] = "serving"

\* Mutation: an attached vault is left as it was attached first.
AttachAsIs(k) ==
    /\ Replies(k, "ok")
    /\ UNCHANGED <<contexts, shaken, boundVars>>

\* The vault has a context: with watch its watcher is started unless it runs,
\* and the status is the answer.
Attach(k) ==
    LET v == conn[k].vault IN
    \/ /\ contexts' = [contexts EXCEPT ![v] = IF conn[k].watch THEN "watched" ELSE @]
       /\ Replies(k, "ok")
       /\ UNCHANGED <<shaken, boundVars>>
    \/ /\ conn[k].watch /\ contexts[v] = "unwatched"
       /\ Fault /\ ShakeAll
       /\ Replies(k, "internal")
       /\ UNCHANGED contexts

\* route_health, asked for exactly the API of the clients
Health == IF api = OurApi THEN "ok" ELSE "incompatible"

\* route_request_with_control: health, shutdown and unknown methods need no vault.
Route(k) ==
    LET method == conn[k].method IN
    /\ At(k, "route") /\ method \notin {"ensure_vault", "search", "open_hint"}
    /\ Replies(k, CASE method = "health"   -> Health
                    [] method = "shutdown" -> "ok"
                    [] method = "unknown"  -> "method_not_found")
    /\ UNCHANGED <<life, api, registry, clientVars, boundVars>>

\* VaultRegistry::ensure_vault: a model label other than the daemon's is refused,
\* none is not; then the first lookup.
Lookup(k) ==
    /\ At(k, "route") /\ conn[k].method = "ensure_vault"
    /\ IF conn[k].model \notin {None, Label}
       THEN Replies(k, "invalid_params") /\ UNCHANGED <<contexts, shaken, boundVars>>
       ELSE IF contexts[conn[k].vault] # None THEN Attach(k)
       ELSE Goes(k, "wait") /\ UNCHANGED <<contexts, shaken, boundVars>>
    /\ UNCHANGED <<life, api, initLock, model, runtimes, phase>>
    /\ UNCHANGED <<client, attached, ensured, got>>

Lock(k)   == initLock' = [initLock EXCEPT ![conn[k].vault] = k]
Unlock(k) == initLock' = [initLock EXCEPT ![conn[k].vault] = None]

\* Mutation: the registry is not looked at again under the lock.
AcquireOnly(k) ==
    /\ At(k, "wait") /\ initLock[conn[k].vault] = None
    /\ Goes(k, "build") /\ Lock(k)
    /\ UNCHANGED <<life, api, contexts, model, runtimes, phase, clientVars, boundVars>>

\* init_lock.lock().await and the second lookup: another request may have opened
\* the vault, and then the lock is released at once.
Acquire(k) ==
    /\ At(k, "wait") /\ initLock[conn[k].vault] = None
    /\ IF contexts[conn[k].vault] # None THEN Attach(k) /\ UNCHANGED initLock
       ELSE Goes(k, "build") /\ Lock(k) /\ UNCHANGED <<contexts, shaken, boundVars>>
    /\ UNCHANGED <<life, api, model, runtimes, phase>>
    /\ UNCHANGED <<client, attached, ensured, got>>

\* VaultContext::open until the runtime is spawned: exclusions, link index and
\* text index are built first.
Build(k) ==
    /\ At(k, "build")
    /\ runtimes' = [runtimes EXCEPT ![conn[k].vault] = @ + 1]
    /\ phase'    = [phase EXCEPT ![conn[k].vault] = "loading"]
    /\ Goes(k, "insert")
    /\ UNCHANGED <<life, api, contexts, initLock, model, clientVars, boundVars>>

\* One of them cannot be built: the request fails, nothing is left behind.
BuildFails(k) ==
    /\ At(k, "build")
    /\ Fault /\ ShakeAll
    /\ Replies(k, "internal") /\ Unlock(k)
    /\ UNCHANGED <<life, api, contexts, model, runtimes, phase>>
    /\ UNCHANGED <<client, attached, ensured, got>>

\* The watcher is started, the context is put into the registry.
Insert(k) ==
    /\ At(k, "insert")
    /\ contexts' = [contexts EXCEPT ![conn[k].vault] =
                        IF conn[k].watch THEN "watched" ELSE "unwatched"]
    /\ Unlock(k)
    /\ Replies(k, "ok")
    /\ UNCHANGED <<life, api, model, runtimes, phase, clientVars, boundVars>>

\* Mutation: the lock outlives the request that failed.
WatchFailsLocked(k) ==
    /\ At(k, "insert") /\ conn[k].watch
    /\ Fault /\ ShakeAll
    /\ Replies(k, "internal")
    /\ runtimes' = [runtimes EXCEPT ![conn[k].vault] = @ - 1]
    /\ phase'    = [phase EXCEPT ![conn[k].vault] = "none"]
    /\ UNCHANGED <<life, api, contexts, initLock, model>>
    /\ UNCHANGED <<client, attached, ensured, got>>

\* The watcher cannot be started: the half-open context is dropped, its runtime
\* with it; a model it is loading is abandoned.
WatchFails(k) ==
    LET v == conn[k].vault IN
    /\ At(k, "insert") /\ conn[k].watch
    /\ Fault /\ ShakeAll
    /\ Replies(k, "internal") /\ Unlock(k)
    /\ runtimes' = [runtimes EXCEPT ![v] = @ - 1]
    /\ phase'    = [phase EXCEPT ![v] = "none"]
    /\ model'    = IF model = v THEN None ELSE model
    /\ UNCHANGED <<life, api, contexts>>
    /\ UNCHANGED <<client, attached, ensured, got>>

\* require_context: a vault nobody attached since the daemon started is not ready.
RequireContext(k) ==
    /\ At(k, "route") /\ conn[k].method \in {"search", "open_hint"}
    /\ IF contexts[conn[k].vault] = None THEN Replies(k, "not_ready")
       ELSE Goes(k, IF conn[k].method = "search" THEN "rank" ELSE "hint")
    /\ UNCHANGED <<life, api, registry, clientVars, boundVars>>

\* What a search is answered: an empty query of search_hybrid is answered whatever
\* the state, then comes require_semantic_ready, then compile_scope, which refuses
\* globs that other programs may send (those of an MCP server were compiled when
\* its scopes were read), then the ranking.
SearchReplies(k) ==
    {"ok"} \cup IF ~Ready(conn[k].vault) THEN {"not_ready"}
              ELSE IF conn[k].from = None THEN {"invalid_params"} ELSE {}

\* search_semantic, search_hybrid
Rank(k) ==
    /\ At(k, "rank")
    /\ \E code \in SearchReplies(k) : Replies(k, code)
    /\ UNCHANGED <<life, api, registry, clientVars, boundVars>>

\* The provider fails on the query: VaultError::Embedding.
RankFails(k) ==
    /\ At(k, "rank") /\ Ready(conn[k].vault)
    /\ Fault /\ ShakeAll
    /\ Replies(k, "bootstrap_required")
    /\ UNCHANGED <<life, api, registry>>
    /\ UNCHANGED <<client, attached, ensured, got>>

\* The note is looked up for the link, a path that is not vault-relative refused.
OpenHint(k) ==
    /\ At(k, "hint")
    /\ \E code \in {"ok", "invalid_params", "internal"} : Replies(k, code)
    /\ UNCHANGED <<life, api, registry, clientVars, boundVars>>

\* write_response; only then does a shutdown request take effect, and a client
\* that has given up hears nothing.
Deliver(k) ==
    LET c == conn[k].from IN
    /\ At(k, "reply")
    /\ c # None => client[c].conn # k
    /\ conn' = [conn EXCEPT ![k] = None]
    /\ life' = IF conn[k].method = "shutdown" THEN "draining" ELSE life
    /\ UNCHANGED <<api, registry, clientVars, boundVars>>

Handling(k) ==
    \/ Route(k) \/ Lookup(k) \/ Acquire(k) \/ Build(k) \/ Insert(k)
    \/ RequireContext(k) \/ Rank(k) \/ OpenHint(k) \/ Deliver(k)

-----------------------------------------------------------------------------
(* The embedding runtimes of the daemon, as far as a query notices them;   *)
(* EmbeddingRuntime is about what happens inside.                          *)

Phases(v, p, m) ==
    /\ phase' = [phase EXCEPT ![v] = p]
    /\ model' = m
    /\ UNCHANGED <<life, api, contexts, initLock, runtimes, conn>>

\* embedding_loader: whoever comes first loads the model for all.
BeginLoad(v) ==
    /\ phase[v] = "loading" /\ model = None
    /\ Phases(v, "loading", v)
    /\ UNCHANGED <<clientVars, boundVars>>

EndLoad(v) ==
    /\ model = v
    /\ Phases(v, "warming", "loaded")
    /\ UNCHANGED <<clientVars, boundVars>>

\* The next runtime that waits for the model tries again; this one does not.
LoadFails(v) ==
    /\ model = v
    /\ Fault /\ ShakeAll
    /\ Phases(v, "degraded", None)
    /\ UNCHANGED <<client, attached, ensured, got>>

\* Mutation: only the runtime that loaded the model gets it.
ShareWithLoader(v) ==
    /\ phase[v] = "loading" /\ model = "loaded" /\ runtimes[v] = 0
    /\ Phases(v, "warming", model)
    /\ UNCHANGED <<clientVars, boundVars>>

\* The model is there already.
Share(v) ==
    /\ phase[v] = "loading" /\ model = "loaded"
    /\ Phases(v, "warming", model)
    /\ UNCHANGED <<clientVars, boundVars>>

\* The first vectors can be queried.
Warm(v) ==
    /\ phase[v] = "warming"
    /\ Phases(v, "serving", model)
    /\ UNCHANGED <<clientVars, boundVars>>

Loading(v) == BeginLoad(v) \/ EndLoad(v) \/ Share(v) \/ Warm(v)

-----------------------------------------------------------------------------
(* The life of the daemon and the requests of other programs.              *)

NoDaemon ==
    /\ contexts' = [v \in Vaults |-> None]
    /\ initLock' = [v \in Vaults |-> None]
    /\ runtimes' = [v \in Vaults |-> 0]
    /\ phase'    = [v \in Vaults |-> "none"]
    /\ model'    = None
    /\ conn'     = [k \in Conns |-> None]

\* run_unix_socket returns after a shutdown request, or the process is killed:
\* the handlers end where they are and the connections break.
Stop ==
    /\ \/ life = "draining" /\ UNCHANGED stops
       \/ life = "up" /\ stops < MaxStops /\ stops' = stops + 1
    /\ life' = "down"
    /\ NoDaemon /\ ShakeAll
    /\ UNCHANGED <<api, client, attached, ensured, got>>
    /\ UNCHANGED <<timeouts, faults, foreign>>

\* run_with_shutdown: a daemon of some release listens, with an empty registry.
Start ==
    /\ life = "down"
    /\ life' = "up"
    /\ api' \in Apis
    /\ UNCHANGED <<registry, conn, clientVars, boundVars>>

Request(c, method, v, watch, m) ==
    [from |-> c, method |-> method, vault |-> v, watch |-> watch, model |-> m,
     at |-> "route", reply |-> "none"]

\* Another program of the user talks to the daemon.
Foreign(method, v, watch, m) ==
    /\ foreign < MaxForeign /\ life = "up" /\ Free # {}
    /\ method # "ensure_vault" => watch /\ m = None
    /\ Handler(Slot, Request(None, method, v, watch, m))
    /\ foreign' = foreign + 1
    /\ method = "shutdown" => stops < MaxStops
    /\ stops' = IF method = "shutdown" THEN stops + 1 ELSE stops
    /\ UNCHANGED <<life, api, registry, clientVars, timeouts, faults>>

-----------------------------------------------------------------------------
(* The client.                                                             *)

Moves(c, call) == client' = [client EXCEPT ![c] = call]
Call(method)   == [at |-> method, attempt |-> 1, conn |-> None]

\* The call of the tool ends with an outcome.
Ends(c, outcome) ==
    /\ Moves(c, NoCall)
    /\ got' = [got EXCEPT ![c] = outcome]

\* Mutation: a warming daemon is as good as none.
FallsBackWhenWarming(error) ==
    error \notin {"embedding", "internal", "invalid_params", "method_not_found"}

\* should_fallback_to_local
ShouldFallBack(error) ==
    error \in {"unavailable", "ipc", "timeout", "bootstrap_required", "incompatible"}
\* search_semantic_local: hits, or the error of an in-process index that is off
\* or not queryable.
LocalAnswers(c) == {"embedding"} \cup IF c \in Embedding THEN {"local"} ELSE {}

\* search_semantic_daemon failed with the error: auto mode may answer itself,
\* and asks to ensure the vault again next time.
Fails(c, error) ==
    IF Mode[c] = "auto" /\ c \in Embedding /\ ShouldFallBack(error)
    THEN /\ ensured' = [ensured EXCEPT ![c] = FALSE]
         /\ \E x \in LocalAnswers(c) : Ends(c, x)
    ELSE Ends(c, error) /\ UNCHANGED ensured

\* The outcome of one RPC, after the retries.
Outcome(c, code) ==
    CASE client[c].at = "health" ->
           /\ attached' = [attached EXCEPT ![c] = (code = "ok")]
           /\ Moves(c, NoCall)
           /\ UNCHANGED <<ensured, got>>
      [] client[c].at = "ensure_vault" /\ code = "ok" ->
           /\ ensured' = [ensured EXCEPT ![c] = TRUE]
           /\ Moves(c, Call("search"))
           /\ UNCHANGED <<attached, got>>
      [] client[c].at = "search" /\ code = "ok" ->
           /\ Ends(c, "ok")
           /\ UNCHANGED <<attached, ensured>>
      [] OTHER -> Fails(c, code) /\ UNCHANGED attached

\* is_retryable_error
Retryable(error) == error \in {"ipc", "timeout"}

\* call: one attempt is over; it is made again or its result is the call's.
AttemptEnds(c, code) ==
    IF Retryable(code) /\ client[c].attempt <= Retries
    THEN /\ Moves(c, [client[c] EXCEPT !.attempt = @ + 1, !.conn = None])
         /\ UNCHANGED <<attached, ensured, got>>
    ELSE Outcome(c, code)

\* The daemon is not for a client in local mode or without a watcher.
Daemonless(c) == Mode[c] = "local" \/ c \notin Watching

\* initialize_daemon_client: one is found or started (DaemonBootstrap) and asked
\* for its health.
Attaching == Call("health")

\* init_semantic_runtime
StartClient(c) ==
    /\ client[c].at = "new"
    /\ Moves(c, IF Daemonless(c) THEN NoCall ELSE Attaching)
    /\ shaken' = [shaken EXCEPT ![c] = FALSE]
    /\ UNCHANGED <<daemonVars, attached, ensured, got, boundVars>>

\* The search_semantic tool is called.
Ask(c) ==
    /\ client[c].at = "idle"
    /\ shaken' = [shaken EXCEPT ![c] = FALSE]
    /\ IF Mode[c] = "local"
       THEN /\ \E x \in LocalAnswers(c) : Ends(c, x)
            /\ UNCHANGED ensured
       ELSE IF ~attached[c] THEN Fails(c, "unavailable")
       ELSE /\ Moves(c, Call(IF ensured[c] THEN "search" ELSE "ensure_vault"))
            /\ got' = [got EXCEPT ![c] = "none"]
            /\ UNCHANGED ensured
    /\ UNCHANGED <<daemonVars, attached, boundVars>>

\* daemon_json of the dashboard: the vault is ensured and the flag is not looked at.
Inspect(c) ==
    /\ attached[c] /\ life = "up" /\ Free # {} /\ foreign < MaxForeign
    /\ foreign' = foreign + 1
    /\ Handler(Slot, Request(None, "ensure_vault", VaultOf[c], TRUE, None))
    /\ UNCHANGED <<life, api, registry, clientVars, timeouts, faults, stops>>

Calling(c) == client[c].at \in {"health", "ensure_vault", "search"}

\* call_once connects and sends.
Connect(c) ==
    /\ Calling(c) /\ client[c].conn = None
    /\ life = "up" /\ Free # {}
    /\ Handler(Slot, Request(c, client[c].at, VaultOf[c], TRUE, None))
    /\ Moves(c, [client[c] EXCEPT !.conn = Slot])
    /\ UNCHANGED <<life, api, registry, attached, ensured, got, shaken, boundVars>>

\* Nothing listens, or the daemon stopped with the connection open.
NoConnection(c) ==
    LET k == client[c].conn IN
    IF k = None THEN life # "up" ELSE IF conn[k] = None THEN TRUE ELSE conn[k].from # c

Broken(c) ==
    /\ Calling(c) /\ NoConnection(c)
    /\ shaken' = [shaken EXCEPT ![c] = TRUE]
    /\ AttemptEnds(c, "ipc")
    /\ UNCHANGED <<daemonVars, boundVars>>

\* The answer is read before the time limit.
Receive(c) ==
    LET k == client[c].conn IN
    /\ Calling(c) /\ k # None /\ At(k, "reply")
    /\ conn[k].from = c
    /\ AttemptEnds(c, conn[k].reply)
    /\ conn' = [conn EXCEPT ![k] = None]
    /\ UNCHANGED <<life, api, registry, shaken, boundVars>>

\* The time limit passes first; the handler goes on without a listener.
TimeOut(c) ==
    /\ Calling(c) /\ client[c].conn # None
    /\ timeouts < MaxTimeouts
    /\ timeouts' = timeouts + 1
    /\ shaken' = [shaken EXCEPT ![c] = TRUE]
    /\ AttemptEnds(c, "timeout")
    /\ UNCHANGED <<daemonVars, faults, stops, foreign>>

-----------------------------------------------------------------------------
Init ==
    /\ life = "up" /\ api \in Apis
    /\ contexts = [v \in Vaults |-> None]
    /\ initLock = [v \in Vaults |-> None]
    /\ runtimes = [v \in Vaults |-> 0]
    /\ phase = [v \in Vaults |-> "none"]
    /\ model = None
    /\ conn = [k \in Conns |-> None]
    /\ client = [c \in Clients |-> [NoCall EXCEPT !.at = "new"]]
    /\ attached = [c \in Clients |-> FALSE]
    /\ ensured = [c \in Clients |-> FALSE]
    /\ got = [c \in Clients |-> "none"]
    /\ shaken = [c \in Clients |-> FALSE]
    /\ timeouts = 0 /\ faults = 0 /\ stops = 0 /\ foreign = 0

Next ==
    \/ \E k \in Conns : \/ Handling(k)
                       \/ BuildFails(k) \/ WatchFails(k) \/ RankFails(k)
    \/ \E v \in Vaults : Loading(v) \/ LoadFails(v)
    \/ Stop \/ Start
    \/ \E method \in Methods, v \in Vaults, watch \in BOOLEAN, m \in Models \cup {None} :
           Foreign(method, v, watch, m)
    \/ \E c \in Clients :
           \/ StartClient(c) \/ Ask(c) \/ Inspect(c)
           \/ Connect(c) \/ Broken(c) \/ Receive(c) \/ TimeOut(c)

Spec == Init /\ [][Next]_vars

\* The tasks of the daemon run, a stopping one stops and is started again, and
\* the client's futures are polled; the user asks again and again.
FairSpec ==
    /\ Spec
    /\ \A k \in Conns : WF_vars(Handling(k))
    /\ \A v \in Vaults : WF_vars(Loading(v))
    /\ WF_vars(Start) /\ WF_vars(life = "draining" /\ Stop)
    /\ \A c \in Clients :
        /\ WF_vars(StartClient(c)) /\ WF_vars(Ask(c))
        /\ SF_vars(Connect(c)) /\ WF_vars(Broken(c)) /\ WF_vars(Receive(c))

-----------------------------------------------------------------------------
(* Properties.                                                             *)

\* However many requests attach one vault at once, and whichever of them fails,
\* the daemon has at most one embedding runtime for it, and one only while the
\* vault is in the registry or a request is opening it under the lock: two
\* runtimes would write the same embeddings.bin.
OneRuntimePerVault ==
    \A v \in Vaults :
        /\ runtimes[v] <= 1
        /\ runtimes[v] = 1 =>
              contexts[v] # None \/ (initLock[v] # None /\ At(initLock[v], "insert"))

\* An attach that asked for a watcher and was answered with success finds the
\* vault in the registry, watched, as long as this daemon lives.
AttachedIsWatched ==
    \A k \in Conns :
        At(k, "reply") /\ conn[k].method = "ensure_vault" /\ conn[k].reply = "ok"
            => /\ contexts[conn[k].vault] # None
               /\ conn[k].watch => contexts[conn[k].vault] = "watched"

\* In auto mode the in-process index answers only for a daemon that is gone: a
\* call during which nothing broke, failed or timed out is the daemon's, also
\* while the daemon is still warming up.
NoCompetingAnswer ==
    [][\A c \in Clients :
          attached[c] /\ client[c].at # "idle" /\ client'[c].at = "idle"
              /\ got'[c] \in {"local", "embedding"} => shaken'[c]]_vars

\* Every call of the tool ends, whatever the daemon does: a failed attach
\* releases the vault, a lost connection is noticed.
EveryCallEnds == \A c \in Clients : Calling(c) ~> client[c].at = "idle"

\* The client believes that the daemon has its vault; the one that had it is gone.
Mistaken(c) == ensured[c] /\ stops > 0 /\ life = "up" /\ contexts[VaultOf[c]] = None

\* A client attached to a daemon is served again and again, unless the model
\* cannot be loaded or the client is mistaken for good.
EventuallyServed ==
    \A c \in Clients :
        \/ []<>(got[c] = "ok")
        \/ <>[]~attached[c]
        \/ <>[](phase[VaultOf[c]] = "degraded")
        \/ <>[]Mistaken(c)

\* The not-ready error is retryable: who keeps asking a daemon that stays up is
\* served in the end.
RetryableIsServed ==
    \A c \in Clients :
        \/ []<>(got[c] = "ok")
        \/ <>[]~attached[c]
        \/ <>[](phase[VaultOf[c]] = "degraded")
=============================================================================
