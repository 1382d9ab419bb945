----------------------- MODULE SemanticServiceProofs ------------------------
(***************************************************************************)
(* For any clients, vaults, connections and bounds: at most one embedding  *)
(* runtime per vault (OneRuntime), a successful attach leaves the vault    *)
(* watched (AttachedWatched), and in auto mode the in-process index        *)
(* answers only in the daemon's absence (NoCompetitor).  The argument is   *)
(* about the vault's lock: a handler holds it exactly while it is between  *)
(* the second lookup and the registry (Locked), and the runtimes are those *)
(* of the registry and of the holders that have spawned one (Opened).      *)
(***************************************************************************)
EXTENDS SemanticService, TLAPS

USE DEF vars, daemonVars, registry, clientVars, boundVars

\* The registry and the connections.
ServerTypeOK ==
    /\ contexts \in [Vaults -> {None, "watched", "unwatched"}]
    /\ initLock \in [Vaults -> Conns \cup {None}]
    /\ conn \in [Conns -> Requests \cup {None}]

\* The clients.
ClientTypeOK ==
    /\ client \in [Clients -> Calls]
    /\ attached \in [Clients -> BOOLEAN]
    /\ shaken \in [Clients -> BOOLEAN]
    /\ got \in [Clients -> Failures \cup {"none", "ok", "local"}]

\* A handler waits for the lock and opens a vault only to attach it, ranks and
\* looks a link up only for the queries.
InPlace(k) ==
    /\ conn[k].at \in {"wait", "build", "insert"} => conn[k].method = "ensure_vault"
    /\ conn[k].at \in {"rank", "hint"} => conn[k].method \in {"search", "open_hint"}

\* The handlers that have the lock of their vault.
Opening(k) == At(k, "build") \/ At(k, "insert")

\* Who holds the lock of a vault is opening it, and who opens it holds its lock;
\* the vault is not in the registry then.
Locked ==
    /\ \A k \in Conns : Opening(k) => initLock[conn[k].vault] = k
    /\ \A v \in Vaults : initLock[v] # None =>
           /\ Opening(initLock[v]) /\ conn[initLock[v]].vault = v
           /\ contexts[v] = None

\* The vault has a runtime if it is in the registry or its holder spawned one.
Open(v) == contexts[v] # None \/ (initLock[v] # None /\ At(initLock[v], "insert"))
Opened  == runtimes = [v \in Vaults |-> IF Open(v) THEN 1 ELSE 0]

Registered ==
    /\ ServerTypeOK
    /\ \A k \in Conns : conn[k] # None => InPlace(k)
    /\ Locked
    /\ Opened
    /\ AttachedIsWatched

-----------------------------------------------------------------------------
\* A handler that neither has the lock nor gets it, and does not answer an
\* attach with success, leaves the registry as it should be; so does a request
\* that comes in or a connection that closes.
LEMMA AsideNext ==
  ASSUME Registered, NEW k \in Conns, NEW r \in Requests \cup {None},
         conn' = [conn EXCEPT ![k] = r], UNCHANGED registry,
         ~Opening(k),
         r # None => /\ r.at \notin {"build", "insert"}
                     /\ r.at = "wait" => r.method = "ensure_vault"
                     /\ r.at \in {"rank", "hint"} => r.method \in {"search", "open_hint"}
                     /\ r.at = "reply" /\ r.reply = "ok" => r.method # "ensure_vault"
  PROVE  Registered'
<1> USE NoneAssumption DEF Registered, ServerTypeOK
<1>1. conn' \in [Conns -> Requests \cup {None}] /\ conn'[k] = r
  OBVIOUS
<1>2. \A j \in Conns : j # k => conn'[j] = conn[j]
  OBVIOUS
<1>3. ServerTypeOK'
  BY <1>1
<1>4. \A j \in Conns : conn'[j] # None => InPlace(j)'
  BY <1>1, <1>2 DEF InPlace
<1>5. \A j \in Conns : Opening(j)' <=> Opening(j)
  BY <1>1, <1>2 DEF Opening, At
<1>6. \A j \in Conns : Opening(j) => conn'[j] = conn[j]
  BY <1>2
<1>7. Locked'
  <2>1. \A j \in Conns : Opening(j)' => initLock'[conn'[j].vault] = j
    BY <1>5, <1>6 DEF Locked
  <2>2. ASSUME NEW v \in Vaults, initLock'[v] # None
        PROVE  Opening(initLock[v])' /\ conn'[initLock'[v]].vault = v /\ contexts'[v] = None
    BY <2>2, <1>5, <1>6 DEF Locked
  <2> QED
    BY <2>1, <2>2 DEF Locked
<1>8. \A v \in Vaults : Open(v)' <=> Open(v)
  <2>1. \A j \in Conns : At(j, "insert")' <=> At(j, "insert")
    BY <1>1, <1>2 DEF At, Opening
  <2> QED
    BY <2>1 DEF Open
<1>9. Opened'
  BY <1>8 DEF Opened
<1>10. AttachedIsWatched'
  BY <1>1, <1>2 DEF AttachedIsWatched, At
<1> QED
  BY <1>3, <1>4, <1>7, <1>9, <1>10

\* The parts of the goal, for a step of one handler k whose record becomes r:
\* types and places follow from those of r.
LEMMA RecordNext ==
  ASSUME Registered, NEW k \in Conns, NEW r \in Requests,
         conn' = [conn EXCEPT ![k] = r],
         contexts' \in [Vaults -> {None, "watched", "unwatched"}],
         initLock' \in [Vaults -> Conns \cup {None}],
         r.at \in {"wait", "build", "insert"} => r.method = "ensure_vault",
         r.at \in {"rank", "hint"} => r.method \in {"search", "open_hint"}
  PROVE  /\ ServerTypeOK' /\ conn'[k] = r
         /\ \A j \in Conns : j # k => conn'[j] = conn[j]
         /\ \A j \in Conns : conn'[j] # None => InPlace(j)'
<1>1. conn' \in [Conns -> Requests \cup {None}] /\ conn'[k] = r
  BY DEF Registered, ServerTypeOK
<1>2. \A j \in Conns : j # k => conn'[j] = conn[j]
  BY DEF Registered, ServerTypeOK
<1>3. \A j \in Conns : conn'[j] # None => InPlace(j)'
  BY <1>1, <1>2 DEF InPlace, Registered
<1> QED
  BY <1>1, <1>2, <1>3 DEF ServerTypeOK

\* An answer keeps the request as it came and changes place and reply only.
LEMMA RepliesGives ==
  ASSUME NEW k \in Conns, NEW code \in Codes \cup {"none", "ok"},
         conn[k] \in Requests, Replies(k, code)
  PROVE  \E r \in Requests :
            /\ conn' = [conn EXCEPT ![k] = r]
            /\ r.at = "reply" /\ r.reply = code
            /\ r.from = conn[k].from /\ r.method = conn[k].method
            /\ r.vault = conn[k].vault /\ r.watch = conn[k].watch
<1> DEFINE a == [conn[k] EXCEPT !.at = "reply"]
           r == [conn[k] EXCEPT !.at = "reply", !.reply = code]
<1>1. conn' = [conn EXCEPT ![k] = r]
  BY DEF Replies, Handler
<1>2. r \in Requests /\ r.at = "reply" /\ r.reply = code
      /\ r.from = conn[k].from /\ r.method = conn[k].method
      /\ r.vault = conn[k].vault /\ r.watch = conn[k].watch
  BY DEF Requests
<1> HIDE DEF r
<1> QED
  BY <1>1, <1>2

\* So does going on, which leaves the reply alone.
LEMMA GoesGives ==
  ASSUME NEW k \in Conns, NEW place \in {"wait", "build", "insert", "rank", "hint"},
         conn[k] \in Requests, Goes(k, place)
  PROVE  \E r \in Requests :
            /\ conn' = [conn EXCEPT ![k] = r]
            /\ r.at = place /\ r.reply = conn[k].reply
            /\ r.from = conn[k].from /\ r.method = conn[k].method
            /\ r.vault = conn[k].vault /\ r.watch = conn[k].watch
<1> DEFINE r == [conn[k] EXCEPT !.at = place]
<1>1. conn' = [conn EXCEPT ![k] = r]
  BY DEF Goes, Handler
<1>2. r \in Requests /\ r.at = place /\ r.reply = conn[k].reply
      /\ r.from = conn[k].from /\ r.method = conn[k].method
      /\ r.vault = conn[k].vault /\ r.watch = conn[k].watch
  BY DEF Requests
<1> HIDE DEF r
<1> QED
  BY <1>1, <1>2

\* Attach (VaultRegistry::attach of an open context) keeps the vault in the
\* registry; only the watcher may be added to it.
LEMMA AttachNext ==
  ASSUME Registered, NEW k \in Conns, At(k, "route") \/ At(k, "wait"),
         conn[k].method = "ensure_vault", contexts[conn[k].vault] # None,
         Attach(k), UNCHANGED <<initLock, runtimes>>
  PROVE  Registered'
<1> DEFINE v == conn[k].vault
<1>1. conn[k] \in Requests /\ v \in Vaults
  BY DEF At, Registered, ServerTypeOK, Requests
<1>2. PICK r \in Requests :
        /\ conn' = [conn EXCEPT ![k] = r]
        /\ r.at = "reply" /\ r.reply \in {"ok", "internal"}
        /\ r.method = "ensure_vault" /\ r.vault = v /\ r.watch = conn[k].watch
        /\ contexts' = IF r.reply = "ok"
                       THEN [contexts EXCEPT ![v] = IF conn[k].watch THEN "watched" ELSE @]
                       ELSE contexts
  <2>1. CASE Replies(k, "ok") /\ contexts' = [contexts EXCEPT ![v] =
                                                IF conn[k].watch THEN "watched" ELSE @]
    BY <1>1, <2>1, RepliesGives
  <2>2. CASE Replies(k, "internal") /\ UNCHANGED contexts
    BY <1>1, <2>2, RepliesGives DEF Codes
  <2> QED
    BY <2>1, <2>2 DEF Attach
<1>2a. /\ contexts' \in [Vaults -> {None, "watched", "unwatched"}]
       /\ \A w \in Vaults : contexts'[w] # None <=> contexts[w] # None
       /\ \A w \in Vaults : contexts[w] = "watched" => contexts'[w] = "watched"
       /\ r.reply = "ok" /\ r.watch => contexts'[v] = "watched"
  BY <1>1, <1>2, NoneAssumption DEF Registered, ServerTypeOK
<1>3. /\ ServerTypeOK' /\ conn'[k] = r
      /\ \A j \in Conns : j # k => conn'[j] = conn[j]
      /\ \A j \in Conns : conn'[j] # None => InPlace(j)'
  BY <1>2, <1>2a, RecordNext DEF Registered, ServerTypeOK
<1>4. ~Opening(k) /\ ~Opening(k)'
  BY <1>2 DEF Opening, At
<1>5. \A j \in Conns : j # k => (Opening(j)' <=> Opening(j)) /\ (At(j, "insert")' <=> At(j, "insert"))
  BY <1>3 DEF Opening, At
<1>6. Locked'
  BY <1>2, <1>2a, <1>3, <1>4, <1>5 DEF Registered, Locked, ServerTypeOK
<1>7. Opened'
  <2>1. \A j \in Conns : At(j, "insert")' <=> At(j, "insert")
    BY <1>4, <1>5 DEF Opening
  <2>2. \A w \in Vaults : Open(w)' <=> Open(w)
    BY <2>1, <1>2a DEF Open, Registered, ServerTypeOK
  <2> QED
    BY <2>2 DEF Opened, Registered
<1>8. AttachedIsWatched'
  BY <1>1, <1>2, <1>2a, <1>3, NoneAssumption DEF AttachedIsWatched, At, Registered, ServerTypeOK, Requests
<1> QED
  BY <1>3, <1>6, <1>7, <1>8 DEF Registered

\* A step under the lock: the handler k, which had the lock of its vault or found
\* it free, goes on to r; the lock, the registry and the runtimes change for its
\* vault only, and together.
LEMMA UnderLockNext ==
  ASSUME Registered, NEW k \in Conns, conn[k] # None, NEW r \in Requests,
         conn' = [conn EXCEPT ![k] = r],
         NEW v \in Vaults, conn[k].vault = v, r.vault = v,
         r.method = "ensure_vault", r.at \in {"build", "insert", "reply"},
         initLock[v] \in {None, k}, Opening(k) => initLock[v] = k, contexts[v] = None,
         initLock' = [initLock EXCEPT ![v] = IF r.at = "reply" THEN None ELSE k],
         contexts' \in [Vaults -> {None, "watched", "unwatched"}],
         \A w \in Vaults \ {v} : contexts'[w] = contexts[w],
         r.at # "reply" => contexts'[v] = None,
         contexts'[v] # None => r.reply = "ok",
         r.at = "reply" /\ r.reply = "ok" =>
             contexts'[v] = IF r.watch THEN "watched" ELSE "unwatched",
         runtimes' = [runtimes EXCEPT ![v] =
                         IF r.at = "insert" \/ contexts'[v] # None THEN 1 ELSE 0]
  PROVE  Registered'
<1> USE NoneAssumption
<1>1. initLock' \in [Vaults -> Conns \cup {None}]
  BY DEF Registered, ServerTypeOK
<1>2. /\ ServerTypeOK' /\ conn'[k] = r
      /\ \A j \in Conns : j # k => conn'[j] = conn[j]
      /\ \A j \in Conns : conn'[j] # None => InPlace(j)'
  BY <1>1, RecordNext
<1>3. \A w \in Vaults \ {v} : initLock'[w] = initLock[w]
  BY DEF Registered, ServerTypeOK
<1>4. initLock'[v] = IF r.at = "reply" THEN None ELSE k
  BY DEF Registered, ServerTypeOK
<1>5. \A j \in Conns : j # k => (Opening(j)' <=> Opening(j)) /\ (At(j, "insert")' <=> At(j, "insert"))
  BY <1>2 DEF Opening, At
<1>6. \A j \in Conns : j # k /\ Opening(j) => conn[j].vault # v
  BY DEF Registered, Locked, ServerTypeOK
<1>7. \A w \in Vaults \ {v} : initLock[w] # k
  BY DEF Registered, Locked, ServerTypeOK
<1>8. Opening(k)' <=> r.at # "reply"
  BY <1>2 DEF Opening, At
<1>9. Locked'
  <2>1. ASSUME NEW j \in Conns, Opening(j)' PROVE initLock'[conn'[j].vault] = j
    <3>1. CASE j = k
      BY <2>1, <3>1, <1>2, <1>4, <1>8
    <3>2. CASE j # k
      <4>1. Opening(j) /\ conn[j].vault # v /\ conn'[j] = conn[j]
        BY <2>1, <3>2, <1>2, <1>5, <1>6
      <4>2. conn[j].vault \in Vaults /\ initLock[conn[j].vault] = j
        BY <4>1 DEF Registered, Locked, ServerTypeOK, Opening, At, Requests
      <4> QED
        BY <4>1, <4>2, <1>3
    <3> QED
      BY <3>1, <3>2
  <2>2. ASSUME NEW w \in Vaults, initLock'[w] # None
        PROVE  Opening(initLock[w])' /\ conn'[initLock'[w]].vault = w /\ contexts'[w] = None
    <3>1. CASE w = v
      <4>1. initLock'[v] = k /\ r.at # "reply"
        BY <2>2, <3>1, <1>4
      <4> QED
        BY <3>1, <4>1, <1>2, <1>8
    <3>2. CASE w # v
      <4>1. initLock'[w] = initLock[w] /\ initLock[w] # k /\ initLock[w] \in Conns
        BY <2>2, <3>2, <1>3, <1>7 DEF Registered, ServerTypeOK
      <4>2. Opening(initLock[w]) /\ conn[initLock[w]].vault = w /\ contexts[w] = None
        BY <2>2, <4>1 DEF Registered, Locked
      <4> QED
        BY <3>2, <4>1, <4>2, <1>2, <1>5
    <3> QED
      BY <3>1, <3>2
  <2> QED
    BY <2>1, <2>2 DEF Locked
<1>10. Opened'
  <2>1. ASSUME NEW w \in Vaults \ {v} PROVE Open(w)' <=> Open(w)
    BY <1>3, <1>5, <1>7 DEF Open, Registered, ServerTypeOK
  <2>2. Open(v)' <=> r.at = "insert" \/ contexts'[v] # None
    BY <1>2, <1>4 DEF Open, At
  <2> QED
    BY <2>1, <2>2 DEF Opened, Registered
<1>11. AttachedIsWatched'
  BY <1>2 DEF AttachedIsWatched, At, Registered, ServerTypeOK, Requests
<1> QED
  BY <1>2, <1>9, <1>10, <1>11 DEF Registered

\* The handlers: each of their steps is one of the three above.
LEMMA HandlerNext ==
  ASSUME Registered, NEW k \in Conns,
         Handling(k) \/ BuildFails(k) \/ WatchFails(k) \/ RankFails(k)
  PROVE  Registered'
<1> USE NoneAssumption
<1>1. conn[k] # None => conn[k] \in Requests /\ conn[k].vault \in Vaults /\ InPlace(k)
  BY DEF Registered, ServerTypeOK, Requests
<1>2. Opening(k) => initLock[conn[k].vault] = k /\ contexts[conn[k].vault] = None
  BY <1>1 DEF Registered, Locked, Opening, At
<1>3. At(k, "route") \/ At(k, "wait") \/ At(k, "rank") \/ At(k, "hint") \/ At(k, "reply")
          => ~Opening(k)
  BY DEF Opening, At
<1>4. CASE Route(k)
  <2>1. PICK code \in Codes \cup {"ok"} : Replies(k, code)
    BY <1>1, <1>4 DEF Route, Health, Codes, At, Requests, Methods
  <2> QED
    BY <1>1, <1>3, <1>4, <2>1, RepliesGives, AsideNext DEF Route, At
<1>5. CASE Lookup(k)
  <2>1. CASE Replies(k, "invalid_params") /\ UNCHANGED contexts
    BY <1>1, <1>3, <1>5, <2>1, RepliesGives, AsideNext DEF Lookup, At, Codes
  <2>2. CASE contexts[conn[k].vault] # None /\ Attach(k)
    BY <1>5, <2>2, AttachNext DEF Lookup
  <2>3. CASE Goes(k, "wait") /\ UNCHANGED contexts
    BY <1>1, <1>3, <1>5, <2>3, GoesGives, AsideNext DEF Lookup, At
  <2> QED
    BY <1>5, <2>1, <2>2, <2>3 DEF Lookup
<1>6. CASE Acquire(k)
  <2>1. CASE contexts[conn[k].vault] # None /\ Attach(k) /\ UNCHANGED initLock
    BY <1>1, <1>6, <2>1, AttachNext DEF Acquire, InPlace, At
  <2>2. CASE contexts[conn[k].vault] = None /\ Goes(k, "build") /\ Lock(k) /\ UNCHANGED contexts
    <3>1. /\ conn[k] # None /\ conn[k] \in Requests /\ conn[k].method = "ensure_vault"
          /\ ~Opening(k)
      BY <1>1, <1>3, <1>6 DEF Acquire, InPlace, At
    <3>2. PICK r \in Requests :
            /\ conn' = [conn EXCEPT ![k] = r]
            /\ r.at = "build" /\ r.method = "ensure_vault" /\ r.vault = conn[k].vault
      BY <3>1, <2>2, GoesGives
    <3>3. runtimes' = [runtimes EXCEPT ![conn[k].vault] = 0]
      BY <1>1, <1>6, <2>2, <3>1 DEF Acquire, Registered, Opened, Open
    <3> QED
      BY <1>1, <1>6, <2>2, <3>1, <3>2, <3>3, UnderLockNext
      DEF Acquire, Lock, Registered, ServerTypeOK
  <2> QED
    BY <1>6, <2>1, <2>2 DEF Acquire
<1>7. CASE Build(k)
  <2>1. Opening(k) /\ conn[k] # None /\ conn[k] \in Requests /\ conn[k].method = "ensure_vault"
    BY <1>1, <1>7 DEF Build, InPlace, At, Opening
  <2>2. PICK r \in Requests :
          /\ conn' = [conn EXCEPT ![k] = r]
          /\ r.at = "insert" /\ r.method = "ensure_vault" /\ r.vault = conn[k].vault
    BY <1>7, <2>1, GoesGives DEF Build
  <2>3. runtimes' = [runtimes EXCEPT ![conn[k].vault] = 1]
    <3>1. runtimes[conn[k].vault] = 0
      BY <1>1, <1>2, <1>7, <2>1 DEF Build, At, Registered, Opened, Open
    <3>2. runtimes' = [runtimes EXCEPT ![conn[k].vault] = runtimes[conn[k].vault] + 1]
      BY <1>7 DEF Build
    <3> QED
      BY <3>1, <3>2
  <2>4. initLock' = [initLock EXCEPT ![conn[k].vault] = k]
    BY <1>1, <1>2, <1>7, <2>1 DEF Build, Registered, ServerTypeOK
  <2>5. contexts' \in [Vaults -> {None, "watched", "unwatched"}] /\ contexts' = contexts
    BY <1>7 DEF Build, Registered, ServerTypeOK
  <2> QED
    BY <1>1, <1>2, <2>1, <2>2, <2>3, <2>4, <2>5, UnderLockNext
<1>8. CASE BuildFails(k)
  <2>1. Opening(k) /\ conn[k] # None /\ conn[k] \in Requests /\ conn[k].method = "ensure_vault"
    BY <1>1, <1>8 DEF BuildFails, InPlace, At, Opening
  <2>2. PICK r \in Requests :
          /\ conn' = [conn EXCEPT ![k] = r]
          /\ r.at = "reply" /\ r.reply = "internal"
          /\ r.method = "ensure_vault" /\ r.vault = conn[k].vault
    BY <1>8, <2>1, RepliesGives DEF BuildFails, Codes
  <2>3. runtimes' = [runtimes EXCEPT ![conn[k].vault] = 0]
    BY <1>1, <1>2, <1>8, <2>1 DEF BuildFails, At, Registered, Opened, Open
  <2>4. initLock' = [initLock EXCEPT ![conn[k].vault] = None]
    BY <1>8 DEF BuildFails, Unlock
  <2>5. contexts' \in [Vaults -> {None, "watched", "unwatched"}] /\ contexts' = contexts
    BY <1>8 DEF BuildFails, Registered, ServerTypeOK
  <2> QED
    BY <1>1, <1>2, <2>1, <2>2, <2>3, <2>4, <2>5, UnderLockNext
<1>9. CASE Insert(k)
  <2>1. Opening(k) /\ conn[k] # None /\ conn[k] \in Requests /\ conn[k].method = "ensure_vault"
    BY <1>1, <1>9 DEF Insert, InPlace, At, Opening
  <2>2. PICK r \in Requests :
          /\ conn' = [conn EXCEPT ![k] = r]
          /\ r.at = "reply" /\ r.reply = "ok" /\ r.watch = conn[k].watch
          /\ r.method = "ensure_vault" /\ r.vault = conn[k].vault
    BY <1>9, <2>1, RepliesGives DEF Insert
  <2>3. runtimes' = [runtimes EXCEPT ![conn[k].vault] = 1]
    BY <1>1, <1>2, <1>9, <2>1 DEF Insert, Registered, Opened, Open
  <2>4. /\ contexts' \in [Vaults -> {None, "watched", "unwatched"}]
        /\ contexts'[conn[k].vault] = IF r.watch THEN "watched" ELSE "unwatched"
        /\ \A w \in Vaults \ {conn[k].vault} : contexts'[w] = contexts[w]
    BY <1>1, <1>9, <2>1, <2>2 DEF Insert, Registered, ServerTypeOK
  <2>5. initLock' = [initLock EXCEPT ![conn[k].vault] = None]
    BY <1>9 DEF Insert, Unlock
  <2>6. contexts'[conn[k].vault] # None
    BY <2>4
  <2> QED
    BY <1>1, <1>2, <2>1, <2>2, <2>3, <2>4, <2>5, <2>6, UnderLockNext
<1>10. CASE WatchFails(k)
  <2>1. Opening(k) /\ conn[k] # None /\ conn[k] \in Requests /\ conn[k].method = "ensure_vault"
    BY <1>1, <1>10 DEF WatchFails, InPlace, At, Opening
  <2>2. PICK r \in Requests :
          /\ conn' = [conn EXCEPT ![k] = r]
          /\ r.at = "reply" /\ r.reply = "internal"
          /\ r.method = "ensure_vault" /\ r.vault = conn[k].vault
    BY <1>10, <2>1, RepliesGives DEF WatchFails, Codes
  <2>3. runtimes' = [runtimes EXCEPT ![conn[k].vault] = 0]
    <3>1. runtimes[conn[k].vault] = 1
      BY <1>1, <1>2, <1>10, <2>1 DEF WatchFails, Registered, Opened, Open
    <3>2. runtimes' = [runtimes EXCEPT ![conn[k].vault] = runtimes[conn[k].vault] - 1]
      BY <1>10 DEF WatchFails
    <3> QED
      BY <3>1, <3>2
  <2>4. initLock' = [initLock EXCEPT ![conn[k].vault] = None]
    BY <1>10 DEF WatchFails, Unlock
  <2>5. contexts' \in [Vaults -> {None, "watched", "unwatched"}] /\ contexts' = contexts
    BY <1>10 DEF WatchFails, Registered, ServerTypeOK
  <2> QED
    BY <1>1, <1>2, <2>1, <2>2, <2>3, <2>4, <2>5, UnderLockNext
<1>11. CASE RequireContext(k)
  <2>1. PICK place \in {"rank", "hint"} : Replies(k, "not_ready") \/ Goes(k, place)
    BY <1>11 DEF RequireContext
  <2>2. CASE Replies(k, "not_ready")
    BY <1>1, <1>3, <1>11, <2>2, RepliesGives, AsideNext DEF RequireContext, At, Codes
  <2>3. CASE Goes(k, place)
    BY <1>1, <1>3, <1>11, <2>3, GoesGives, AsideNext DEF RequireContext, At
  <2> QED
    BY <2>1, <2>2, <2>3
<1>12. CASE Rank(k) \/ RankFails(k) \/ OpenHint(k)
  <2>1. PICK code \in Codes \cup {"ok"} : Replies(k, code)
    BY <1>12 DEF Rank, SearchReplies, RankFails, OpenHint, Codes
  <2>2. At(k, "rank") \/ At(k, "hint")
    BY <1>12 DEF Rank, RankFails, OpenHint
  <2>3. UNCHANGED registry
    BY <1>12 DEF Rank, RankFails, OpenHint
  <2> QED
    BY <1>1, <1>3, <2>1, <2>2, <2>3, RepliesGives, AsideNext DEF InPlace, At
<1>13. CASE Deliver(k)
  BY <1>3, <1>13, AsideNext DEF Deliver
<1> QED
  BY <1>4, <1>5, <1>6, <1>7, <1>8, <1>9, <1>10, <1>11, <1>12, <1>13 DEF Handling

\* Requests come in on a free connection: of a client, of its dashboard, of other
\* programs; the answer is read by the client that asked.
LEMMA RequestNext ==
  ASSUME Registered, NEW r \in Requests, Free # {}, Handler(Slot, r), UNCHANGED registry,
         r.at = "route"
  PROVE  Registered'
<1>1. Slot \in Conns /\ conn[Slot] = None
  BY DEF Slot, Free
<1>2. ~Opening(Slot)
  BY <1>1 DEF Opening, At
<1> QED
  BY <1>1, <1>2, AsideNext DEF Handler

\* Every step of the daemon, of its clients and of other programs keeps the
\* registry, the locks and the runtimes together.
LEMMA RegisteredNext == ASSUME Registered, ClientTypeOK, [Next]_vars PROVE Registered'
<1> USE NoneAssumption
<1>1. CASE UNCHANGED <<contexts, initLock, runtimes, conn>>
  BY <1>1 DEF Registered, ServerTypeOK, Locked, Opened, Open, Opening, At, InPlace, AttachedIsWatched
<1>2. ASSUME NEW k \in Conns,
             Handling(k) \/ BuildFails(k) \/ WatchFails(k) \/ RankFails(k)
      PROVE  Registered'
  BY <1>2, HandlerNext
<1>3. ASSUME NEW v \in Vaults, Loading(v) \/ LoadFails(v) PROVE Registered'
  BY <1>1, <1>3 DEF Loading, LoadFails, BeginLoad, EndLoad, Share, Warm, Phases
<1>4. CASE Stop
  BY <1>4 DEF Stop, NoDaemon, Registered, ServerTypeOK, Locked, Opened, Open, Opening, At,
    InPlace, AttachedIsWatched
<1>5. CASE Start
  BY <1>1, <1>5 DEF Start
<1>6. ASSUME NEW method \in Methods, NEW v \in Vaults, NEW watch \in BOOLEAN,
             NEW m \in Models \cup {None}, Foreign(method, v, watch, m)
      PROVE  Registered'
  <2>1. /\ Request(None, method, v, watch, m) \in Requests
        /\ Request(None, method, v, watch, m).at = "route"
    BY DEF Request, Requests
  <2> QED
    BY <1>6, <2>1, RequestNext DEF Foreign
<1>7. ASSUME NEW c \in Clients, Inspect(c) PROVE Registered'
  <2>1. /\ Request(None, "ensure_vault", VaultOf[c], TRUE, None) \in Requests
        /\ Request(None, "ensure_vault", VaultOf[c], TRUE, None).at = "route"
    BY VaultsAssumption DEF Request, Requests, Methods
  <2> QED
    BY <1>7, <2>1, RequestNext DEF Inspect
<1>8. ASSUME NEW c \in Clients, Connect(c) PROVE Registered'
  <2>1. /\ Request(c, client[c].at, VaultOf[c], TRUE, None) \in Requests
        /\ Request(c, client[c].at, VaultOf[c], TRUE, None).at = "route"
    BY <1>8, VaultsAssumption DEF Connect, Calling, Request, Requests, Methods
  <2> QED
    BY <1>8, <2>1, RequestNext DEF Connect
<1>9. ASSUME NEW c \in Clients, Receive(c) PROVE Registered'
  <2> DEFINE k == client[c].conn
  <2>1. k \in Conns /\ ~Opening(k)
    BY <1>9 DEF Receive, Opening, At, ClientTypeOK, Calls, NoCall, Calling
  <2> QED
    BY <1>9, <2>1, AsideNext DEF Receive
<1>10. ASSUME NEW c \in Clients, StartClient(c) \/ Ask(c) \/ Broken(c) \/ TimeOut(c)
       PROVE  Registered'
  BY <1>1, <1>10 DEF StartClient, Ask, Broken, TimeOut
<1>11. CASE UNCHANGED vars
  BY <1>1, <1>11
<1> QED
  BY <1>2, <1>3, <1>4, <1>5, <1>6, <1>7, <1>8, <1>9, <1>10, <1>11 DEF Next

-----------------------------------------------------------------------------
\* What a client may conclude from the connection it waits on: the request is
\* its own, of the call it is in; a provider failure was a disturbance of that
\* call, and only the health check finds an incompatible daemon.
Answers(c, request) ==
    /\ request.method = client[c].at
    /\ request.at = "reply" /\ request.reply = "bootstrap_required" => shaken[c]
    /\ request.at = "reply" /\ request.reply = "incompatible" => request.method = "health"

Conversation(c) ==
    /\ client[c].conn # None => Calling(c)
    /\ client[c].conn # None /\ conn[client[c].conn] # None
         /\ conn[client[c].conn].from = c => Answers(c, conn[client[c].conn])
    /\ client[c].at \in {"new", "health"} => ~attached[c]

Talking == \A c \in Clients : Conversation(c)

ServiceInv == Registered /\ ClientTypeOK /\ Talking

\* What a handler does to its connection: the request stays the request it was,
\* the provider's failure shakes every call under way (query.rs maps it to
\* bootstrap_required), and incompatible is an answer of route_health only.
LEMMA HandlerSays ==
  ASSUME ServiceInv, NEW k \in Conns,
         Handling(k) \/ BuildFails(k) \/ WatchFails(k) \/ RankFails(k)
  PROVE  /\ UNCHANGED <<client, attached, got>>
         /\ shaken' \in [Clients -> BOOLEAN]
         /\ \A c \in Clients : shaken[c] => shaken'[c]
         /\ \A j \in Conns \ {k} : conn'[j] = conn[j]
         /\ conn[k] # None
         /\ conn'[k] # None =>
              /\ conn'[k].from = conn[k].from /\ conn'[k].method = conn[k].method
              /\ conn'[k].at = "reply" /\ conn'[k].reply = "bootstrap_required"
                    => \A c \in Clients : client[c].at # "idle" => shaken'[c]
              /\ conn'[k].at = "reply" /\ conn'[k].reply = "incompatible"
                    => conn'[k].method = "health"
<1> DEFINE Goal ==
         /\ UNCHANGED <<client, attached, got>>
         /\ shaken' \in [Clients -> BOOLEAN]
         /\ \A c \in Clients : shaken[c] => shaken'[c]
         /\ \A j \in Conns \ {k} : conn'[j] = conn[j]
         /\ conn[k] # None
         /\ conn'[k] # None =>
              /\ conn'[k].from = conn[k].from /\ conn'[k].method = conn[k].method
              /\ conn'[k].at = "reply" /\ conn'[k].reply = "bootstrap_required"
                    => \A c \in Clients : client[c].at # "idle" => shaken'[c]
              /\ conn'[k].at = "reply" /\ conn'[k].reply = "incompatible"
                    => conn'[k].method = "health"
<1> SUFFICES Goal
  OBVIOUS
<1>1. conn \in [Conns -> Requests \cup {None}] /\ shaken \in [Clients -> BOOLEAN]
  BY DEF ServiceInv, Registered, ServerTypeOK, ClientTypeOK
<1>2. conn[k] # None
  BY DEF Handling, Route, Lookup, Acquire, Build, Insert, RequireContext, Rank, OpenHint,
    Deliver, BuildFails, WatchFails, RankFails, At
<1>3. conn[k] \in Requests
  BY <1>1, <1>2
<1>4. /\ UNCHANGED <<client, attached, got>>
      /\ UNCHANGED shaken \/ ShakeAll
  BY DEF Handling, Route, Lookup, Acquire, Attach, Build, Insert, RequireContext, Rank,
    OpenHint, Deliver, BuildFails, WatchFails, RankFails
<1>5. shaken' \in [Clients -> BOOLEAN] /\ \A c \in Clients : shaken[c] => shaken'[c]
  BY <1>1, <1>4 DEF ShakeAll
<1>6. ASSUME NEW code \in Codes \cup {"none", "ok"}, Replies(k, code),
             code = "bootstrap_required" => ShakeAll,
             code = "incompatible" => conn[k].method = "health"
      PROVE  Goal
  <2>1. PICK r \in Requests :
          /\ conn' = [conn EXCEPT ![k] = r]
          /\ r.at = "reply" /\ r.reply = code
          /\ r.from = conn[k].from /\ r.method = conn[k].method
    BY <1>3, <1>6, RepliesGives
  <2>2. conn'[k] = r /\ \A j \in Conns \ {k} : conn'[j] = conn[j]
    BY <1>1, <2>1
  <2>3. code = "bootstrap_required" => \A c \in Clients : client[c].at # "idle" => shaken'[c]
    BY <1>6 DEF ShakeAll
  <2> QED
    BY <1>2, <1>4, <1>5, <1>6, <2>1, <2>2, <2>3
<1>7. ASSUME NEW place \in {"wait", "build", "insert", "rank", "hint"}, Goes(k, place)
      PROVE  Goal
  <2>1. PICK r \in Requests :
          /\ conn' = [conn EXCEPT ![k] = r]
          /\ r.at = place
          /\ r.from = conn[k].from /\ r.method = conn[k].method
    BY <1>3, <1>7, GoesGives
  <2>2. conn'[k] = r /\ \A j \in Conns \ {k} : conn'[j] = conn[j]
    BY <1>1, <2>1
  <2> QED
    BY <1>2, <1>4, <1>5, <2>1, <2>2
<1>8. CASE Deliver(k)
  <2>1. conn'[k] = None /\ \A j \in Conns \ {k} : conn'[j] = conn[j]
    BY <1>1, <1>8 DEF Deliver
  <2> QED
    BY <1>2, <1>4, <1>5, <2>1
<1> HIDE DEF Goal
<1>9. CASE Route(k)
  <2>1. PICK code \in {"ok", "incompatible", "method_not_found"} :
          Replies(k, code) /\ (code = "incompatible" => conn[k].method = "health")
    BY <1>3, <1>9 DEF Route, Health, At, Requests, Methods
  <2> QED
    BY <1>6, <2>1 DEF Codes
<1>10. ASSUME Attach(k) PROVE Goal
  BY <1>6, <1>10 DEF Attach, Codes
<1>11. CASE Lookup(k)
  BY <1>6, <1>7, <1>10, <1>11 DEF Lookup, Codes
<1>12. CASE Acquire(k)
  BY <1>7, <1>10, <1>12 DEF Acquire
<1>13. CASE Build(k) \/ Insert(k) \/ BuildFails(k) \/ WatchFails(k)
  BY <1>6, <1>7, <1>13 DEF Build, Insert, BuildFails, WatchFails, Codes
<1>14. CASE RequireContext(k)
  BY <1>6, <1>7, <1>14 DEF RequireContext, Codes
<1>15. CASE Rank(k) \/ OpenHint(k) \/ RankFails(k)
  BY <1>6, <1>15 DEF Rank, SearchReplies, OpenHint, RankFails, Codes
<1> QED
  BY <1>8, <1>9, <1>11, <1>12, <1>13, <1>14, <1>15 DEF Handling

\* What the end of one attempt (call, search_semantic) does to its client: it
\* lets the connection go, attaches only after the health check, and answers
\* itself only for an error that should_fallback_to_local names.
LEMMA AttemptGives ==
  ASSUME ClientTypeOK, NEW c \in Clients, Calling(c),
         NEW code \in Codes \cup {"none", "ok", "ipc", "timeout"}, AttemptEnds(c, code)
  PROVE  \E call \in Calls :
            /\ client' = [client EXCEPT ![c] = call] /\ call.conn = None
            /\ call.at \in {"new", "health"} => UNCHANGED attached /\ client[c].at = "health"
            /\ attached' \in [Clients -> BOOLEAN]
            /\ \A d \in Clients \ {c} : attached'[d] = attached[d]
            /\ got' \in [Clients -> Failures \cup {"none", "ok", "local"}]
            /\ call.at = "idle" /\ got'[c] \in {"local", "embedding"}
                  => client[c].at = "health" \/ ShouldFallBack(code)
<1> DEFINE Goal(call) ==
            /\ client' = [client EXCEPT ![c] = call] /\ call.conn = None
            /\ call.at \in {"new", "health"} => UNCHANGED attached /\ client[c].at = "health"
            /\ attached' \in [Clients -> BOOLEAN]
            /\ \A d \in Clients \ {c} : attached'[d] = attached[d]
            /\ got' \in [Clients -> Failures \cup {"none", "ok", "local"}]
            /\ call.at = "idle" /\ got'[c] \in {"local", "embedding"}
                  => client[c].at = "health" \/ ShouldFallBack(code)
<1> USE DEF ClientTypeOK
<1>1. NoCall \in Calls /\ Call("search") \in Calls /\ NoCall.conn = None /\ NoCall.at = "idle"
      /\ Call("search").conn = None /\ Call("search").at = "search"
  BY DEF NoCall, Call, Calls
<1>2. CASE Retryable(code) /\ client[c].attempt <= Retries
  <2> DEFINE call == [client[c] EXCEPT !.attempt = @ + 1, !.conn = None]
  <2>0. client[c] \in Calls /\ client[c].attempt + 1 \in Nat
    BY DEF Calls
  <2>1. call \in Calls /\ call.conn = None /\ call.at = client[c].at
    BY <2>0 DEF Calls
  <2>2. client' = [client EXCEPT ![c] = call] /\ UNCHANGED <<attached, ensured, got>>
    BY <1>2 DEF AttemptEnds, Moves
  <2>3. client[c].at \notin {"new", "idle"}
    BY DEF Calling
  <2> HIDE DEF call
  <2>4. Goal(call)
    BY <2>1, <2>2, <2>3
  <2> QED
    BY <2>1, <2>4
<1>3. CASE Outcome(c, code)
  <2>1. CASE client[c].at = "health"
    <3>1. /\ attached' = [attached EXCEPT ![c] = (code = "ok")]
          /\ client' = [client EXCEPT ![c] = NoCall]
          /\ UNCHANGED got
      BY <1>3, <2>1 DEF Outcome, Moves
    <3>2. Goal(NoCall)
      BY <1>1, <2>1, <3>1
    <3> QED
      BY <1>1, <3>2
  <2>2. CASE client[c].at = "ensure_vault" /\ code = "ok"
    <3>1. client' = [client EXCEPT ![c] = Call("search")] /\ UNCHANGED <<attached, got>>
      BY <1>3, <2>2 DEF Outcome, Moves
    <3>2. Goal(Call("search"))
      BY <1>1, <3>1
    <3> QED
      BY <1>1, <3>2
  <2>3. ASSUME NEW x \in Failures \cup {"none", "ok", "local"}, Ends(c, x), UNCHANGED attached,
               x \in {"local", "embedding"} => ShouldFallBack(code)
        PROVE  \E call \in Calls : Goal(call)
    <3>1. client' = [client EXCEPT ![c] = NoCall] /\ got' = [got EXCEPT ![c] = x]
      BY <2>3 DEF Ends, Moves
    <3>2. Goal(NoCall)
      BY <1>1, <2>3, <3>1
    <3> QED
      BY <1>1, <3>2
  <2>4. CASE client[c].at = "search" /\ code = "ok"
    BY <1>3, <2>3, <2>4 DEF Outcome
  <2>5. CASE client[c].at # "health" /\ code # "ok"
    <3>1. Fails(c, code) /\ UNCHANGED attached
      BY <1>3, <2>5 DEF Outcome
    <3>2. CASE ShouldFallBack(code) /\ \E x \in LocalAnswers(c) : Ends(c, x)
      BY <2>3, <3>1, <3>2 DEF LocalAnswers, Failures
    <3>3. CASE Ends(c, code)
      BY <2>3, <3>1, <3>3 DEF Failures, Codes
    <3> QED
      BY <3>1, <3>2, <3>3 DEF Fails
  <2> QED
    BY <2>1, <2>2, <2>4, <2>5 DEF Calling
<1> QED
  BY <1>2, <1>3 DEF AttemptEnds

\* The end of an attempt keeps the clients as they should be: the client waits
\* on no connection then, and the others are not touched.
LEMMA AttemptNext ==
  ASSUME ServiceInv, NEW c \in Clients, Calling(c),
         NEW code \in Codes \cup {"none", "ok", "ipc", "timeout"}, AttemptEnds(c, code),
         shaken' \in [Clients -> BOOLEAN], \A d \in Clients : shaken[d] => shaken'[d],
         \A k \in Conns : conn'[k] = conn[k] \/ conn'[k] = None
  PROVE  ClientTypeOK' /\ Talking'
<1>1. PICK call \in Calls :
        /\ client' = [client EXCEPT ![c] = call] /\ call.conn = None
        /\ call.at \in {"new", "health"} => UNCHANGED attached /\ client[c].at = "health"
        /\ attached' \in [Clients -> BOOLEAN]
        /\ \A d \in Clients \ {c} : attached'[d] = attached[d]
        /\ got' \in [Clients -> Failures \cup {"none", "ok", "local"}]
  BY AttemptGives DEF ServiceInv
<1>2. client'[c] = call /\ \A d \in Clients \ {c} : client'[d] = client[d]
  BY <1>1 DEF ServiceInv, ClientTypeOK
<1>3. ClientTypeOK'
  BY <1>1 DEF ServiceInv, ClientTypeOK
<1>4. Conversation(c)'
  BY <1>1, <1>2 DEF Conversation, ServiceInv, Talking
<1>5. ASSUME NEW d \in Clients \ {c} PROVE Conversation(d)'
  <2>1. client[d].conn \in Conns \cup {None}
    BY DEF ServiceInv, ClientTypeOK, Calls
  <2>2. Conversation(d)
    BY DEF ServiceInv, Talking
  <2> QED
    BY <1>1, <1>2, <2>1, <2>2 DEF Conversation, Answers, Calling
<1> QED
  BY <1>3, <1>4, <1>5 DEF Talking

\* A step that leaves the clients' calls alone, and whose connections carry what
\* they carried, is no news for the clients.
LEMMA ListenNext ==
  ASSUME ServiceInv, UNCHANGED <<client, attached, got>>,
         shaken' \in [Clients -> BOOLEAN], \A c \in Clients : shaken[c] => shaken'[c],
         \A k \in Conns :
            \/ conn'[k] = conn[k] \/ conn'[k] = None \/ conn'[k].from = None
            \/ /\ conn[k] # None
               /\ conn'[k].from = conn[k].from /\ conn'[k].method = conn[k].method
               /\ conn'[k].at = "reply" /\ conn'[k].reply = "bootstrap_required"
                     => \A c \in Clients : client[c].at # "idle" => shaken'[c]
               /\ conn'[k].at = "reply" /\ conn'[k].reply = "incompatible"
                     => conn'[k].method = "health"
  PROVE  ClientTypeOK' /\ Talking'
<1>1. ClientTypeOK'
  BY DEF ServiceInv, ClientTypeOK
<1>2. ASSUME NEW c \in Clients PROVE Conversation(c)'
  <2>1. Conversation(c)
    BY DEF ServiceInv, Talking
  <2>2. client[c].conn \in Conns \cup {None} /\ c # None
    BY NoneAssumption DEF ServiceInv, ClientTypeOK, Calls
  <2>3. ASSUME client[c].conn # None, conn'[client[c].conn] # None,
               conn'[client[c].conn].from = c
        PROVE  Answers(c, conn[client[c].conn])'
    BY <2>1, <2>2, <2>3 DEF Conversation, Answers, Calling
  <2> QED
    BY <2>1, <2>3 DEF Conversation, Calling
<1> QED
  BY <1>1, <1>2 DEF Talking

\* A client that starts or asks has no connection and forgets what disturbed its
\* last call; then it moves to a new call, or answers at once.
LEMMA FreshNext ==
  ASSUME ServiceInv, NEW c \in Clients, NEW call \in Calls, ~Calling(c),
         client' = [client EXCEPT ![c] = call], call.conn = None,
         call.at \in {"new", "health"} => client[c].at = "new",
         shaken' = [shaken EXCEPT ![c] = FALSE], UNCHANGED <<conn, attached>>,
         got' \in [Clients -> Failures \cup {"none", "ok", "local"}]
  PROVE  ClientTypeOK' /\ Talking'
<1>1. client'[c] = call /\ \A d \in Clients \ {c} : client'[d] = client[d] /\ shaken'[d] = shaken[d]
  BY DEF ServiceInv, ClientTypeOK
<1>2. ClientTypeOK'
  BY DEF ServiceInv, ClientTypeOK
<1>3. Conversation(c)'
  BY <1>1 DEF Conversation, ServiceInv, Talking
<1>4. ASSUME NEW d \in Clients \ {c} PROVE Conversation(d)'
  BY <1>1 DEF Conversation, Answers, Calling, ServiceInv, Talking
<1> QED
  BY <1>2, <1>3, <1>4 DEF Talking

\* A client that connects waits on a request of its own that was not looked at.
LEMMA ConnectNext ==
  ASSUME ServiceInv, NEW c \in Clients, Connect(c)
  PROVE  ClientTypeOK' /\ Talking'
<1> DEFINE r == Request(c, client[c].at, VaultOf[c], TRUE, None)
           call == [client[c] EXCEPT !.conn = Slot]
<1>1. Slot \in Conns /\ conn[Slot] = None
  BY DEF Connect, Slot, Free
<1>2. /\ conn'[Slot] = r /\ \A k \in Conns \ {Slot} : conn'[k] = conn[k]
      /\ r.from = c /\ r.method = client[c].at /\ r.at = "route"
  BY <1>1 DEF Connect, Handler, Request, ServiceInv, Registered, ServerTypeOK
<1>3. /\ call \in Calls /\ call.conn = Slot /\ call.at = client[c].at
      /\ client' = [client EXCEPT ![c] = call]
  BY <1>1 DEF Connect, Moves, ServiceInv, ClientTypeOK, Calls
<1>4. client'[c] = call /\ \A d \in Clients \ {c} : client'[d] = client[d]
  BY <1>3 DEF ServiceInv, ClientTypeOK
<1>5. UNCHANGED <<attached, got, shaken>>
  BY DEF Connect
<1> HIDE DEF r, call
<1>6. ClientTypeOK'
  BY <1>3, <1>5 DEF ServiceInv, ClientTypeOK
<1>7. Conversation(c)'
  BY <1>2, <1>3, <1>4, <1>5 DEF Connect, Conversation, Answers, Calling, ServiceInv, Talking
<1>8. ASSUME NEW d \in Clients \ {c} PROVE Conversation(d)'
  <2>1. client[d].conn \in Conns \cup {None}
    BY DEF ServiceInv, ClientTypeOK, Calls
  <2> QED
    BY <1>2, <1>4, <1>5, <2>1 DEF Conversation, Answers, Calling, ServiceInv, Talking
<1> QED
  BY <1>6, <1>7, <1>8 DEF Talking

\* A client and a daemon start with no call, no connection and an empty registry.
LEMMA ServiceInit == Init => ServiceInv
<1> SUFFICES ASSUME Init PROVE ServiceInv
  OBVIOUS
<1>1. ServerTypeOK
  BY DEF Init, ServerTypeOK
<1>2. ClientTypeOK
  BY DEF Init, ClientTypeOK, NoCall, Calls
<1>3. Registered
  BY <1>1 DEF Init, Registered, Locked, Opened, Open, Opening, At, InPlace, AttachedIsWatched
<1>4. Talking
  BY DEF Init, Talking, Conversation, NoCall
<1> QED
  BY <1>2, <1>3, <1>4 DEF ServiceInv

\* Every step of clients, handlers, daemon and provider keeps the three parts.
LEMMA ServiceNext == ASSUME ServiceInv, [Next]_vars PROVE ServiceInv'
<1>1. Registered'
  BY RegisteredNext DEF ServiceInv
<1> SUFFICES ClientTypeOK' /\ Talking'
  BY <1>1 DEF ServiceInv
<1>2. shaken \in [Clients -> BOOLEAN] /\ got \in [Clients -> Failures \cup {"none", "ok", "local"}]
      /\ conn \in [Conns -> Requests \cup {None}]
  BY DEF ServiceInv, ClientTypeOK, Registered, ServerTypeOK
<1>3. ASSUME NEW k \in Conns, Handling(k) \/ BuildFails(k) \/ WatchFails(k) \/ RankFails(k)
      PROVE  ClientTypeOK' /\ Talking'
  BY <1>3, HandlerSays, ListenNext
<1>4. ASSUME NEW v \in Vaults, Loading(v) \/ LoadFails(v) PROVE ClientTypeOK' /\ Talking'
  <2>1. UNCHANGED <<client, attached, got, conn>> /\ (UNCHANGED shaken \/ ShakeAll)
    BY <1>4 DEF Loading, LoadFails, BeginLoad, EndLoad, Share, Warm, Phases
  <2> QED
    BY <1>2, <2>1, ListenNext DEF ShakeAll
<1>5. CASE Stop
  <2>1. UNCHANGED <<client, attached, got>> /\ ShakeAll /\ \A k \in Conns : conn'[k] = None
    BY <1>5 DEF Stop, NoDaemon
  <2> QED
    BY <1>2, <2>1, ListenNext DEF ShakeAll
<1>6. CASE Start
  BY <1>2, <1>6, ListenNext DEF Start
<1>7. ASSUME NEW r \in Requests, r.from = None, Free # {}, Handler(Slot, r),
             UNCHANGED clientVars
      PROVE  ClientTypeOK' /\ Talking'
  <2>1. Slot \in Conns /\ conn' = [conn EXCEPT ![Slot] = r]
    BY <1>7 DEF Slot, Free, Handler
  <2>2. \A k \in Conns : conn'[k] = conn[k] \/ conn'[k].from = None
    BY <1>2, <1>7, <2>1
  <2> QED
    BY <1>2, <1>7, <2>2, ListenNext
<1>8. ASSUME NEW method \in Methods, NEW v \in Vaults, NEW watch \in BOOLEAN,
             NEW m \in Models \cup {None}, Foreign(method, v, watch, m)
      PROVE  ClientTypeOK' /\ Talking'
  <2>1. Request(None, method, v, watch, m) \in Requests
    BY DEF Request, Requests
  <2> QED
    BY <1>7, <1>8, <2>1 DEF Foreign, Request
<1>9. ASSUME NEW c \in Clients, Inspect(c) PROVE ClientTypeOK' /\ Talking'
  <2>1. Request(None, "ensure_vault", VaultOf[c], TRUE, None) \in Requests
    BY VaultsAssumption DEF Request, Requests, Methods
  <2> QED
    BY <1>7, <1>9, <2>1 DEF Inspect, Request
<1>10. ASSUME NEW c \in Clients, StartClient(c) \/ Ask(c) PROVE ClientTypeOK' /\ Talking'
  <2>1. ~Calling(c) /\ UNCHANGED <<conn, attached>> /\ shaken' = [shaken EXCEPT ![c] = FALSE]
    BY <1>10 DEF StartClient, Ask, Calling
  <2>2. /\ NoCall \in Calls /\ NoCall.conn = None /\ NoCall.at = "idle"
        /\ \A at \in {"health", "ensure_vault", "search"} :
              Call(at) \in Calls /\ Call(at).conn = None /\ Call(at).at = at
    BY DEF NoCall, Call, Calls
  <2>3. CASE StartClient(c)
    <3>1. PICK call \in {NoCall, Call("health")} : client' = [client EXCEPT ![c] = call]
      BY <2>3 DEF StartClient, Moves, Attaching
    <3> QED
      BY <1>2, <2>1, <2>2, <2>3, <3>1, FreshNext DEF StartClient
  <2>4. ASSUME NEW x \in Failures \cup {"local"}, Ends(c, x) PROVE ClientTypeOK' /\ Talking'
    BY <1>2, <2>1, <2>2, <2>4, FreshNext DEF Ends, Moves
  <2>5. CASE Ask(c)
    <3>1. \A x \in LocalAnswers(c) : x \in Failures \cup {"local"}
      BY DEF LocalAnswers, Failures
    <3>2. CASE \E x \in LocalAnswers(c) : Ends(c, x)
      BY <2>4, <3>1, <3>2
    <3>3. CASE Fails(c, "unavailable")
      BY <2>4, <3>1, <3>2, <3>3 DEF Fails, Failures
    <3>4. CASE /\ Moves(c, Call(IF ensured[c] THEN "search" ELSE "ensure_vault"))
               /\ got' = [got EXCEPT ![c] = "none"]
      <4>1. PICK at \in {"ensure_vault", "search"} : client' = [client EXCEPT ![c] = Call(at)]
        BY <3>4 DEF Moves
      <4> QED
        BY <1>2, <2>1, <2>2, <3>4, <4>1, FreshNext
    <3> QED
      BY <2>5, <3>2, <3>3, <3>4 DEF Ask
  <2> QED
    BY <1>10, <2>3, <2>5
<1>11. ASSUME NEW c \in Clients, Connect(c) PROVE ClientTypeOK' /\ Talking'
  BY <1>11, ConnectNext
<1>12. ASSUME NEW c \in Clients, Broken(c) \/ TimeOut(c) PROVE ClientTypeOK' /\ Talking'
  <2>1. PICK code \in {"ipc", "timeout"} : AttemptEnds(c, code)
    BY <1>12 DEF Broken, TimeOut
  <2>2. Calling(c) /\ shaken' = [shaken EXCEPT ![c] = TRUE] /\ UNCHANGED conn
    BY <1>12 DEF Broken, TimeOut
  <2> QED
    BY <1>2, <2>1, <2>2, AttemptNext
<1>13. ASSUME NEW c \in Clients, Receive(c) PROVE ClientTypeOK' /\ Talking'
  <2> DEFINE k == client[c].conn
  <2>1. k \in Conns /\ conn[k] \in Requests
    BY <1>2, <1>13 DEF Receive, At, ServiceInv, ClientTypeOK, Calls
  <2>2. conn[k].reply \in Codes \cup {"none", "ok"} /\ AttemptEnds(c, conn[k].reply)
    BY <1>13, <2>1 DEF Receive, Requests
  <2>3. Calling(c) /\ UNCHANGED shaken /\ \A j \in Conns : conn'[j] = conn[j] \/ conn'[j] = None
    BY <1>2, <1>13 DEF Receive
  <2> QED
    BY <1>2, <2>2, <2>3, AttemptNext
<1>14. CASE UNCHANGED vars
  BY <1>2, <1>14, ListenNext
<1> QED
  BY <1>3, <1>4, <1>5, <1>6, <1>8, <1>9, <1>10, <1>11, <1>12, <1>13, <1>14 DEF Next

\* The invariant the theorems below rest on: the lock of every vault, its
\* runtimes and its place in the registry, and what each client waits for.
THEOREM ServiceCorrect == Spec => []ServiceInv
<1>1. Init => ServiceInv
  BY ServiceInit
<1>2. ServiceInv /\ [Next]_vars => ServiceInv'
  BY ServiceNext
<1> QED
  BY <1>1, <1>2, PTL DEF Spec

\* VaultRegistry::ensure_vault never opens a vault twice: the second lookup under
\* the vault's lock leaves one embedding runtime per vault, in the registry or
\* with the request that opens it, whatever fails in between.
THEOREM OneRuntime == Spec => []OneRuntimePerVault
<1>1. ServiceInv => OneRuntimePerVault
  BY DEF ServiceInv, Registered, Opened, Open, OneRuntimePerVault
<1> QED
  BY <1>1, ServiceCorrect, PTL

\* ensure_vault that was answered with success found or left the vault in the
\* registry, watched if the request asked for it.
THEOREM AttachedWatched == Spec => []AttachedIsWatched
<1>1. ServiceInv => AttachedIsWatched
  BY DEF ServiceInv, Registered
<1> QED
  BY <1>1, ServiceCorrect, PTL

\* search_semantic in auto mode falls back to the in-process index only in a
\* call that a stop, a timeout or a failure of the daemon has disturbed.
THEOREM NoCompetitor == Spec => NoCompetingAnswer
<1>1. ASSUME ServiceInv, [Next]_vars, NEW c \in Clients, attached[c],
             client[c].at # "idle", client'[c].at = "idle", got'[c] \in {"local", "embedding"}
      PROVE  shaken'[c]
  <2>0. Conversation(c) /\ client \in [Clients -> Calls] /\ conn \in [Conns -> Requests \cup {None}]
        /\ shaken \in [Clients -> BOOLEAN]
    BY <1>1 DEF ServiceInv, Talking, ClientTypeOK, Registered, ServerTypeOK
  <2>1. Calling(c) /\ client[c].at # "health"
    BY <1>1, <2>0 DEF Conversation, Calling, Calls
  <2>2. client'[c] # client[c]
    BY <1>1
  <2>3. CASE Broken(c) \/ TimeOut(c)
    BY <2>0, <2>3 DEF Broken, TimeOut
  <2>4. CASE Receive(c)
    <3> DEFINE k == client[c].conn
    <3>1. k \in Conns /\ conn[k] \in Requests /\ conn[k].at = "reply" /\ conn[k].from = c
      BY <2>0, <2>4 DEF Receive, At, Calls
    <3>2. conn[k].reply \in Codes \cup {"none", "ok"} /\ AttemptEnds(c, conn[k].reply)
      BY <2>4, <3>1 DEF Receive, Requests
    <3>3. ShouldFallBack(conn[k].reply)
      <4>1. PICK call \in Calls :
              /\ client' = [client EXCEPT ![c] = call]
              /\ call.at = "idle" /\ got'[c] \in {"local", "embedding"}
                    => client[c].at = "health" \/ ShouldFallBack(conn[k].reply)
        BY <1>1, <2>1, <3>2, AttemptGives DEF ServiceInv
      <4> QED
        BY <1>1, <2>0, <2>1, <4>1
    <3>4. conn[k].reply \in {"bootstrap_required", "incompatible"}
      BY <3>2, <3>3 DEF ShouldFallBack, Codes
    <3>5. Answers(c, conn[k])
      BY <2>0, <2>4, <3>1, NoneAssumption DEF Conversation, Receive
    <3> QED
      BY <2>1, <2>4, <3>1, <3>4, <3>5 DEF Answers, Receive
  <2>5. CASE StartClient(c) \/ Ask(c) \/ Connect(c)
    <3>1. Connect(c)
      BY <2>1, <2>5 DEF StartClient, Ask, Calling
    <3>2. client'[c] = [client[c] EXCEPT !.conn = Slot] /\ client[c] \in Calls
      BY <2>0, <3>1 DEF Connect, Moves
    <3>3. client'[c].at = client[c].at
      BY <3>2 DEF Calls
    <3> QED
      BY <1>1, <3>3
  <2>6. ASSUME NEW d \in Clients \ {c},
               \/ StartClient(d) \/ Ask(d) \/ Connect(d) \/ Broken(d) \/ Receive(d) \/ TimeOut(d)
        PROVE  client'[c] = client[c]
    <3>1. ASSUME NEW call, Moves(d, call) PROVE client'[c] = client[c]
      BY <2>0, <3>1 DEF Moves
    <3>2. ASSUME NEW x, Ends(d, x) PROVE client'[c] = client[c]
      BY <3>1, <3>2 DEF Ends
    <3>3. ASSUME NEW x, Fails(d, x) PROVE client'[c] = client[c]
      BY <3>2, <3>3 DEF Fails
    <3>4. ASSUME NEW x, AttemptEnds(d, x) PROVE client'[c] = client[c]
      BY <3>1, <3>2, <3>3, <3>4 DEF AttemptEnds, Outcome
    <3> QED
      BY <2>6, <3>1, <3>2, <3>3, <3>4 DEF StartClient, Ask, Connect, Broken, Receive, TimeOut
  <2>7. CASE UNCHANGED client
    BY <2>2, <2>7
  <2>8. ASSUME NEW k \in Conns, Handling(k) \/ BuildFails(k) \/ WatchFails(k) \/ RankFails(k)
        PROVE  UNCHANGED client
    BY <1>1, <2>8, HandlerSays
  <2>9. ASSUME NEW v \in Vaults, Loading(v) \/ LoadFails(v) PROVE UNCHANGED client
    BY <2>9 DEF Loading, LoadFails, BeginLoad, EndLoad, Share, Warm
  <2>10. ASSUME NEW method \in Methods, NEW v \in Vaults, NEW watch \in BOOLEAN,
                NEW m \in Models \cup {None}, Foreign(method, v, watch, m)
         PROVE  UNCHANGED client
    BY <2>10 DEF Foreign
  <2>11. CASE Stop \/ Start \/ \E d \in Clients : Inspect(d)
    BY <2>7, <2>11 DEF Stop, Start, Inspect
  <2> QED
    BY <1>1, <2>2, <2>3, <2>4, <2>5, <2>6, <2>7, <2>8, <2>9, <2>10, <2>11 DEF Next
<1>2. ServiceInv /\ [Next]_vars =>
        [\A c \in Clients :
          attached[c] /\ client[c].at # "idle" /\ client'[c].at = "idle"
              /\ got'[c] \in {"local", "embedding"} => shaken'[c]]_vars
  BY <1>1
<1> QED
  BY <1>2, ServiceCorrect, PTL DEF Spec, NoCompetingAnswer

=============================================================================
