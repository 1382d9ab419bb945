-------------------------- MODULE DaemonBootstrap ---------------------------
(***************************************************************************)
(* How the clients of one semantic home agree on one daemon                *)
(* (src/src/daemon/bootstrap.rs, home.rs, manifest.rs and the socket's     *)
(* life in server.rs).  A client takes the install lock, reads the         *)
(* manifest, probes the endpoint and then reuses the daemon it finds,      *)
(* replaces it by a newer one, or starts one and writes the manifest.      *)
(* Daemons bind and unlink the socket on their own, may be interrupted or  *)
(* die, and a client may die anywhere, leaving the daemon it started.      *)
(*                                                                         *)
(* A binary is an executable path, a version a number, and a daemon the    *)
(* process that was started from a binary.  There is one endpoint.         *)
(***************************************************************************)
EXTENDS Naturals, FiniteSets

CONSTANTS
    Clients,      \* processes that bootstrap the daemon
    Pids,         \* daemon processes, numbered; bounds how many are started
    Binaries,     \* paths of daemon executables
    Models,       \* embedding model names
    None,         \* no client, process, binary or manifest
    Override,     \* client -> daemon_path_override
    Sibling,      \* client -> obsidian-semanticd beside its own executable
    Model,        \* client -> model name it is configured with
    Release,      \* client -> version it downloads
    Ops,          \* client -> operations it calls
    Managed,      \* <semantic-home>/bin/obsidian-semanticd
    OnPath,       \* the daemon found on PATH
    Packaged,     \* binaries a package upgrade replaces
    Compatible,   \* versions of a daemon API the clients accept
    Legacy,       \* versions without the shutdown method
    FirstInstalled, FirstManifests, \* what was there before
    MaxUpgrades,  \* bound: package upgrades
    MaxStops,     \* bound: daemons interrupted or killed from outside
    MaxSlips      \* bound: clients that die or time out, daemons that fail

VARIABLES
    lock,         \* who holds install.lock
    manifest,     \* manifest.json
    installed,    \* binary -> version of the file, 0 if there is none
    socket,       \* the process whose socket file is at the endpoint
    proc,         \* pid -> where the process is
    image,        \* pid -> what the process was started from
    job,          \* client -> what it is doing
    upgrades, stops, slips

daemonVars == <<socket, proc, image>>
boundVars  == <<upgrades, stops, slips>>
vars == <<lock, manifest, installed, daemonVars, job, boundVars>>

Origins   == {"sibling", "managed", "path", "override", "unknown"}
Versions  == Nat \ {0}
Manifests == [version : Versions, origin : Origins, pid : Pids,
              binary : Binaries, model : Models]
Plans     == [binary : Binaries, origin : Origins, expect : Nat, model : Models]
Images    == [binary : Binaries, version : Versions, model : Models,
              origin : Origins]
Victims   == [pid : Pids, version : Versions, model : Models]   \* what was stopped
Places    == {"idle", "probe", "stop", "rpc", "term", "down", "choose",
              "start", "check", "health"}
Idle      == [at |-> "idle", op |-> "none", m |-> None, keep |-> FALSE,
              want |-> 0, pid |-> None, victim |-> None, plan |-> None]
Operations == {"ensure", "activate", "reconcile", "prepare"}

ASSUME NoneAssumption ==
    /\ None \notin Clients \cup Pids \cup Binaries
    /\ None \notin Manifests \cup Images
    /\ None \notin Plans \cup Victims
ASSUME HomeAssumption ==
    /\ Pids \subseteq Nat
    /\ Managed \in Binaries /\ OnPath \in Binaries \cup {None} /\ Packaged \subseteq Binaries
    /\ Override \in [Clients -> Binaries \cup {None}]
    /\ Sibling \in [Clients -> Binaries \cup {None}]
    /\ Model \in [Clients -> Models] /\ Release \in [Clients -> Versions]
    /\ Ops \in [Clients -> SUBSET Operations]
    /\ FirstInstalled \in [Binaries -> Nat]
    /\ FirstManifests \subseteq Manifests \cup {None}
ASSUME BoundsAssumption ==
    MaxUpgrades \in Nat /\ MaxStops \in Nat /\ MaxSlips \in Nat

-----------------------------------------------------------------------------
(* The endpoint.                                                           *)

\* The process that answers at the endpoint.
Serving == IF socket # None /\ proc[socket] = "up" THEN socket ELSE None

\* Connecting is refused: no socket file, or its owner is gone.
Silent == socket # None => proc[socket] = "dead"

\* The daemon is on its way out: it accepts no more, the connection breaks.
Closing == socket # None /\ proc[socket] = "stopping"

\* Process d goes on to the given place; a dead one has no image.
Becomes(d, place) ==
    /\ proc'  = [proc EXCEPT ![d] = place]
    /\ image' = [image EXCEPT ![d] = IF place = "dead" THEN None ELSE image[d]]

\* What a client that stops process d remembers of it.
Stopped(d) == [pid |-> d, version |-> image[d].version, model |-> image[d].model]

Healthy      == Serving # None /\ image[Serving].version \in Compatible
Incompatible == Serving # None /\ image[Serving].version \notin Compatible

-----------------------------------------------------------------------------
(* What a client knows and decides.                                        *)

\* Mutation: whatever is not an override is taken for owned.
OwnedByDefault(origin) == origin # "override"

\* The origins a client may stop a daemon of.
Owned(origin) == origin \in {"sibling", "managed"}

HasSibling(c) == Sibling[c] # None /\ installed[Sibling[c]] > 0

\* The version a sibling has, or has for the caller of reconcile.
Wanted(c) == IF job[c].op = "reconcile" THEN job[c].want ELSE installed[Sibling[c]]

\* effective_origin: manifests of older versions do not say who owns the daemon.
EffectiveOrigin(c) ==
    LET m == job[c].m IN
    IF m.origin # "unknown" THEN m.origin
    ELSE IF m.binary = Sibling[c] THEN "sibling"
    ELSE IF m.binary = Managed THEN "managed"
    ELSE "unknown"

\* Who the client takes the owner of the running daemon to be.
OriginFor(c) ==
    IF Override[c] # None THEN "override"
    ELSE IF job[c].op \in {"ensure", "activate"} /\ ~HasSibling(c)
    THEN job[c].m.origin
    ELSE EffectiveOrigin(c)

\* Whether the client stops the healthy daemon d. A call of ensure_daemon and
\* one after an upgrade stop one that they own for a newer one.
Newer(c, d) == HasSibling(c) /\ Wanted(c) > image[d].version
EnsureStops(c, d)    == Owned(OriginFor(c)) /\ Newer(c, d)
ReconcileStops(c, d) == Owned(EffectiveOrigin(c)) /\ Override[c] = None /\ Newer(c, d)
\* The installer makes room for a file that cannot be replaced while it runs.
PrepareStops(c) == Owned(EffectiveOrigin(c)) /\ Override[c] = None

\* Mutation: any other version is worth a restart.
ReplacesOther(c, d) ==
    /\ Owned(OriginFor(c))
    /\ \/ job[c].op = "prepare"
       \/ HasSibling(c) /\ Wanted(c) # image[d].version

\* Mutation: ensure_daemon leaves every healthy daemon as it is.
ReplacesOnRequest(c, d) == job[c].op = "prepare" /\ PrepareStops(c)

Replaces(c, d) ==
    CASE job[c].op = "reconcile" -> ReconcileStops(c, d)
      [] job[c].op = "prepare"   -> PrepareStops(c)
      [] OTHER                   -> EnsureStops(c, d)

\* resolve_daemon_binary
Resolved(c) ==
    LET m == job[c].m IN
    IF Override[c] # None THEN [binary |-> Override[c], origin |-> "override"]
    ELSE IF HasSibling(c) THEN [binary |-> Sibling[c], origin |-> "sibling"]
    ELSE IF m # None THEN [binary |-> m.binary, origin |-> m.origin]
    ELSE [binary |-> Managed, origin |-> "managed"]

FoundOnPath == OnPath # None /\ installed[OnPath] > 0
\* A download puts the client's own version into the home.
Downloaded(c) == [installed EXCEPT ![Managed] = Release[c]]

\* The binary that is started: the resolved one, or else one found on PATH, or
\* else a downloaded one.  Nothing takes the place of an override, be it the
\* client's own or the manifest's.
Chosen(c) ==
    IF Resolved(c).origin = "override" \/ installed[Resolved(c).binary] > 0 THEN Resolved(c)
    ELSE IF FoundOnPath THEN [binary |-> OnPath, origin |-> "path"]
    ELSE [binary |-> Managed, origin |-> "managed"]

\* Mutation: an activation starts with the model the client asks for.
ConfiguredModel(c) == Model[c]

\* An activation keeps the model of the daemon it replaces.
ModelFor(c) ==
    IF job[c].keep /\ job[c].m # None THEN job[c].m.model ELSE Model[c]

-----------------------------------------------------------------------------
(* Steps of a client.                                                      *)

Goto(c, place) ==
    /\ job' = [job EXCEPT ![c].at = place]
    /\ UNCHANGED <<lock, manifest>>

\* Mutation: the guard of the lock is forgotten.
FinishLocked(c) == job' = [job EXCEPT ![c] = Idle] /\ UNCHANGED lock

\* The operation returns; the lock is released when its guard is dropped.
Finish(c) ==
    /\ job'  = [job EXCEPT ![c] = Idle]
    /\ lock' = None

\* The lock is taken and the manifest read under it.  Without a manifest
\* ensure_daemon goes straight to starting a daemon.
Begin(c, op) ==
    /\ job[c].at = "idle"
    /\ lock = None
    /\ op \in {"reconcile", "prepare"} => manifest # None
    /\ lock' = c
    /\ job'  = [job EXCEPT ![c] =
                  [Idle EXCEPT !.at = IF manifest = None THEN "choose" ELSE "probe",
                               !.op = op, !.m = manifest,
                               !.want = IF op = "reconcile" /\ HasSibling(c)
                                        THEN installed[Sibling[c]] ELSE 0,
                               !.keep = (op = "activate")]]
    /\ UNCHANGED <<manifest, installed, daemonVars, boundVars>>

\* The daemon is healthy and stays; ensure_daemon refreshes the manifest.
Reuse(c) ==
    /\ job[c].at = "probe"
    /\ Healthy /\ ~Replaces(c, Serving)
    /\ IF job[c].op \in {"ensure", "activate"}
       THEN /\ manifest' = [job[c].m EXCEPT !.version = image[Serving].version,
                                            !.origin  = OriginFor(c)]
            /\ Finish(c)
       ELSE /\ Finish(c)
            /\ UNCHANGED manifest
    /\ UNCHANGED <<installed, daemonVars, boundVars>>

\* The daemon is healthy, owned and has to make way.  It tells its process in the
\* answer, as every daemon of this protocol does (route_health).
Replace(c) ==
    /\ job[c].at = "probe"
    /\ Healthy /\ Replaces(c, Serving)
    /\ job' = [job EXCEPT ![c].at = "stop", ![c].pid = Serving, ![c].keep = TRUE]
    /\ UNCHANGED <<lock, manifest, installed, daemonVars, boundVars>>

\* Nobody answers at the manifest's endpoint.
FindSilent(c) ==
    /\ job[c].at = "probe"
    /\ Silent
    /\ IF job[c].op \in {"ensure", "activate"}
       THEN Goto(c, "choose")
       ELSE Finish(c) /\ UNCHANGED manifest
    /\ UNCHANGED <<installed, daemonVars, boundVars>>

\* The daemon speaks another API, or the connection breaks while the daemon
\* closes down: the operation ends with an error.
ProbeFails(c) ==
    /\ job[c].at \in {"probe", "down", "health"}
    /\ Closing \/ (Incompatible /\ job[c].at # "down")
    /\ Finish(c)
    /\ UNCHANGED <<manifest, installed, daemonVars, boundVars>>

\* process_matches_binary
Matches(c) ==
    LET d == job[c].pid IN
    proc[d] # "dead" /\ image[d].binary = job[c].m.binary

\* shutdown_owned_daemon looks whether the process runs the manifest's binary.
CheckOwner(c) ==
    /\ job[c].at = "stop"
    /\ IF Matches(c) THEN Goto(c, "rpc")
                     ELSE Finish(c) /\ UNCHANGED manifest
    /\ UNCHANGED <<installed, daemonVars, boundVars>>

\* The shutdown request goes to whoever serves the endpoint now.  A daemon that
\* does not know the method is to be signalled instead.
SendShutdown(c) ==
    /\ job[c].at = "rpc"
    /\ IF Serving = None
       THEN Finish(c) /\ UNCHANGED <<manifest, proc, image>>
       ELSE IF image[Serving].version \in Legacy
       THEN Goto(c, "term") /\ UNCHANGED <<proc, image>>
       ELSE /\ Becomes(Serving, "stopping")
            /\ job'  = [job EXCEPT ![c].at = "down", ![c].victim = Stopped(Serving)]
            /\ UNCHANGED <<lock, manifest>>
    /\ UNCHANGED <<installed, socket, boundVars>>

\* stop_legacy_owned_process: the process is checked once more, interrupted,
\* and killed when it does not go.
Terminate(c) ==
    /\ job[c].at = "term"
    /\ IF ~Matches(c)
       THEN Finish(c) /\ UNCHANGED <<manifest, proc, image>>
       ELSE /\ \E end \in {"stopping", "dead"} : Becomes(job[c].pid, end)
            /\ job' = [job EXCEPT ![c].at = "down", ![c].victim = Stopped(job[c].pid)]
            /\ UNCHANGED <<lock, manifest>>
    /\ UNCHANGED <<installed, socket, boundVars>>

\* Mutation: the old daemon is not waited for.
SeeNothing(c) ==
    /\ job[c].at = "down"
    /\ IF job[c].op = "prepare"
       THEN Finish(c) /\ UNCHANGED manifest
       ELSE Goto(c, "choose")
    /\ UNCHANGED <<installed, daemonVars, boundVars>>

\* wait_for_unreachable: the old daemon has left the endpoint.
SeeDown(c) ==
    /\ job[c].at = "down"
    /\ Silent
    /\ IF job[c].op = "prepare"
       THEN Finish(c) /\ UNCHANGED manifest
       ELSE Goto(c, "choose")
    /\ UNCHANGED <<installed, daemonVars, boundVars>>

\* It has not, or another one came up there: the wait runs out.
DownTimeout(c) ==
    /\ job[c].at = "down"
    /\ Serving # None
    /\ Finish(c)
    /\ UNCHANGED <<manifest, installed, daemonVars, boundVars>>

\* A missing override is an error, any other missing binary is downloaded.  A
\* sibling is asked for its version.
Choose(c) ==
    /\ job[c].at = "choose"
    /\ LET pick    == Chosen(c)
           present == installed[pick.binary] > 0
       IN IF pick.origin = "override" /\ ~present
          THEN Finish(c) /\ UNCHANGED <<manifest, installed>>
          ELSE /\ installed' = IF present THEN installed ELSE Downloaded(c)
               /\ job' = [job EXCEPT ![c].at = "start", ![c].plan =
                    [binary |-> pick.binary, origin |-> pick.origin,
                     expect |-> IF pick.origin # "sibling" THEN 0
                               ELSE IF job[c].op = "reconcile" THEN job[c].want
                               ELSE installed[pick.binary],
                     model  |-> ModelFor(c)]]
               /\ UNCHANGED <<lock, manifest>>
    /\ UNCHANGED <<daemonVars, boundVars>>

\* start_daemon_process; processes are numbered in the order they start.  The
\* file may have been replaced since it was chosen.
Spawn(c) ==
    /\ job[c].at = "start"
    /\ \E d \in Pids :
          /\ \A e \in Pids : proc[e] = "unused" <=> d <= e
          /\ proc'  = [proc EXCEPT ![d] = "starting"]
          /\ image' = [image EXCEPT ![d] =
                [binary  |-> job[c].plan.binary,
                 version |-> installed[job[c].plan.binary],
                 model   |-> job[c].plan.model,
                 origin  |-> job[c].plan.origin]]
          /\ job' = [job EXCEPT ![c].at = "check", ![c].pid = d]
    /\ UNCHANGED <<lock, manifest, installed, socket, boundVars>>

\* A child that exited at once ends the operation; otherwise it is let go.
CheckChild(c) ==
    /\ job[c].at = "check"
    /\ IF proc[job[c].pid] = "dead"
       THEN Finish(c) /\ UNCHANGED manifest
       ELSE Goto(c, "health")
    /\ UNCHANGED <<installed, daemonVars, boundVars>>

\* Mutation: what the manifest said of the binary and the model stays.
SeeUpKept(c) ==
    /\ job[c].at = "health"
    /\ Healthy
    /\ manifest' = [version |-> image[Serving].version, origin |-> job[c].plan.origin,
                    pid |-> job[c].pid, binary |-> job[c].m.binary,
                    model |-> job[c].m.model]
    /\ Finish(c)
    /\ UNCHANGED <<installed, daemonVars, boundVars>>

\* wait_for_health: whoever answers is taken for the child, but a sibling has
\* to report the version the binary had.  Then the manifest is written.
SeeUp(c) ==
    /\ job[c].at = "health"
    /\ Healthy
    /\ LET plan == job[c].plan IN
       IF plan.expect # 0 /\ plan.expect # image[Serving].version
       THEN Finish(c) /\ UNCHANGED manifest
       ELSE /\ manifest' = [version |-> image[Serving].version,
                            origin  |-> plan.origin, pid |-> job[c].pid,
                            binary  |-> plan.binary, model |-> plan.model]
            /\ Finish(c)
    /\ UNCHANGED <<installed, daemonVars, boundVars>>

\* Mutation: the wait has no deadline.
HealthWaitsOn(c) == job[c].at = "health" /\ Silent /\ UNCHANGED vars

\* The child died after the check, or lost its socket to another daemon that
\* was closing down: the wait runs out.
HealthTimeout(c) ==
    /\ job[c].at = "health"
    /\ proc[job[c].pid] \notin {"starting", "cleared"} /\ Silent
    /\ Finish(c)
    /\ UNCHANGED <<manifest, installed, daemonVars, boundVars>>

Slip == slips < MaxSlips /\ slips' = slips + 1 /\ UNCHANGED <<upgrades, stops>>

\* The client dies, a wait runs out too early, a download or a write fails: the
\* operation ends where it is, and what it started is left running.
GiveUp(c) ==
    /\ job[c].at # "idle"
    /\ Slip
    /\ Finish(c)
    /\ UNCHANGED <<manifest, installed, daemonVars>>

-----------------------------------------------------------------------------
(* Steps of a daemon, and of the world around.                             *)

\* run_unix_socket removes whatever file is at the endpoint ...
ClearSocket(d) ==
    /\ proc[d] = "starting"
    /\ Becomes(d, "cleared")
    /\ socket' = None
    /\ UNCHANGED <<lock, manifest, installed, job, boundVars>>

\* ... and binds there; a file that reappeared ends the process.
Bind(d) ==
    /\ proc[d] = "cleared"
    /\ Becomes(d, IF socket = None THEN "up" ELSE "dead")
    /\ socket' = IF socket = None THEN d ELSE socket
    /\ UNCHANGED <<lock, manifest, installed, job, boundVars>>

StartFails(d) ==
    /\ proc[d] = "starting"
    /\ Slip
    /\ Becomes(d, "dead")
    /\ UNCHANGED <<lock, manifest, installed, socket, job>>

\* The end of run_unix_socket: the file at the endpoint is removed, whosever
\* it is, and the process exits.
Unlink(d) ==
    /\ proc[d] = "stopping"
    /\ Becomes(d, "dead")
    /\ socket' = None
    /\ UNCHANGED <<lock, manifest, installed, job, boundVars>>

\* A daemon is interrupted from outside, or killed and its socket left behind.
Lose(d) ==
    /\ proc[d] = "up"
    /\ stops < MaxStops
    /\ stops' = stops + 1
    /\ \E end \in {"stopping", "dead"} : Becomes(d, end)
    /\ UNCHANGED <<lock, manifest, installed, socket, job, upgrades, slips>>

\* A package manager replaces a binary by its next version, without the lock.
Upgrade(b) ==
    /\ upgrades < MaxUpgrades
    /\ upgrades'  = upgrades + 1
    /\ installed' = [installed EXCEPT ![b] = installed[b] + 1]
    /\ UNCHANGED <<lock, manifest, daemonVars, job, stops, slips>>

-----------------------------------------------------------------------------

\* At the start nothing runs, or the daemon a manifest names, or it is gone.
Init ==
    /\ lock = None
    /\ manifest \in FirstManifests
    /\ installed = FirstInstalled
    /\ \E alive \in BOOLEAN :
          LET here(d) == manifest # None /\ d = manifest.pid IN
          /\ alive => manifest # None
          /\ socket = IF manifest = None THEN None ELSE manifest.pid
          /\ proc   = [d \in Pids |-> IF ~here(d) THEN "unused"
                                      ELSE IF alive THEN "up" ELSE "dead"]
          /\ image  = [d \in Pids |->
                IF here(d) /\ alive THEN [binary  |-> manifest.binary,
                                 version |-> manifest.version,
                                 model   |-> manifest.model,
                                 origin  |-> manifest.origin]
                           ELSE None]
    /\ job = [c \in Clients |-> Idle]
    /\ upgrades = 0 /\ stops = 0 /\ slips = 0

ClientStep(c) ==
    \/ Reuse(c) \/ Replace(c) \/ FindSilent(c) \/ ProbeFails(c)
    \/ CheckOwner(c) \/ SendShutdown(c) \/ Terminate(c)
    \/ SeeDown(c) \/ DownTimeout(c)
    \/ Choose(c) \/ Spawn(c) \/ CheckChild(c)
    \/ SeeUp(c) \/ HealthTimeout(c)

DaemonStep(d) == ClearSocket(d) \/ Bind(d) \/ Unlink(d)

Next ==
    \/ \E c \in Clients : \/ \E op \in Ops[c] : Begin(c, op)
                          \/ ClientStep(c)
                          \/ GiveUp(c)
    \/ \E d \in Pids : DaemonStep(d) \/ StartFails(d) \/ Lose(d)
    \/ \E b \in Packaged : Upgrade(b)

Spec == Init /\ [][Next]_vars

\* Every daemon that was started or told to go has bound or gone.
Settled == \A d \in Pids : proc[d] \notin {"starting", "cleared", "stopping"}

\* Running processes run, and clients keep asking for the daemon.
Fairness ==
    /\ \A c \in Clients : WF_vars(ClientStep(c)) /\ SF_vars(Settled /\ Begin(c, "ensure"))
    /\ \A d \in Pids : WF_vars(DaemonStep(d))

\* Clients that come no faster than daemons start.  Without this they could
\* start one daemon after the other, each removing the socket of the last.
Patient == \A c \in Clients :
    job[c].at = "idle" /\ job'[c].at # "idle" => Settled

FairSpec == Init /\ [][Next /\ Patient]_vars /\ Fairness

-----------------------------------------------------------------------------
(* Properties.                                                             *)

TypeOK ==
    /\ lock \in Clients \cup {None}
    /\ manifest \in Manifests \cup {None}
    /\ installed \in [Binaries -> Nat]
    /\ socket \in Pids \cup {None}
    /\ proc \in [Pids -> {"unused", "starting", "cleared", "up", "stopping", "dead"}]
    /\ image \in [Pids -> Images \cup {None}]
    /\ job \in [Clients ->
          [at : Places, op : Operations \cup {"none"},
           m : Manifests \cup {None}, keep : BOOLEAN, want : Nat, pid : Pids \cup {None},
           victim : Victims \cup {None}, plan : Plans \cup {None}]]
    /\ \A c \in Clients : job[c].at # "idle" <=> lock = c

\* Client c starts a daemon.
Starts(c) == job[c].at = "start" /\ job'[c].at = "check"

\* In a home where a daemon was recorded before, while no client failed, a
\* daemon that answers is never given a second one beside it: whoever starts a
\* daemon found the endpoint silent, and it still is (install lock, probe,
\* wait_for_unreachable).
KnownDaemonIsNotDuplicated ==
    [][\A c \in Clients :
          Starts(c) /\ slips = 0 /\ job[c].m # None => Serving = None]_vars

\* A daemon that was found too old and stopped is replaced by a newer one,
\* however often the files change and whoever fails in between.  Nothing is said
\* of a daemon that the request to stop met in place of the one that was probed.
NeverDowngraded ==
    [][\A c \in Clients :
          Starts(c) /\ job[c].victim # None /\ job[c].victim.pid = job[c].pid =>
              image'[job'[c].pid].version > job[c].victim.version]_vars

\* What replaces the daemon of the manifest runs with that daemon's model,
\* whatever model the client asks for and whoever failed before.
ReplacementKeepsTheModel ==
    [][\A c \in Clients :
          Starts(c) /\ job[c].victim # None /\ job[c].victim.pid = job[c].m.pid =>
              image'[job'[c].pid].model = job[c].victim.model]_vars

\* In such a home, while no client failed, none stops a daemon that was started
\* from an override or from PATH.
ExternalIsNotStopped ==
    [][\A d \in Pids :
          proc[d] = "up" /\ proc'[d] # "up" /\ job' # job /\ slips = 0 =>
              image[d].origin \notin {"override", "path"}]_vars

\* In such a home, while no client failed, the manifest tells the truth between
\* two operations about the process it names, as long as that process serves.
ManifestIsTrue ==
    lock = None /\ slips = 0 /\ manifest # None /\ Serving = manifest.pid =>
        /\ image[Serving].version = manifest.version
        /\ image[Serving].binary = manifest.binary
        /\ image[Serving].model = manifest.model

\* Every operation ends and gives the lock back.
EveryBootstrapEnds == \A c \in Clients : lock = c ~> lock # c

\* When upgrades, losses and slips are over, the daemon that serves is the one
\* the package installed, whatever was left running.
EventuallyActivated ==
    <>[](Serving # None /\ \A c \in Clients :
            HasSibling(c) => image[Serving].version = installed[Sibling[c]])

-----------------------------------------------------------------------------
(* What the documentation says and the code does not keep.                 *)

\* "Never spawn duplicate daemon when a healthy daemon already exists.": true
\* where nothing fails.
HealthyIsNeverDuplicated == [][\A c \in Clients : Starts(c) => ~Healthy]_vars
=============================================================================
